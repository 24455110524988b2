SPECIFICATION Spec
CONSTANTS
    f1 = f1
    f2 = f2
    None = None
    Replicas <- MCReplicas
    Fss <- MCFss
    Readers = {r1, r2, r3}
    Writers = {w1, w2}
    Paths = {p, q}
CONSTRAINT ReadsOrWrites
INVARIANTS LostToFailedReads ReplicasAgree
CHECK_DEADLOCK FALSE
