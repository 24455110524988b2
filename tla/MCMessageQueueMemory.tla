------------------------ MODULE MCMessageQueueMemory ------------------------
(* Tasks of both kinds for one queue, and up to three consumers. *)
EXTENDS MessageQueueMemory, TLC

CONSTANTS s1, s2, r1, q1

MCQueues == {q1}
MCQueueOf == [t \in {s1, s2, r1} |-> q1]
=============================================================================
