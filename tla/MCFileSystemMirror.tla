------------------------- MODULE MCFileSystemMirror -------------------------
(* Two replicas of two files, and three reads or two writes that may overlap.  *)
(* Reads touch no file and writes bypass the pool: only dispose() concerns     *)
(* both, so the behaviours that mix them are left out.                         *)
EXTENDS FileSystemMirror, TLC

CONSTANTS f1, f2

MCReplicas == {f1, f2}
MCFss == <<f1, f2>>

ReadsOrWrites == \/ \A r \in Readers : reader[r] = "idle"
                 \/ \A w \in Writers : writer[w] = Idle
=============================================================================
