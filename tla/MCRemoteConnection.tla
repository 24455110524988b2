------------------------- MODULE MCRemoteConnection -------------------------
(* Two or three leases of the token of one remote file system, every kind of    *)
(* operation, a subsystem that may refuse and as many clients as leases.      *)
EXTENDS RemoteConnection
=============================================================================
