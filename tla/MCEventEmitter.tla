--------------------------- MODULE MCEventEmitter ---------------------------
(* A handler of on(), one of once() and one of many(2), on two events; an     *)
(* emission by name and one by a pattern that matches both.                   *)
EXTENDS EventEmitter, TLC

CONSTANTS a, b, persistent, single, double

MCEvents == {a, b}
MCRegs == {persistent, single, double}
MCCount == persistent :> Forever @@ single :> 1 @@ double :> 2
MCPatterns == {{a}, {a, b}}
=============================================================================
