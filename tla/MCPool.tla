------------------------------- MODULE MCPool -------------------------------
(* Two objects, of which one is in the pool from the start, three clients. *)
EXTENDS Pool, TLC

CONSTANTS o1, o2

MCObjects == {o1, o2}
MCInitialObjects == <<o1>>
=============================================================================
