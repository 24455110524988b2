--------------------------- MODULE MCPoolTransform ---------------------------
(* Two streams of two chunks over two objects: a stream may hold both objects *)
(* while the other waits, and one failure leaves one object for the rest.     *)
EXTENDS PoolTransform, TLC

CONSTANTS o1, o2

MCObjects == {o1, o2}
MCInitialObjects == <<o1, o2>>
=============================================================================
