------------------------------ MODULE Leasing ------------------------------
(***************************************************************************)
(* What a pool of shared objects promises, whatever it is made of: a       *)
(* client asks for an object, is granted one that nobody uses, and hands   *)
(* it back.  Closing the pool may drop the free objects and refuse the     *)
(* clients that still want one; it never takes an object from its user.    *)
(* Pool implements this specification.                                     *)
(***************************************************************************)
CONSTANTS Objects,   \* the objects that may be leased
          Clients,   \* the calls that lease them
          None       \* "no object"

VARIABLES closed,    \* the pool was shut down
          wants,     \* the clients whose request is unanswered
          lease,     \* lease[c] is the object c uses, or None
          free       \* the objects a request may be answered with

vars == <<closed, wants, lease, free>>

Init == /\ closed = FALSE
        /\ wants = {}
        /\ lease = [c \in Clients |-> None]
        /\ free \in SUBSET Objects

Ask(c) == /\ c \notin wants
          /\ lease[c] = None
          /\ wants' = wants \cup {c}
          /\ UNCHANGED <<closed, lease, free>>

Grant(c, o) == /\ c \in wants
               /\ o \in free
               /\ wants' = wants \ {c}
               /\ lease' = [lease EXCEPT ![c] = o]
               /\ free' = free \ {o}
               /\ UNCHANGED closed

Return(c) == /\ lease[c] # None
             /\ free' = free \cup {lease[c]}
             /\ lease' = [lease EXCEPT ![c] = None]
             /\ UNCHANGED <<closed, wants>>

Provide(o) == /\ o \notin free
              /\ \A c \in Clients : lease[c] # o
              /\ free' = free \cup {o}
              /\ UNCHANGED <<closed, wants, lease>>

Close == /\ ~closed
         /\ closed' = TRUE
         /\ free' \in SUBSET free
         /\ UNCHANGED <<wants, lease>>

Refuse(c) == /\ closed
             /\ c \in wants
             /\ wants' = wants \ {c}
             /\ UNCHANGED <<closed, lease, free>>

Next == \/ \E c \in Clients : Ask(c) \/ Return(c) \/ Refuse(c)
        \/ \E c \in Clients, o \in Objects : Grant(c, o)
        \/ \E o \in Objects : Provide(o)
        \/ Close

Spec == Init /\ [][Next]_vars

\* No object is used by two clients, and a used object is not free.
Exclusive == /\ \A c, d \in Clients : lease[c] = lease[d] /\ lease[c] # None => c = d
             /\ \A c \in Clients : lease[c] \notin free
=============================================================================
