---------------------------- MODULE EventEmitter ----------------------------
(***************************************************************************)
(* eventemitter/src/EventEmitter.ts.  emit() takes a snapshot of the       *)
(* handlers of every event its pattern matches and calls them one after    *)
(* the other; a handler may itself emit, register, remove or dispose.  A   *)
(* handler of many() counts its completed calls and removes itself after   *)
(* the last; once() is many(1).  dispose() removes every handler at once   *)
(* and disables the emitter when the current call stack is done.           *)
(***************************************************************************)
EXTENDS Naturals, Sequences, FiniteSets, SequencesExt

CONSTANTS Events,
          Regs,       \* each is registered by one call of on, once or many
          Count,      \* Count[r]: the count given to many(); Forever for on()
          Forever,
          Patterns,   \* what emit() is called with: the set of events it matches
          NoHandler,
          MaxDepth    \* bound: emissions nested in one another

ASSUME EmitterAssumption == /\ Count \in [Regs -> (Nat \ {0}) \cup {Forever}]
                            /\ Forever \notin Nat
                            /\ Patterns \subseteq SUBSET Events
                            /\ NoHandler \notin Regs
                            /\ MaxDepth \in Nat

VARIABLES names,      \* the keys of the Map events, in order of insertion
          handlers,   \* handlers[e]: the Set of e, in order of insertion
          handle,     \* handle[r]: the Disposable on() returned
          left,       \* left[r]: the count of many()'s proxy
          stack,      \* the emissions in progress, the innermost last: the
                      \* handler that runs, and those of the snapshot to come
          closing,    \* a dispose() has started and not finished
          disposed,
          late,       \* the handlers registered while closing
          completed   \* completed[r]: calls of r that returned, r one of many()

vars == <<names, handlers, handle, left, stack, closing, disposed, late, completed>>

Frame == [running : Regs \cup {NoHandler}, todo : Seq(Regs)]

Init == /\ names = <<>>
        /\ handlers = [e \in Events |-> <<>>]
        /\ handle = [r \in Regs |-> "none"]
        /\ left = Count
        /\ stack = <<>>
        /\ closing = FALSE
        /\ disposed = FALSE
        /\ late = {}
        /\ completed = [r \in Regs |-> 0]

\* User code runs: a handler, or the program when nothing is being emitted.
InHandler == stack # <<>> /\ Last(stack).running # NoHandler
BetweenHandlers == stack # <<>> /\ Last(stack).running = NoHandler
UserCode == ~BetweenHandlers

SetTop(frame) == stack' = Append(Front(stack), frame)
-----------------------------------------------------------------------------
\* on(), once(), many(): the handler joins the Set of its event.
On(r, e) ==
    /\ UserCode /\ ~disposed /\ handle[r] = "none"
    /\ handle' = [handle EXCEPT ![r] = "live"]
    /\ names' = IF e \in ToSet(names) THEN names ELSE Append(names, e)
    /\ handlers' = [handlers EXCEPT ![e] = Append(@, r)]
    /\ late' = IF closing THEN late \cup {r} ELSE late
    /\ UNCHANGED <<left, stack, closing, disposed, completed>>

\* The elements of list that are in S, in order.
Kept(list, S) == FlattenSeq([n \in DOMAIN list |-> IF list[n] \in S THEN <<list[n]>> ELSE <<>>])

\* off(): the handlers of S leave their Sets, and an empty Set leaves the Map.
Off(S) ==
    /\ handlers' = [e \in Events |-> Kept(handlers[e], Regs \ S)]
    /\ names' = Kept(names, {e \in Events : ToSet(handlers[e]) \ S # {}})

\* The Disposable of r is disposed; after the emitter, off() throws.
DisposeHandle(r) ==
    /\ UserCode /\ ~disposed /\ handle[r] = "live"
    /\ handle' = [handle EXCEPT ![r] = "disposed"]
    /\ Off({r})
    /\ UNCHANGED <<left, stack, closing, disposed, late, completed>>

\* emit() and emitAsync(): the snapshot.
Emit(p) ==
    LET matched == Kept(names, p)
    IN  /\ UserCode /\ ~disposed
        /\ Len(stack) < MaxDepth
        /\ stack' = Append(stack, [running |-> NoHandler,
               todo |-> FlattenSeq([i \in DOMAIN matched |-> handlers[matched[i]]])])
        /\ UNCHANGED <<names, handlers, handle, left, closing, disposed, late, completed>>

CallNext ==
    /\ BetweenHandlers /\ Last(stack).todo # <<>>
    /\ SetTop([running |-> Head(Last(stack).todo), todo |-> Tail(Last(stack).todo)])
    /\ UNCHANGED <<names, handlers, handle, left, closing, disposed, late, completed>>

\* A slip: the proxy of many() counts, and never removes itself.
NeverUsedUp(r) == FALSE

\* The call of r that returns is the last its count allows.
UsedUp(r) == Count[r] # Forever /\ left[r] <= 1

\* The handler returns; the proxy of many() counts the call.
Returns ==
    LET r == Last(stack).running
    IN  /\ InHandler
        /\ SetTop([Last(stack) EXCEPT !.running = NoHandler])
        /\ completed' = [completed EXCEPT ![r] = IF Count[r] = Forever THEN @ ELSE @ + 1]
        /\ left' = [left EXCEPT ![r] = IF @ \in Nat \ {0} THEN @ - 1 ELSE @]
        /\ IF UsedUp(r)
           THEN Off({r}) /\ handle' = [handle EXCEPT ![r] = "disposed"]
           ELSE UNCHANGED <<names, handlers, handle>>
        /\ UNCHANGED <<closing, disposed, late>>

\* It throws, or lets an exception pass: the emission ends, and so does the
\* count of this call.  What called emit() goes on.
Throws == /\ InHandler
          /\ stack' = Front(stack)
          /\ UNCHANGED <<names, handlers, handle, left, closing, disposed, late, completed>>

EmitReturns == /\ BetweenHandlers /\ Last(stack).todo = <<>>
               /\ stack' = Front(stack)
               /\ UNCHANGED <<names, handlers, handle, left, closing, disposed, late, completed>>

Live == {r \in Regs : handle[r] = "live"}

\* A slip: dispose() leaves the handlers of many() to their counts.
DisposeHalf ==
    /\ UserCode /\ ~disposed
    /\ closing' = TRUE
    /\ Off({r \in Live : Count[r] = Forever})
    /\ handle' = [r \in Regs |-> IF r \in Live /\ Count[r] = Forever THEN "disposed" ELSE handle[r]]
    /\ UNCHANGED <<left, stack, disposed, late, completed>>

\* dispose(), up to its await: every Disposable registered so far.
Dispose ==
    /\ UserCode /\ ~disposed
    /\ closing' = TRUE
    /\ Off(Live)
    /\ handle' = [r \in Regs |-> IF r \in Live THEN "disposed" ELSE handle[r]]
    /\ UNCHANGED <<left, stack, disposed, late, completed>>

\* The rest of dispose(), once the call stack is empty.
Disposed == /\ closing /\ stack = <<>>
            /\ closing' = FALSE
            /\ disposed' = TRUE
            /\ names' = <<>>
            /\ handlers' = [e \in Events |-> <<>>]
            /\ UNCHANGED <<handle, left, stack, late, completed>>

Next == \/ \E r \in Regs : (\E e \in Events : On(r, e)) \/ DisposeHandle(r)
        \/ \E p \in Patterns : Emit(p)
        \/ CallNext \/ Returns \/ Throws \/ EmitReturns
        \/ Dispose \/ Disposed

Spec == Init /\ [][Next]_vars
-----------------------------------------------------------------------------
Registered == UNION {ToSet(handlers[e]) : e \in Events}

\* Type correctness; the keys of the Map are the events that have handlers, each
\* handler is in one Set once, and it is there exactly while its handle is live.
TypeOK ==
    /\ IsInjective(names) /\ ToSet(names) = {e \in Events : handlers[e] # <<>>}
    /\ \A e \in Events : handlers[e] \in Seq(Regs) /\ IsInjective(handlers[e])
    /\ \A d, e \in Events : d # e => ToSet(handlers[d]) \cap ToSet(handlers[e]) = {}
    /\ handle \in [Regs -> {"none", "live", "disposed"}]
    /\ left \in [Regs -> Nat \cup {Forever}]
    /\ stack \in Seq(Frame)
    /\ closing \in BOOLEAN /\ disposed \in BOOLEAN
    /\ completed \in [Regs -> Nat]
    /\ ~disposed => Registered = Live

\* Types hold.  A handler of many() completes at most count calls, and one more
\* for each emission that was nested in another: each had its snapshot before the
\* count ran out.  No handler is called for an emission that started after that.
CountIsRespected ==
    /\ TypeOK
    /\ \A r \in Regs : Count[r] # Forever =>
          /\ completed[r] <= Count[r] + MaxDepth - 1
          /\ completed[r] >= Count[r] => r \notin Registered

\* While dispose() waits for the call stack, the only handlers still to run are
\* those of emissions under way and those registered since.
ClosingEmitterIsQuiet ==
    [][closing /\ Len(stack') > Len(stack) => ToSet(Last(stack').todo) \subseteq late']_vars
=============================================================================
