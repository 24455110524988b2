-------------------------- MODULE RemoteConnection --------------------------
(***************************************************************************)
(* What FileSystemFTP, FileSystemSFTP and FileSystemSSH share: one         *)
(* connection, opened on demand by getConnection(), and a Pool of a single *)
(* token that lets one operation use it at a time.  An operation acquires  *)
(* the token, then the connection, and releases the token in its callback. *)
(* A client emits its events between the tasks of the program, when no     *)
(* microtask is left: a call that was granted the token has gone on.       *)
(* A lease is one acquires(): unlink and createWriteStream take two.       *)
(***************************************************************************)
EXTENDS Naturals, Sequences, FiniteSets, SequencesExt

CONSTANTS Token, NoToken,
          Leases,
          Kinds,         \* how the operations of the class treat the token:
                         \* "released"  by the callback, whatever the outcome
                         \* "awaited"   after an await, if it succeeds (SSH)
                         \* "forgotten" unlink of what is no file, and no
                         \*             directory it may remove
                         \* "stream"    at the end of the stream and at its error,
                         \*             of which it may emit both
          Subsystem,     \* SFTP: "ready" is followed by a request that may fail
          MaxClients     \* bound: clients created

ASSUME RemoteAssumption ==
    /\ Token # NoToken /\ MaxClients \in Nat /\ IsFiniteSet(Leases)
    /\ Kinds \subseteq {"released", "awaited", "forgotten", "stream"}
    /\ Subsystem \in BOOLEAN

VARIABLES fsDisposed, tokenWaiters, idleToken, leaseStage, leaseToken,
                    \* Pool's: disposed, waiters, pool, stage and object
          connectionState,
          clients,   \* every client created, the present connection last
          lease,     \* lease[c]: where its operation stands
          kind,      \* kind[c]: what it does with the token
          via,       \* via[c]: the client it waits for or operates on
          twice,     \* releases of the token by a stream that had released it
          crashed    \* an 'error' event or a TypeError nobody handles

tokenVars == <<fsDisposed, tokenWaiters, idleToken, leaseStage, leaseToken>>
remoteVars == <<fsDisposed, tokenWaiters, idleToken, leaseStage, leaseToken, connectionState, clients,
          lease, kind, via, twice, crashed>>

TokenPool == INSTANCE Pool WITH Objects <- {Token}, Clients <- Leases, InitialObjects <- <<Token>>,
                 None <- NoToken, disposed <- fsDisposed, waiters <- tokenWaiters, pool <- idleToken,
                 stage <- leaseStage, object <- leaseToken

RemoteInit == /\ TokenPool!Init
              /\ connectionState = "Closed"
              /\ clients = <<>>
              /\ lease = [c \in Leases |-> "idle"]
              /\ kind \in [Leases -> Kinds]
              /\ via = [c \in Leases |-> 0]
              /\ twice = 0
              /\ crashed = FALSE

Set(c, s) == lease' = [lease EXCEPT ![c] = s]
-----------------------------------------------------------------------------
\* An operation up to the await of acquires().
Call(c) ==
    /\ ~crashed /\ lease[c] = "idle"
    /\ \/ ~fsDisposed /\ TokenPool!Acquires(c) /\ Set(c, "acquiring")
       \/ fsDisposed /\ Set(c, "rejected") /\ UNCHANGED tokenVars
    /\ UNCHANGED <<connectionState, clients, kind, via, twice, crashed>>

\* dispose() refused the token.
Refused(c) == /\ ~crashed /\ leaseStage[c] = "refused"
              /\ TokenPool!Resume(c)
              /\ Set(c, "rejected")
              /\ UNCHANGED <<connectionState, clients, kind, via, twice, crashed>>

\* A slip: getConnection() does not reuse the connection.
ReadyAnyway == FALSE
IsReady == connectionState = "Ready"

\* The token is here: getConnection().
GetConnection(c) ==
    /\ ~crashed /\ leaseStage[c] = "granted"
    /\ TokenPool!Resume(c)
    /\ \/ /\ connectionState = "Disconnecting"
          /\ Set(c, "rejected")
          /\ UNCHANGED <<connectionState, clients, via>>
       \/ /\ IsReady
          /\ Set(c, "operating")
          /\ via' = [via EXCEPT ![c] = Len(clients)]
          /\ UNCHANGED <<connectionState, clients>>
       \/ /\ connectionState = "Closed" \/ (connectionState = "Ready" /\ ~IsReady)
          /\ Len(clients) < MaxClients
          /\ clients' = Append(clients, "connecting")
          /\ connectionState' = "Connecting"
          /\ Set(c, "connecting")
          /\ via' = [via EXCEPT ![c] = Len(clients) + 1]
       \/ /\ connectionState = "Connecting"
          /\ Set(c, "connecting")
          /\ via' = [via EXCEPT ![c] = Len(clients)]
          /\ UNCHANGED <<connectionState, clients>>
    /\ UNCHANGED <<kind, twice, crashed>>

-----------------------------------------------------------------------------
Quiet == ~crashed /\ \A c \in Leases : leaseStage[c] \notin {"granted", "refused"}
Alive(i) == clients[i] \in {"connecting", "mute", "ready"}
WaitingFor(i) == {c \in Leases : lease[c] = "connecting" /\ via[c] = i}

Becomes(i, s) == clients' = [clients EXCEPT ![i] = s]
Moves(S, s) == lease' = [c \in Leases |-> IF c \in S THEN s ELSE lease[c]]

\* 'ready', or for SFTP 'ready' and the subsystem: onReady.
ClientReady(i) ==
    /\ Quiet /\ ~fsDisposed /\ clients[i] = "connecting"
    /\ Becomes(i, "ready")
    /\ connectionState' = "Ready"
    /\ Moves(WaitingFor(i), "operating")
    /\ UNCHANGED <<tokenVars, kind, via, twice, crashed>>

\* 'ready', but the subsystem is refused: the callback returns.
SubsystemRefused(i) ==
    /\ Quiet /\ ~fsDisposed /\ Subsystem /\ clients[i] = "connecting"
    /\ Becomes(i, "mute")
    /\ UNCHANGED <<tokenVars, connectionState, lease, kind, via, twice, crashed>>

\* 'error': onError rejects the call that waits; it has the token.  The
\* connection that is ready has no listener for it left.
ClientFails(i) ==
    /\ Quiet /\ ~fsDisposed /\ Alive(i)
    /\ crashed' = (WaitingFor(i) = {})
    /\ Becomes(i, "failed")
    /\ Moves(WaitingFor(i), "rejected")
    /\ UNCHANGED <<tokenVars, connectionState, kind, via, twice>>

\* 'end', also of a client that dispose() destroyed.
ClientEnds(i) == /\ Quiet /\ clients[i] # "ended"
                 /\ Becomes(i, "ended")
                 /\ connectionState' = "Closed"
                 /\ UNCHANGED <<tokenVars, lease, kind, via, twice, crashed>>

-----------------------------------------------------------------------------
\* A slip: an operation that fails keeps the token.
SettleOnSuccess(c, outcome) ==
    /\ Set(c, outcome)
    /\ IF outcome = "resolved" /\ ~fsDisposed THEN TokenPool!Release(c) ELSE UNCHANGED tokenVars
    /\ UNCHANGED crashed

\* The callback settles the promise and releases; once this.pool is gone that
\* is a TypeError in the client's event handler.
SettleAndRelease(c, outcome) ==
    /\ Set(c, outcome)
    /\ \/ ~fsDisposed /\ TokenPool!Release(c) /\ UNCHANGED crashed
       \/ fsDisposed /\ crashed' = TRUE /\ UNCHANGED tokenVars

\* The operation ends, in time or with the connection.
Settle(c) ==
    /\ Quiet /\ lease[c] = "operating"
    /\ \/ kind[c] = "released" /\ \E o \in {"resolved", "rejected"} : SettleAndRelease(c, o)
       \/ kind[c] = "stream" /\ SettleAndRelease(c, "rejected")
       \/ kind[c] = "stream" /\ Set(c, "streaming") /\ UNCHANGED <<tokenVars, crashed>>
       \/ kind[c] = "awaited" /\ ~fsDisposed /\ TokenPool!Release(c) /\ Set(c, "resolved") /\ UNCHANGED crashed
       \/ kind[c] = "awaited" /\ Set(c, "rejected") /\ UNCHANGED <<tokenVars, crashed>>
       \/ kind[c] = "forgotten" /\ Set(c, "resolved") /\ UNCHANGED <<tokenVars, crashed>>
    /\ UNCHANGED <<connectionState, clients, kind, via, twice>>

\* The stream emits its end or its error: a listener of each releases the token.
\* It may yet emit the other of the two, or has but one listener (FTP's upload).
StreamEnds(c) ==
    /\ Quiet /\ lease[c] = "streaming"
    /\ \E s \in {"ended", "resolved"} : SettleAndRelease(c, s)
    /\ UNCHANGED <<connectionState, clients, kind, via, twice>>

\* It emits the other: the token is released once more.
StreamFails(c) ==
    /\ Quiet /\ lease[c] = "ended"
    /\ \/ /\ ~fsDisposed
          /\ TokenPool!HandOver(Token, leaseStage, leaseToken) /\ UNCHANGED fsDisposed
          /\ Set(c, "resolved")
          /\ twice' = twice + 1
          /\ UNCHANGED crashed
       \/ fsDisposed /\ crashed' = TRUE /\ UNCHANGED <<tokenVars, lease, twice>>
    /\ UNCHANGED <<connectionState, clients, kind, via>>

\* dispose(): the client is destroyed, the pool and what waits for it dropped.
DisposeRemote == /\ ~crashed
                 /\ TokenPool!Dispose
                 /\ connectionState' = "Disconnecting"
                 /\ UNCHANGED <<clients, lease, kind, via, twice, crashed>>

RemoteNext == \/ \E c \in Leases : \/ Call(c) \/ Refused(c) \/ GetConnection(c)
                                   \/ Settle(c) \/ StreamEnds(c) \/ StreamFails(c)
              \/ \E i \in DOMAIN clients : \/ ClientReady(i) \/ SubsystemRefused(i)
                                           \/ ClientFails(i) \/ ClientEnds(i)
              \/ DisposeRemote

\* Microtasks run; a connection attempt comes to an end, as the clients have a
\* timeout for it; an operation on a live connection is answered.
Answered(c) == lease[c] = "operating" /\ Alive(via[c]) /\ Settle(c)
AttemptEnds(i) == /\ i \in DOMAIN clients /\ clients[i] = "connecting"
                  /\ ClientReady(i) \/ SubsystemRefused(i) \/ ClientFails(i)
RemoteFairness == /\ \A c \in Leases : WF_remoteVars(Refused(c) \/ GetConnection(c)) /\ WF_remoteVars(Answered(c))
                  /\ \A i \in 1 .. MaxClients : WF_remoteVars(AttemptEnds(i))

RemoteSpec == RemoteInit /\ [][RemoteNext]_remoteVars
FairRemoteSpec == RemoteSpec /\ RemoteFairness
-----------------------------------------------------------------------------
Settled == {"resolved", "rejected"}

\* Type correctness; until dispose() the state is that of the last client.
RemoteTypeOK ==
    /\ TokenPool!TypeOK
    /\ connectionState \in {"Disconnecting", "Closed", "Connecting", "Ready"}
    /\ clients \in Seq({"connecting", "mute", "ready", "failed", "ended"})
    /\ lease \in [Leases -> Settled \cup {"idle", "acquiring", "connecting", "operating", "streaming", "ended"}]
    /\ kind \in [Leases -> Kinds]
    /\ via \in [Leases -> 0 .. MaxClients]
    /\ twice \in Nat
    /\ crashed \in BOOLEAN
    /\ connectionState = "Closed" => \A i \in DOMAIN clients : clients[i] = "ended" \/ fsDisposed
    /\ connectionState = "Ready" => Last(clients) = "ready" \/ crashed
    /\ connectionState = "Connecting" => Last(clients) \in {"connecting", "mute", "failed"}

\* Types hold, no two clients are alive, and one operation uses one at a time, with
\* one more for each stream that released the token twice; no client is created once
\* the file system is disposed, although the 'end' of the destroyed one makes the
\* state Closed again.
OneConnection ==
    /\ [](/\ RemoteTypeOK
          /\ \A i, j \in DOMAIN clients : Alive(i) /\ Alive(j) => i = j
          /\ Cardinality({c \in Leases : lease[c] \in {"connecting", "operating", "streaming"}}) <= 1 + twice)
    /\ [][fsDisposed => Len(clients') = Len(clients)]_remoteVars

\* Calls that settled and kept the token.
Keepers == {c \in Leases : leaseStage[c] = "using" /\ lease[c] \in Settled}

\* Until dispose(), the pool and the calls have the token between them once, and
\* once more for each stream that released it twice; and a call that settled keeps
\* it only for one of three causes: its connection could not be made, its awaited
\* command failed, it had nothing to do.
TokenLostWithCause ==
    ~fsDisposed =>
        /\ \A c \in Keepers :
              \/ lease[c] = "rejected" /\ clients[via[c]] \in {"failed", "ended"}
              \/ lease[c] = "rejected" /\ kind[c] = "awaited"
              \/ kind[c] = "forgotten"
        /\ Len(idleToken) + Cardinality({c \in Leases : leaseToken[c] # NoToken}) = 1 + twice

\* The token is with an operation that will never end: the client it waits for
\* or works on is gone, or refused SFTP, or it is a stream not read to its end.
Hanging(c) == \/ lease[c] = "streaming"
              \/ lease[c] \in {"connecting", "operating"} /\ clients[via[c]] \in {"mute", "failed", "ended"}

\* Every call settles, or hangs itself, unless every token there is was lost or
\* hangs with another call.
CallsSettle ==
    \A c \in Leases :
        lease[c] = "acquiring" ~> \/ lease[c] \in Settled \cup {"streaming", "ended"}
                                  \/ Hanging(c)
                                  \/ Cardinality(Keepers \cup {d \in Leases : Hanging(d)}) >= 1 + twice
                                  \/ fsDisposed \/ crashed
=============================================================================
