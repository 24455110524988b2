------------------------------- MODULE AuthCache -------------------------------
(***************************************************************************)
(* server/src/extension/auth.ts: the hook that finds the roles of a        *)
(* request's user, through a cache of the groups of users and of the roles *)
(* of groups, the handlers that remove an entry when its record changes,   *)
(* and the directive @permission.  The cache is shared and each call to it *)
(* takes a step, as does each query.                                       *)
(***************************************************************************)
EXTENDS Naturals, FiniteSets

CONSTANTS Requests, Writers,
          Users, Groups, Roles,
          Super,      \* the role that may do everything
          Blank,      \* the name that an empty list, joined and split, becomes
          LoggedOut,  \* the role of a request without a user
          UserOf,     \* UserOf[r]: the user in the token of request r
          Needed,     \* Needed[r]: the roles of the field it asks for
          Plans,      \* what the writers do: [key, value], None to delete
          Databases, None

ASSUME KeysAreDistinct == Blank \notin Users \cup Groups \cup Roles /\ Users \cap Groups = {}

\* A record has a list: a user his groups, a group its roles.
Keys == Users \cup Groups \cup {Blank}
Lists == SUBSET (Groups \cup Roles)
ListsOf(k) == IF k \in Users THEN SUBSET Groups ELSE IF k \in Groups THEN SUBSET Roles ELSE {}

ASSUME ListsAreTyped ==
    /\ \A l \in Lists \cup {{Blank}} : l # None
    /\ \A db \in Databases : /\ db \in [Keys -> Lists \cup {None}]
                              /\ \A k \in Keys : db[k] \in ListsOf(k) \cup {None}
    /\ \A p \in Plans, w \in Writers : /\ p[w].key \in Users \cup Groups
                                       /\ p[w].value \in ListsOf(p[w].key) \cup {None}

ASSUME TokensAreValid ==
    /\ UserOf \in [Requests -> Users]
    /\ Super \notin {Blank, LoggedOut} /\ \A r \in Requests : Blank \notin Needed[r]

VARIABLES
    plan, written,  \* written[w]: "idle", "committed", "untold" if no handler removes
                    \* the entry, or "told" when it is removed
    database,       \* database[k]: the list of the record, or None
    cache,          \* cache[k]: the list of the entry as it is read, or None
    state,          \* state[r]: where request r stands
    stage,          \* stage[r][k]: where its lookup of k stands
    list,           \* list[r][k]: what the lookup found
    overwritten,    \* overwritten[w], history: the list its commit replaced
    past,           \* history: past[k], the lists k ever had
    seen,           \* history: seen[r][k], those it had, or showed, during r
    raced, tainted  \* history: the keys removed too early, and the requests that met some

writing == <<plan, written, database, overwritten, past>>
vars == <<writing, cache, state, stage, list, seen, raced, tainted>>

Init ==
    /\ plan \in Plans
    /\ written = [w \in Writers |-> "idle"]
    /\ database \in Databases
    /\ cache = [k \in Keys |-> None]
    /\ state = [r \in Requests |-> "idle"]
    /\ stage = [r \in Requests |-> [k \in Keys |-> "idle"]]
    /\ list = [r \in Requests |-> [k \in Keys |-> {}]]
    /\ overwritten = [w \in Writers |-> None]
    /\ past = [k \in Keys |-> {database[k]}]
    /\ seen = [r \in Requests |-> [k \in Keys |-> {}]]
    /\ raced = {}
    /\ tainted = [r \in Requests |-> FALSE]

-----------------------------------------------------------------------------
Becomes(w, new) ==
    LET k == plan[w].key IN
    /\ database' = [database EXCEPT ![k] = new]
    /\ overwritten' = [overwritten EXCEPT ![w] = database[k]]
    /\ past' = [past EXCEPT ![k] = @ \cup {new}]
    /\ seen' = [r \in Requests |-> [seen[r] EXCEPT ![k] = @ \cup {new}]]
    /\ UNCHANGED <<plan, cache, state, stage, list, raced, tainted>>

\* The record is replaced or deleted; an update of no row does nothing.
Commit(w) ==
    /\ written[w] = "idle"
    /\ written' = [written EXCEPT ![w] = "committed"]
    /\ Becomes(w, IF database[plan[w].key] = None THEN None ELSE plan[w].value)

\* What statements leave of which some failed: the old relations may stay, and new
\* ones be missing, whether the row was updated or not.
Partly(w) ==
    IF plan[w].value = None THEN {None}
    ELSE {kept \cup added : kept \in {{}, database[plan[w].key]}, added \in SUBSET plan[w].value}

\* A commit that rejects keeps the statements that did not fail and emits nothing.
CommitFails(w) ==
    /\ written[w] = "idle" /\ database[plan[w].key] # None
    /\ written' = [written EXCEPT ![w] = "untold"]
    /\ \E new \in Partly(w) : Becomes(w, new)

\* A slip: a replaced record keeps its entry.
RemovedIfDeleted(w) == IF plan[w].value = None THEN {plan[w].key} ELSE {}

\* The entries the handlers of "replace" and "delete" remove.
Removed(w) == {plan[w].key}

\* Who read a list that has changed since, and has yet to store it.
Holds(r, k) == stage[r][k] = "set" /\ list[r][k] # database[k]

Unset(w) ==
    LET k == plan[w].key
        late == \E r \in Requests : Holds(r, k)
    IN  /\ written[w] = "committed"
        /\ written' = [v \in Writers |-> IF v = w \/ (written[v] = "untold" /\ plan[v].key = k)
                                        THEN "told" ELSE written[v]]
        /\ cache' = [c \in Keys |-> IF c \in Removed(w) THEN None ELSE cache[c]]
        /\ raced' = IF late THEN raced \cup {k} ELSE raced \ {k}
        /\ tainted' = [r \in Requests |-> tainted[r] \/ late]
        /\ UNCHANGED <<plan, database, overwritten, past, state, stage, list, seen>>

\* cache.unset() rejects and the entry stays.
UnsetFails(w) ==
    /\ written[w] = "committed"
    /\ written' = [written EXCEPT ![w] = "untold"]
    /\ UNCHANGED <<plan, database, overwritten, past, cache, state, stage, list, seen, raced, tainted>>

\* The commits whose change of k the cache was not told of, yet or ever.
Unheard(k) == {w \in Writers : written[w] \in {"committed", "untold"} /\ plan[w].key = k}

-----------------------------------------------------------------------------
\* A request with a token that verifies.
Begin(r) ==
    /\ state[r] = "idle"
    /\ state' = [state EXCEPT ![r] = "user"]
    /\ stage' = [stage EXCEPT ![r][UserOf[r]] = "has"]
    /\ seen' = [seen EXCEPT ![r] = [k \in Keys |-> {database[k]} \cup {overwritten[w] : w \in Unheard(k)}]]
    /\ tainted' = [tainted EXCEPT ![r] = raced # {}]
    /\ UNCHANGED <<writing, cache, list, raced>>

\* cache.has()
Has(r, k) ==
    /\ stage[r][k] = "has"
    /\ stage' = [stage EXCEPT ![r][k] = IF cache[k] = None THEN "find" ELSE "get"]
    /\ UNCHANGED <<writing, cache, state, list, seen, raced, tainted>>

\* cache.get(): an entry that has gone meanwhile reads as an empty string.
Get(r, k) ==
    /\ stage[r][k] = "get"
    /\ list' = [list EXCEPT ![r][k] = IF cache[k] = None THEN {Blank} ELSE cache[k]]
    /\ stage' = [stage EXCEPT ![r][k] = "done"]
    /\ UNCHANGED <<writing, cache, state, seen, raced, tainted>>

\* A slip: a record with nothing in its list is taken for none.
FoundWithList(k) == database[k] \notin {None, {}}

Found(k) == database[k] # None

\* findById() succeeds.
Find(r, k) ==
    /\ stage[r][k] = "find" /\ Found(k)
    /\ list' = [list EXCEPT ![r][k] = database[k]]
    /\ stage' = [stage EXCEPT ![r][k] = "set"]
    /\ UNCHANGED <<writing, cache, state, seen, raced, tainted>>

\* A slip: no rejection reaches the hook.
CaughtNever(k) == FALSE

\* The hook catches what rejects in its own body; not in the executors for groups.
Caught(k) == k \in Users

\* The request goes on without a user, or waits for ever.
Ends(r, k, how) ==
    /\ stage' = [stage EXCEPT ![r][k] = how]
    /\ state' = IF Caught(k) THEN [state EXCEPT ![r] = "unauthenticated"] ELSE state
    /\ UNCHANGED <<writing, list, seen, raced, tainted>>

\* findById() rejects for want of the record.
NotFound(r, k) == stage[r][k] = "find" /\ ~Found(k) /\ Ends(r, k, "lost") /\ UNCHANGED cache

\* A list as it is read back, joined and split.
Stored(l) == IF l = {} THEN {Blank} ELSE l

\* cache.set()
Set(r, k) ==
    /\ stage[r][k] = "set"
    /\ cache' = [cache EXCEPT ![k] = Stored(list[r][k])]
    /\ stage' = [stage EXCEPT ![r][k] = "done"]
    /\ UNCHANGED <<writing, state, list, seen, raced, tainted>>

\* findById() rejects with the batch its loader put it in, or a call of the cache does,
\* set() with its entry stored or not.
Rejects(r, k) ==
    /\ stage[r][k] \in {"has", "get", "find", "set"}
    /\ Ends(r, k, "rejected")
    /\ \/ UNCHANGED cache
       \/ stage[r][k] = "set" /\ cache' = [cache EXCEPT ![k] = Stored(list[r][k])]

GroupsOf(r) == list[r][UserOf[r]]

\* The groups are known: they are looked up at the same time.
LookUp(r) ==
    /\ state[r] = "user" /\ stage[r][UserOf[r]] = "done"
    /\ state' = [state EXCEPT ![r] = "groups"]
    /\ stage' = [stage EXCEPT ![r] = [k \in Keys |-> IF k \in GroupsOf(r) THEN "has" ELSE @[k]]]
    /\ UNCHANGED <<writing, cache, list, seen, raced, tainted>>

\* All of them were found.
Authenticate(r) ==
    /\ state[r] = "groups" /\ \A g \in GroupsOf(r) : stage[r][g] = "done"
    /\ state' = [state EXCEPT ![r] = "authenticated"]
    /\ UNCHANGED <<writing, cache, stage, list, seen, raced, tainted>>

RolesOf(r) == IF state[r] = "authenticated" THEN UNION {list[r][g] : g \in GroupsOf(r)} ELSE {LoggedOut}

\* The directive @permission: all of the roles it names, or super.
Resolve(r) ==
    /\ state[r] \in {"authenticated", "unauthenticated"}
    /\ state' = [state EXCEPT ![r] = IF Super \in RolesOf(r) \/ Needed[r] \subseteq RolesOf(r)
                                     THEN "allowed" ELSE "refused"]
    /\ UNCHANGED <<writing, cache, stage, list, seen, raced, tainted>>

-----------------------------------------------------------------------------
Step(r) == \/ \E k \in Keys : Has(r, k) \/ Get(r, k) \/ Find(r, k) \/ NotFound(r, k) \/ Set(r, k) \/ Rejects(r, k)
           \/ LookUp(r) \/ Authenticate(r) \/ Resolve(r)

Next == \/ \E w \in Writers : Commit(w) \/ CommitFails(w) \/ Unset(w) \/ UnsetFails(w)
        \/ \E r \in Requests : Begin(r) \/ Step(r)

\* The cache and the database answer every call.
Spec == /\ Init /\ [][Next]_vars
        /\ \A r \in Requests : WF_vars(Step(r))
        /\ \A w \in Writers : WF_vars(Unset(w) \/ UnsetFails(w))
-----------------------------------------------------------------------------
\* The types; no entry is an empty list.
TypeOK ==
    /\ written \in [Writers -> {"idle", "committed", "untold", "told"}]
    /\ database \in [Keys -> Lists \cup {None}]
    /\ cache \in [Keys -> (Lists \ {{}}) \cup {{Blank}, None}]
    /\ state \in [Requests -> {"idle", "user", "groups", "authenticated", "unauthenticated", "allowed", "refused"}]
    /\ stage \in [Requests -> [Keys -> {"idle", "has", "get", "find", "set", "done", "lost", "rejected"}]]

\* Types hold, and an entry that is not what the database says is what a commit replaced
\* whose handlers have not removed it, and never will if the commit or the removal rejected, or
\* was stored after its removal by a request that read the record before the commit.
StaleEntryHasCause ==
    TypeOK /\ \A k \in Keys : cache[k] \notin {None, Stored(database[k])} =>
        \/ \E w \in Unheard(k) : cache[k] = Stored(overwritten[w])
        \/ k \in raced

\* What a user may do who had these groups, and the groups these roles, at some time during
\* the request or before a commit of which the cache was not told when it began.  Who does
\* not exist, or whose lookup rejected, is logged out.
Entitled(r) ==
    \/ /\ Needed[r] \subseteq {LoggedOut}
       /\ None \in seen[r][UserOf[r]] \/ stage[r][UserOf[r]] = "rejected"
    \/ \E gs \in seen[r][UserOf[r]] \ {None} :
         LET held == UNION {UNION (seen[r][g] \ {None}) : g \in gs}
         IN  Super \in held \/ Needed[r] \subseteq held

\* A request is allowed what its user was entitled to while it ran, but for
\* entries stored after their removal and changes the cache was not told of.
AllowedWasEntitled == \A r \in Requests : state[r] = "allowed" /\ ~tainted[r] => Entitled(r)

\* Where no call of the cache or of the database rejects of itself, a request that waits for
\* ever looked up a group that was deleted, or the blank name: its user was once in no
\* group, or his entry was removed while it was read.
HangsHaveCause ==
    \A r \in Requests, k \in Keys \ Users : stage[r][k] = "lost" =>
        IF k = Blank THEN \/ {} \in past[UserOf[r]]
                          \/ \E w \in Writers : written[w] = "told" /\ plan[w].key = UserOf[r]
        ELSE None \in past[k]

\* Every request is answered, but for those whose lookup of a group finds none or rejects.
RequestsEnd ==
    \A r \in Requests : state[r] = "user" ~> \/ state[r] \in {"allowed", "refused"}
                                             \/ \E k \in Keys \ Users : stage[r][k] \in {"lost", "rejected"}
=============================================================================
