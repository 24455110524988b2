--------------------------- MODULE AuthCacheProofs ---------------------------
(* What the cache of roles guarantees, for every set of requests, writers,     *)
(* users and groups, and every plan of the writers.                            *)
EXTENDS AuthCache, TLAPS

-----------------------------------------------------------------------------
(* The inductive invariant.                                                   *)
Pending(w, k) == written[w] \in {"committed", "untold"} /\ plan[w].key = k
Told(k) == \E w \in Writers : written[w] = "told" /\ plan[w].key = k

Types ==
    /\ TypeOK
    /\ plan \in Plans
    /\ list \in [Requests -> [Keys -> SUBSET (Groups \cup Roles \cup {Blank})]]
    /\ overwritten \in [Writers -> Lists \cup {None}]
    /\ past \in [Keys -> SUBSET (Lists \cup {None})]
    /\ seen \in [Requests -> [Keys -> SUBSET (Lists \cup {None})]]
    /\ raced \subseteq Keys
    /\ tainted \in [Requests -> BOOLEAN]

\* Every list is of its key's kind: a user's are groups, a group's are roles.
ListsFit ==
    /\ \A k \in Keys : database[k] \in ListsOf(k) \cup {None}
    /\ \A k \in Keys : cache[k] = None \/ \E l \in ListsOf(k) : cache[k] = Stored(l)
    /\ \A r \in Requests, k \in Keys :
          /\ stage[r][k] = "set" => list[r][k] \in ListsOf(k)
          /\ stage[r][k] = "done" => list[r][k] = {Blank} \/ list[r][k] \in ListsOf(k)
          /\ seen[r][k] \subseteq ListsOf(k) \cup {None}
    /\ \A w \in Writers : overwritten[w] \in ListsOf(plan[w].key) \cup {None}

\* How far the lookups are when the request is in a state.
Advanced(r) ==
    /\ state[r] = "idle" => \A k \in Keys : stage[r][k] = "idle"
    /\ state[r] = "user" => \A k \in Keys \ {UserOf[r]} : stage[r][k] = "idle"
    /\ \A u \in Users : stage[r][u] # "idle" => u = UserOf[r]
    /\ state[r] \in {"groups", "authenticated"} => stage[r][UserOf[r]] = "done"
    /\ state[r] = "authenticated" => \A g \in GroupsOf(r) : stage[r][g] = "done"
    /\ stage[r][Blank] \in {"idle", "has", "find", "lost", "rejected"}

Progress == \A r \in Requests : Advanced(r)

\* What is about to be stored, and what is stored, is what the database says, or what a
\* commit replaced of which the cache was not told, unless a removal came too early.
FillIsFresh ==
    \A r \in Requests, k \in Keys : stage[r][k] = "set" =>
        \/ list[r][k] = database[k] \/ k \in raced
        \/ \E w \in Writers : Pending(w, k) /\ overwritten[w] = list[r][k]

EntryIsFresh ==
    \A k \in Keys :
        \/ cache[k] \in {None, Stored(database[k])} \/ k \in raced
        \/ \E w \in Writers : Pending(w, k) /\ cache[k] = Stored(overwritten[w])

Fresh == FillIsFresh /\ EntryIsFresh

\* A request that met no late entry knows, and may only learn, lists that were seen.
EntriesSeen(r) == \A k \in Keys : cache[k] = None \/ \E l \in seen[r][k] : cache[k] = Stored(l)

SeenOnly(r) ==
    /\ EntriesSeen(r)
    /\ \A q \in Requests, k \in Keys : stage[q][k] = "set" => list[q][k] \in seen[r][k]
    /\ \A k \in Keys : stage[r][k] = "done" => list[r][k] = {Blank} \/ list[r][k] \in seen[r][k]
    /\ state[r] = "allowed" => Entitled(r)

\* A request that goes on without a user saw that he was not there, or a rejection.
WithoutUser(r) == None \in seen[r][UserOf[r]] \/ stage[r][UserOf[r]] = "rejected"

KnownBy(r) ==
    state[r] # "idle" =>
        /\ \A k \in Keys : database[k] \in seen[r][k]
        /\ state[r] = "unauthenticated" => WithoutUser(r)
        /\ ~tainted[r] => SeenOnly(r)

Known == \A r \in Requests : KnownBy(r)

\* Where a blank name and a record that is not found come from.
BlankOf(k) == {} \in past[k] \/ Told(k)

Causes ==
    /\ \A k \in Keys : /\ database[k] \in past[k]
                       /\ cache[k] = {Blank} => {} \in past[k]
    /\ \A r \in Requests, k \in Keys :
          /\ stage[r][k] = "set" => list[r][k] \in past[k]
          /\ stage[r][k] = "get" /\ cache[k] = None => Told(k)
          /\ stage[r][k] = "done" /\ list[r][k] = {Blank} => BlankOf(k)
          /\ stage[r][k] = "lost" => None \in past[k]
    /\ \A r \in Requests : stage[r][Blank] # "idle" => BlankOf(UserOf[r])

Inv == Types /\ ListsFit /\ Progress /\ Fresh /\ Known /\ Causes
-----------------------------------------------------------------------------
LEMMA ListFacts ==
    /\ \A k \in Keys : ListsOf(k) \subseteq Lists
    /\ ListsOf(Blank) = {}
    /\ \A l \in Lists : Blank \notin l /\ l # None
    /\ {Blank} # None
    /\ \A k : Stored(k) = IF k = {} THEN {Blank} ELSE k
    /\ \A l \in Lists : Stored(l) \in (Lists \ {{}}) \cup {{Blank}}
<1>1. /\ \A k \in Keys : ListsOf(k) \subseteq Lists
      /\ ListsOf(Blank) = {}
      /\ \A l \in Lists : Blank \notin l /\ l # None
      /\ {Blank} # None
  BY KeysAreDistinct, ListsAreTyped DEF Keys, Lists, ListsOf
<1>2. QED BY <1>1 DEF Stored

LEMMA InitInv == Init => Inv
<1> SUFFICES ASSUME Init PROVE Inv
  OBVIOUS
<1>1. database \in [Keys -> Lists \cup {None}] /\ \A k \in Keys : database[k] \in ListsOf(k) \cup {None}
  BY ListsAreTyped DEF Init
<1>2. Types
  BY <1>1 DEF Init, Types, TypeOK
<1>3. ListsFit /\ Progress
  BY <1>1, TokensAreValid DEF Init, ListsFit, Progress, Advanced, Keys
<1>4. Fresh
  BY DEF Init, Fresh, FillIsFresh, EntryIsFresh
<1>5. Known /\ Causes
  BY <1>1, ListFacts DEF Init, Known, KnownBy, Causes, Keys
<1>6. QED BY <1>2, <1>3, <1>4, <1>5 DEF Inv

\* A commit, whatever becomes of it, changes one list to another of its kind.
Changes(w, new, how) ==
    /\ written[w] = "idle" /\ how \in {"committed", "untold"}
    /\ written' = [written EXCEPT ![w] = how]
    /\ plan[w].key \in Users \cup Groups /\ new \in ListsOf(plan[w].key) \cup {None}
    /\ Becomes(w, new)

LEMMA CommitChanges ==
  ASSUME Types, ListsFit, NEW w \in Writers, Commit(w) \/ CommitFails(w)
  PROVE  \E new, how : Changes(w, new, how)
<1> DEFINE k == plan[w].key
<1>1. /\ k \in Users \cup Groups /\ k \in Keys /\ plan[w].value \in ListsOf(k) \cup {None}
      /\ database[k] \in ListsOf(k) \cup {None}
  BY ListsAreTyped DEF Keys, Types, ListsFit
<1> HIDE DEF k
<1>2. CASE Commit(w)
  <2>1. PICK new : new = IF database[k] = None THEN None ELSE plan[w].value
    OBVIOUS
  <2>2. Changes(w, new, "committed")
    BY <1>1, <1>2, <2>1 DEF Commit, Changes, k
  <2>3. QED BY <2>2
<1>3. CASE CommitFails(w)
  <2>1. PICK new \in Partly(w) : Becomes(w, new)
    BY <1>3 DEF CommitFails
  <2>2. written[w] = "idle" /\ database[k] # None /\ written' = [written EXCEPT ![w] = "untold"]
    BY <1>3 DEF CommitFails, k
  <2>3. new \in ListsOf(k) \cup {None}
    <3>1. CASE plan[w].value = None
      BY <2>1, <3>1 DEF Partly
    <3>2. CASE plan[w].value # None
      <4>1. PICK kept \in {{}, database[k]}, added \in SUBSET plan[w].value : new = kept \cup added
        BY <2>1, <3>2 DEF Partly, k
      <4>2. plan[w].value \in ListsOf(k) /\ kept \in {{}, database[k]} /\ database[k] \in ListsOf(k)
        BY <1>1, <2>2, <3>2
      <4>3. \A x, y, z : x \in ListsOf(k) /\ y \in ListsOf(k) /\ z \subseteq y => {} \cup z \in ListsOf(k) /\ x \cup z \in ListsOf(k)
        BY <1>1 DEF ListsOf
      <4>4. QED BY <4>1, <4>2, <4>3
    <3>3. QED BY <3>1, <3>2
  <2>4. Changes(w, new, "untold")
    BY <1>1, <2>1, <2>2, <2>3 DEF Changes, k
  <2>5. QED BY <2>4
<1>4. QED BY <1>2, <1>3

\* A lookup that finds nothing, or rejects.
Fails(r, k, how) ==
    /\ how \in {"lost", "rejected"} /\ (how = "lost" => database[k] = None)
    /\ stage[r][k] \in {"has", "get", "find", "set"}
    /\ stage' = [stage EXCEPT ![r][k] = how]
    /\ state' = IF k \in Users THEN [state EXCEPT ![r] = "unauthenticated"] ELSE state
    /\ UNCHANGED <<plan, written, database, overwritten, past, list, seen, raced, tainted>>
    /\ cache' = cache \/ (stage[r][k] = "set" /\ cache' = [cache EXCEPT ![k] = Stored(list[r][k])])

LEMMA LookupFails ==
  ASSUME NEW r \in Requests, NEW k \in Keys, NotFound(r, k) \/ Rejects(r, k)
  PROVE  \E how : Fails(r, k, how)
<1>1. CASE NotFound(r, k)
  <2>1. Fails(r, k, "lost")
    BY <1>1 DEF NotFound, Found, Ends, Caught, Fails, writing
  <2>2. QED BY <2>1
<1>2. CASE Rejects(r, k)
  <2>1. Fails(r, k, "rejected")
    BY <1>2 DEF Rejects, Ends, Caught, Fails, writing
  <2>2. QED BY <2>1
<1>3. QED BY <1>1, <1>2

LEMMA TypesStep == ASSUME Types, ListsFit, [Next]_vars PROVE Types'
<1> USE DEF Types, TypeOK, writing
<1>1. ASSUME NEW w \in Writers, NEW new, NEW how, Changes(w, new, how) PROVE Types'
  <2>1. plan[w].key \in Keys /\ new \in Lists \cup {None}
    BY <1>1, ListFacts DEF Changes, Keys
  <2>2. QED BY <1>1, <2>1 DEF Changes, Becomes
<1>2. ASSUME NEW w \in Writers, Unset(w) PROVE Types'
  <2>1. plan[w].key \in Keys
    BY ListsAreTyped DEF Keys
  <2>2. QED BY <1>2, <2>1 DEF Unset
<1>3. ASSUME NEW r \in Requests, Begin(r) PROVE Types'
  <2>1. UserOf[r] \in Keys
    BY TokensAreValid DEF Keys
  <2>2. seen' \in [Requests -> [Keys -> SUBSET (Lists \cup {None})]]
    BY <1>3 DEF Begin, Unheard
  <2>3. QED BY <1>3, <2>1, <2>2 DEF Begin
<1>4. ASSUME NEW r \in Requests, NEW k \in Keys, Has(r, k) PROVE Types'
  BY <1>4 DEF Has
<1>5. ASSUME NEW r \in Requests, NEW k \in Keys, Get(r, k) PROVE Types'
  BY <1>5 DEF Get, Lists
<1>6. ASSUME NEW r \in Requests, NEW k \in Keys, Find(r, k) PROVE Types'
  BY <1>6 DEF Find, Found, Lists
<1>7. ASSUME NEW r \in Requests, NEW k \in Keys, NEW how, Fails(r, k, how) PROVE Types'
  <2>1. stage[r][k] = "set" => Stored(list[r][k]) \in (Lists \ {{}}) \cup {{Blank}}
    BY ListFacts DEF ListsFit
  <2>2. cache' \in [Keys -> (Lists \ {{}}) \cup {{Blank}, None}]
    BY <1>7, <2>1 DEF Fails
  <2>3. QED BY <1>7, <2>2 DEF Fails
<1>8. ASSUME NEW r \in Requests, NEW k \in Keys, Set(r, k) PROVE Types'
  <2>1. Stored(list[r][k]) \in (Lists \ {{}}) \cup {{Blank}}
    BY <1>8, ListFacts DEF Set, ListsFit
  <2>2. QED BY <1>8, <2>1 DEF Set
<1>9. ASSUME NEW r \in Requests, LookUp(r) PROVE Types'
  BY <1>9 DEF LookUp
<1>10. ASSUME NEW r \in Requests, Authenticate(r) PROVE Types'
  BY <1>10 DEF Authenticate
<1>11. ASSUME NEW r \in Requests, Resolve(r) PROVE Types'
  BY <1>11 DEF Resolve
<1>12. CASE UNCHANGED vars
  BY <1>12 DEF vars
<1>13. ASSUME NEW w \in Writers, Commit(w) \/ CommitFails(w) PROVE Types'
  BY <1>1, <1>13, CommitChanges
<1>14. ASSUME NEW w \in Writers, UnsetFails(w) PROVE Types'
  BY <1>14 DEF UnsetFails
<1>15. ASSUME NEW r \in Requests, NEW k \in Keys, NotFound(r, k) \/ Rejects(r, k) PROVE Types'
  BY <1>7, <1>15, LookupFails
<1>16. QED
  BY <1>2, <1>3, <1>4, <1>5, <1>6, <1>8, <1>9, <1>10, <1>11, <1>12, <1>13, <1>14, <1>15 DEF Next, Step

LEMMA ListsFitStep == ASSUME Inv, [Next]_vars PROVE ListsFit'
<1> USE DEF Inv, Types, TypeOK, writing, ListsFit
<1>1. ASSUME NEW w \in Writers, NEW new, NEW how, Changes(w, new, how) PROVE ListsFit'
  <2>1. /\ database' = [database EXCEPT ![plan[w].key] = new]
        /\ plan[w].key \in Keys /\ new \in ListsOf(plan[w].key) \cup {None}
    BY <1>1 DEF Changes, Becomes, Keys
  <2>2. \A k \in Keys : database'[k] \in ListsOf(k) \cup {None}
    BY <2>1
  <2>3. \A v \in Writers : overwritten'[v] \in ListsOf(plan'[v].key) \cup {None}
    BY <1>1, <2>1 DEF Changes, Becomes
  <2>4. \A r \in Requests, k \in Keys : seen'[r][k] \subseteq ListsOf(k) \cup {None}
    BY <1>1, <2>1 DEF Changes, Becomes
  <2>5. QED BY <1>1, <2>2, <2>3, <2>4 DEF Changes, Becomes
<1>2. ASSUME NEW w \in Writers, Unset(w) PROVE ListsFit'
  BY <1>2 DEF Unset
<1>3. ASSUME NEW r \in Requests, Begin(r) PROVE ListsFit'
  <2>1. \A q \in Requests, k \in Keys : seen'[q][k] \subseteq ListsOf(k) \cup {None}
    BY <1>3 DEF Begin, Unheard
  <2>2. \A q \in Requests, k \in Keys : stage'[q][k] \in {stage[q][k], "has"}
    BY <1>3 DEF Begin
  <2>3. QED BY <1>3, <2>1, <2>2 DEF Begin
<1>4. ASSUME NEW r \in Requests, NEW k \in Keys, Has(r, k) PROVE ListsFit'
  BY <1>4 DEF Has
<1>5. ASSUME NEW r \in Requests, NEW k \in Keys, Get(r, k) PROVE ListsFit'
  <2>1. list'[r][k] = {Blank} \/ list'[r][k] \in ListsOf(k)
    <3>1. list'[r][k] = IF cache[k] = None THEN {Blank} ELSE cache[k]
      BY <1>5 DEF Get
    <3>2. CASE cache[k] = None
      BY <3>1, <3>2
    <3>3. CASE cache[k] # None
      <4>1. PICK l \in ListsOf(k) : cache[k] = Stored(l)
        BY <3>3
      <4>2. QED BY <3>1, <3>3, <4>1 DEF Stored
    <3>4. QED BY <3>2, <3>3
  <2>2. QED BY <1>5, <2>1 DEF Get
<1>6. ASSUME NEW r \in Requests, NEW k \in Keys, Find(r, k) PROVE ListsFit'
  BY <1>6 DEF Find, Found
<1>7. ASSUME NEW r \in Requests, NEW k \in Keys, NEW how, Fails(r, k, how) PROVE ListsFit'
  <2>1. \A c \in Keys : cache'[c] = cache[c] \/ \E l \in ListsOf(c) : cache'[c] = Stored(l)
    BY <1>7 DEF Fails
  <2>2. \A q \in Requests, c \in Keys : stage'[q][c] = stage[q][c] \/ stage'[q][c] \in {"lost", "rejected"}
    BY <1>7 DEF Fails
  <2>3. UNCHANGED <<plan, database, overwritten, list, seen>>
    BY <1>7 DEF Fails
  <2>4. \A c \in Keys : cache'[c] = None \/ \E l \in ListsOf(c) : cache'[c] = Stored(l)
    BY ONLY <2>1, Inv DEF Inv, ListsFit
  <2>5. ASSUME NEW q \in Requests, NEW c \in Keys
        PROVE  /\ stage'[q][c] = "set" => list'[q][c] \in ListsOf(c)
               /\ stage'[q][c] = "done" => list'[q][c] = {Blank} \/ list'[q][c] \in ListsOf(c)
               /\ seen'[q][c] \subseteq ListsOf(c) \cup {None}
    <3>1. stage'[q][c] = stage[q][c] \/ stage'[q][c] \in {"lost", "rejected"}
      BY <2>2
    <3>2. list'[q][c] = list[q][c] /\ seen'[q][c] = seen[q][c]
      BY ONLY <2>3
    <3>3. QED BY ONLY <3>1, <3>2, Inv, <2>5 DEF Inv, ListsFit
  <2>6. /\ \A c \in Keys : database'[c] \in ListsOf(c) \cup {None}
        /\ \A w \in Writers : overwritten'[w] \in ListsOf(plan'[w].key) \cup {None}
    BY ONLY <2>3, Inv DEF Inv, ListsFit
  <2>7. QED BY ONLY <2>4, <2>5, <2>6 DEF ListsFit
<1>8. ASSUME NEW r \in Requests, NEW k \in Keys, Set(r, k) PROVE ListsFit'
  BY <1>8 DEF Set
<1>9. ASSUME NEW r \in Requests, LookUp(r) PROVE ListsFit'
  BY <1>9 DEF LookUp
<1>10. ASSUME NEW r \in Requests, Authenticate(r) PROVE ListsFit'
  BY <1>10 DEF Authenticate
<1>11. ASSUME NEW r \in Requests, Resolve(r) PROVE ListsFit'
  BY <1>11 DEF Resolve
<1>12. CASE UNCHANGED vars
  BY <1>12 DEF vars
<1>13. ASSUME NEW w \in Writers, Commit(w) \/ CommitFails(w) PROVE ListsFit'
  BY <1>1, <1>13, CommitChanges
<1>14. ASSUME NEW w \in Writers, UnsetFails(w) PROVE ListsFit'
  BY <1>14 DEF UnsetFails
<1>15. ASSUME NEW r \in Requests, NEW k \in Keys, NotFound(r, k) \/ Rejects(r, k) PROVE ListsFit'
  BY <1>7, <1>15, LookupFails
<1>16. QED
  BY <1>2, <1>3, <1>4, <1>5, <1>6, <1>8, <1>9, <1>10, <1>11, <1>12, <1>13, <1>14, <1>15 DEF Next, Step

LEMMA ProgressStep == ASSUME Inv, [Next]_vars PROVE Progress'
<1> USE DEF Inv, Types, TypeOK, writing, Progress, Advanced, GroupsOf
<1>1. ASSUME NEW w \in Writers, NEW new, NEW how, Changes(w, new, how) PROVE Progress'
  BY <1>1 DEF Changes, Becomes
<1>2. ASSUME NEW w \in Writers, Unset(w) PROVE Progress'
  BY <1>2 DEF Unset
<1>3. ASSUME NEW r \in Requests, Begin(r) PROVE Progress'
  BY <1>3, TokensAreValid, KeysAreDistinct DEF Begin, Keys
<1>4. ASSUME NEW r \in Requests, NEW k \in Keys, Has(r, k) PROVE Progress'
  <2>1. cache[Blank] = None
    BY ListFacts DEF ListsFit, Keys
  <2>2. Blank \in Keys
    BY DEF Keys
  <2>3. QED BY <1>4, <2>1, <2>2 DEF Has
<1>5. ASSUME NEW r \in Requests, NEW k \in Keys, Get(r, k) PROVE Progress'
  <2>1. Blank # k /\ (state[r] \notin {"groups", "authenticated"} \/ k # UserOf[r])
    BY <1>5 DEF Get
  <2>2. QED BY <1>5, <2>1 DEF Get
<1>6. ASSUME NEW r \in Requests, NEW k \in Keys, Find(r, k) PROVE Progress'
  <2>1. k # Blank
    BY <1>6, ListFacts DEF Find, Found, ListsFit, Keys
  <2>2. QED BY <1>6, <2>1 DEF Find
<1>7. ASSUME NEW r \in Requests, NEW k \in Keys, NEW how, Fails(r, k, how) PROVE Progress'
  BY <1>7 DEF Fails
<1>8. ASSUME NEW r \in Requests, NEW k \in Keys, Set(r, k) PROVE Progress'
  BY <1>8 DEF Set
<1>9. ASSUME NEW r \in Requests, LookUp(r) PROVE Progress'
  <2>1. GroupsOf(r) \subseteq Groups \cup {Blank}
    <3>1. UserOf[r] \in Users /\ UserOf[r] \in Keys /\ stage[r][UserOf[r]] = "done"
      <4>1. UserOf[r] \in Users /\ UserOf[r] \in Keys
        BY ONLY r \in Requests, TokensAreValid DEF Keys
      <4>2. stage[r][UserOf[r]] = "done"
        BY <1>9 DEF LookUp
      <4>3. QED BY <4>1, <4>2
    <3>2. list[r][UserOf[r]] = {Blank} \/ list[r][UserOf[r]] \in ListsOf(UserOf[r])
      BY <3>1 DEF ListsFit
    <3>3. ListsOf(UserOf[r]) = SUBSET Groups
      BY <3>1 DEF ListsOf
    <3>4. QED BY <3>2, <3>3
  <2>2. UserOf[r] \in Keys /\ Groups \subseteq Keys /\ Blank \in Keys
    BY TokensAreValid DEF Keys
  <2>3. \A u \in Users : u \notin GroupsOf(r)
    BY <2>1, KeysAreDistinct
  <2>4. /\ \A q \in Requests \ {r} : stage'[q] = stage[q] /\ state'[q] = state[q]
        /\ \A k \in Keys : stage'[r][k] = IF k \in GroupsOf(r) THEN "has" ELSE stage[r][k]
        /\ state'[r] = "groups" /\ list' = list
        /\ state[r] = "user" /\ stage[r][UserOf[r]] = "done"
    BY <1>9 DEF LookUp
  <2>5. ASSUME NEW q \in Requests, q # r PROVE \A k \in Keys : stage'[q][k] = stage[q][k] /\ state'[q] = state[q]
    BY <2>4, <2>5
  <2>6. /\ \A u \in Users : stage'[r][u] = stage[r][u]
        /\ stage'[r][Blank] \in {stage[r][Blank], "has"}
    BY <2>2, <2>3, <2>4 DEF Keys
  <2>7. Advanced(r)'
    BY <2>4, <2>6, TokensAreValid DEF Keys
  <2>8. ASSUME NEW q \in Requests, q # r PROVE Advanced(q)'
    BY <2>4, <2>5, <2>8
  <2>9. QED BY <2>7, <2>8
<1>10. ASSUME NEW r \in Requests, Authenticate(r) PROVE Progress'
  BY <1>10 DEF Authenticate
<1>11. ASSUME NEW r \in Requests, Resolve(r) PROVE Progress'
  BY <1>11 DEF Resolve
<1>12. CASE UNCHANGED vars
  BY <1>12 DEF vars
<1>13. ASSUME NEW w \in Writers, Commit(w) \/ CommitFails(w) PROVE Progress'
  BY <1>1, <1>13, CommitChanges
<1>14. ASSUME NEW w \in Writers, UnsetFails(w) PROVE Progress'
  BY <1>14 DEF UnsetFails
<1>15. ASSUME NEW r \in Requests, NEW k \in Keys, NotFound(r, k) \/ Rejects(r, k) PROVE Progress'
  BY <1>7, <1>15, LookupFails
<1>16. QED
  BY <1>2, <1>3, <1>4, <1>5, <1>6, <1>8, <1>9, <1>10, <1>11, <1>12, <1>13, <1>14, <1>15 DEF Next, Step

\* A list as it was read is as fresh in the cache as it is to its reader.
LEMMA StoreIsFresh ==
  ASSUME Types, Fresh, NEW r \in Requests, NEW k \in Keys, stage[r][k] = "set",
         cache' = [cache EXCEPT ![k] = Stored(list[r][k])],
         UNCHANGED <<plan, written, database, overwritten, raced>>
  PROVE  EntryIsFresh'
<1>1. cache'[k] = Stored(list[r][k]) /\ \A c \in Keys \ {k} : cache'[c] = cache[c]
  BY DEF Types, TypeOK
<1>2. \/ list[r][k] = database[k] \/ k \in raced
      \/ \E w \in Writers : Pending(w, k) /\ overwritten[w] = list[r][k]
  BY DEF Fresh, FillIsFresh
<1>3. \/ cache'[k] = Stored(database[k]) \/ k \in raced
      \/ \E w \in Writers : Pending(w, k) /\ cache'[k] = Stored(overwritten[w])
  BY <1>1, <1>2
<1>4. \A w \in Writers, c \in Keys : Pending(w, c)' = Pending(w, c)
  BY DEF Pending
<1>5. QED BY <1>1, <1>3, <1>4 DEF Fresh, EntryIsFresh

LEMMA FreshStep == ASSUME Inv, [Next]_vars PROVE Fresh'
<1> USE DEF Inv, Types, TypeOK, writing, Fresh, Pending
<1>1. ASSUME NEW w \in Writers, NEW new, NEW how, Changes(w, new, how) PROVE Fresh'
  <2>1. /\ plan[w].key \in Keys /\ written[w] = "idle"
        /\ written' = [written EXCEPT ![w] = how] /\ how \in {"committed", "untold"}
        /\ overwritten' = [overwritten EXCEPT ![w] = database[plan[w].key]]
        /\ UNCHANGED <<plan, cache, stage, list, raced>>
    BY <1>1 DEF Changes, Becomes, Keys
  <2>2. \A k \in Keys : k # plan[w].key => database'[k] = database[k]
    BY <1>1 DEF Changes, Becomes
  <2>3. \A k \in Keys, v \in Writers : Pending(v, k) => Pending(v, k)' /\ overwritten'[v] = overwritten[v]
    BY <2>1
  <2>4. \A k \in Keys : k = plan[w].key => Pending(w, k)' /\ overwritten'[w] = database[k]
    BY <2>1
  <2> HIDE DEF Pending
  <2>5. FillIsFresh'
    <3> SUFFICES ASSUME NEW r \in Requests, NEW k \in Keys, stage'[r][k] = "set"
                 PROVE  \/ list'[r][k] = database'[k] \/ k \in raced'
                        \/ \E v \in Writers : Pending(v, k)' /\ overwritten'[v] = list'[r][k]
      BY DEF FillIsFresh
    <3>1. stage[r][k] = "set" /\ list'[r][k] = list[r][k] /\ raced' = raced
      BY <2>1
    <3>2. CASE list[r][k] = database[k]
      BY <2>2, <2>4, <3>1, <3>2
    <3>3. CASE k \in raced
      BY <3>1, <3>3
    <3>4. CASE \E v \in Writers : Pending(v, k) /\ overwritten[v] = list[r][k]
      BY <2>3, <3>1, <3>4
    <3>5. QED BY <3>1, <3>2, <3>3, <3>4 DEF FillIsFresh
  <2>6. EntryIsFresh'
    <3> SUFFICES ASSUME NEW k \in Keys
                 PROVE  \/ cache'[k] \in {None, Stored(database'[k])} \/ k \in raced'
                        \/ \E v \in Writers : Pending(v, k)' /\ cache'[k] = Stored(overwritten'[v])
      BY DEF EntryIsFresh
    <3>1. cache'[k] = cache[k] /\ raced' = raced
      BY <2>1
    <3>2. CASE cache[k] = Stored(database[k])
      BY <2>2, <2>4, <3>1, <3>2
    <3>3. CASE cache[k] = None \/ k \in raced
      BY <3>1, <3>3
    <3>4. CASE \E v \in Writers : Pending(v, k) /\ cache[k] = Stored(overwritten[v])
      BY <2>3, <3>1, <3>4
    <3>5. QED BY <3>2, <3>3, <3>4 DEF EntryIsFresh
  <2>7. QED BY <2>5, <2>6
<1>2. ASSUME NEW w \in Writers, Unset(w) PROVE Fresh'
  <2> DEFINE k0 == plan[w].key
             late == \E r \in Requests : Holds(r, k0)
  <2>1. /\ k0 \in Keys
        /\ \A v \in Writers : plan[v].key # k0 => written'[v] = written[v]
        /\ cache' = [c \in Keys |-> IF c = k0 THEN None ELSE cache[c]]
        /\ raced' = IF late THEN raced \cup {k0} ELSE raced \ {k0}
        /\ UNCHANGED <<plan, database, overwritten, stage, list>>
    BY <1>2, ListsAreTyped DEF Unset, Removed, Keys
  <2>2. \A k \in Keys \ {k0}, v \in Writers : Pending(v, k) => Pending(v, k)'
    BY <2>1
  <2>3. \A k \in Keys \ {k0} : k \in raced => k \in raced'
    BY <2>1
  <2>4. late => k0 \in raced'
    BY <2>1
  <2>5. ~late => \A r \in Requests : stage[r][k0] = "set" => list[r][k0] = database[k0]
    BY DEF Holds
  <2> HIDE DEF late
  <2>6. FillIsFresh'
    <3> SUFFICES ASSUME NEW r \in Requests, NEW k \in Keys, stage[r][k] = "set"
                 PROVE  \/ list[r][k] = database[k] \/ k \in raced'
                        \/ \E v \in Writers : Pending(v, k)' /\ overwritten[v] = list[r][k]
      BY <2>1 DEF FillIsFresh
    <3>1. CASE k = k0
      BY <2>4, <2>5, <3>1
    <3>2. CASE k # k0
      BY <2>2, <2>3, <3>2 DEF FillIsFresh
    <3>3. QED BY <3>1, <3>2
  <2>7. EntryIsFresh'
    BY <2>1, <2>2, <2>3, ListFacts DEF EntryIsFresh
  <2>8. QED BY <2>6, <2>7
<1>3. ASSUME NEW r \in Requests, Begin(r) PROVE Fresh'
  BY <1>3 DEF Begin, FillIsFresh, EntryIsFresh
<1>4. ASSUME NEW r \in Requests, NEW k \in Keys, Has(r, k) PROVE Fresh'
  BY <1>4 DEF Has, FillIsFresh, EntryIsFresh
<1>5. ASSUME NEW r \in Requests, NEW k \in Keys, Get(r, k) PROVE Fresh'
  BY <1>5 DEF Get, FillIsFresh, EntryIsFresh
<1>6. ASSUME NEW r \in Requests, NEW k \in Keys, Find(r, k) PROVE Fresh'
  <2>1. /\ list' = [list EXCEPT ![r][k] = database[k]]
        /\ stage' = [stage EXCEPT ![r][k] = "set"]
        /\ UNCHANGED <<plan, written, database, overwritten, cache, raced>>
    BY <1>6 DEF Find
  <2>2. FillIsFresh'
    <3>1. \A q \in Requests, c \in Keys :
             \/ q = r /\ c = k /\ list'[q][c] = database'[c]
             \/ list'[q][c] = list[q][c] /\ stage'[q][c] = stage[q][c]
      BY <2>1
    <3>2. QED BY <2>1, <3>1 DEF FillIsFresh
  <2>3. EntryIsFresh'
    BY <2>1 DEF EntryIsFresh
  <2>4. QED BY <2>2, <2>3
<1>7. ASSUME NEW r \in Requests, NEW k \in Keys, NEW how, Fails(r, k, how) PROVE Fresh'
  <2>1. UNCHANGED <<plan, written, database, overwritten, list, raced>>
    BY <1>7 DEF Fails
  <2>2. FillIsFresh'
    <3>1. \A q \in Requests, c \in Keys : stage'[q][c] = "set" => stage[q][c] = "set"
      BY <1>7 DEF Fails
    <3>2. QED BY <2>1, <3>1 DEF FillIsFresh
  <2>3. EntryIsFresh'
    <3>1. CASE cache' = cache
      BY <2>1, <3>1 DEF EntryIsFresh
    <3>2. CASE stage[r][k] = "set" /\ cache' = [cache EXCEPT ![k] = Stored(list[r][k])]
      BY <2>1, <3>2, StoreIsFresh
    <3>3. QED BY <1>7, <3>1, <3>2 DEF Fails
  <2>4. QED BY <2>2, <2>3
<1>8. ASSUME NEW r \in Requests, NEW k \in Keys, Set(r, k) PROVE Fresh'
  <2>1. /\ cache' = [cache EXCEPT ![k] = Stored(list[r][k])]
        /\ stage' = [stage EXCEPT ![r][k] = "done"] /\ stage[r][k] = "set"
        /\ UNCHANGED <<plan, written, database, overwritten, list, raced>>
    BY <1>8 DEF Set
  <2>2. FillIsFresh'
    BY <2>1 DEF FillIsFresh
  <2>3. EntryIsFresh'
    BY <2>1, StoreIsFresh
  <2>4. QED BY <2>2, <2>3
<1>9. ASSUME NEW r \in Requests, LookUp(r) PROVE Fresh'
  BY <1>9 DEF LookUp, FillIsFresh, EntryIsFresh
<1>10. ASSUME NEW r \in Requests, Authenticate(r) PROVE Fresh'
  BY <1>10 DEF Authenticate, FillIsFresh, EntryIsFresh
<1>11. ASSUME NEW r \in Requests, Resolve(r) PROVE Fresh'
  BY <1>11 DEF Resolve, FillIsFresh, EntryIsFresh
<1>12. CASE UNCHANGED vars
  BY <1>12 DEF vars, FillIsFresh, EntryIsFresh
<1>13. ASSUME NEW w \in Writers, Commit(w) \/ CommitFails(w) PROVE Fresh'
  BY <1>1, <1>13, CommitChanges
<1>14. ASSUME NEW w \in Writers, UnsetFails(w) PROVE Fresh'
  <2>1. /\ written[w] = "committed" /\ written' = [written EXCEPT ![w] = "untold"]
        /\ UNCHANGED <<plan, database, overwritten, cache, stage, list, raced>>
    BY <1>14 DEF UnsetFails
  <2>2. \A v \in Writers, k \in Keys : Pending(v, k) => Pending(v, k)'
    BY <2>1
  <2> HIDE DEF Types, TypeOK, Pending
  <2>3. FillIsFresh'
    BY <2>1, <2>2 DEF FillIsFresh
  <2>4. EntryIsFresh'
    BY <2>1, <2>2 DEF EntryIsFresh
  <2>5. QED BY <2>3, <2>4
<1>15. ASSUME NEW r \in Requests, NEW k \in Keys, NotFound(r, k) \/ Rejects(r, k) PROVE Fresh'
  BY <1>7, <1>15, LookupFails
<1>16. QED
  BY <1>2, <1>3, <1>4, <1>5, <1>6, <1>8, <1>9, <1>10, <1>11, <1>12, <1>13, <1>14, <1>15 DEF Next, Step

\* What a request has seen it has seen, and a rejection is final.
LEMMA SeenStays ==
  ASSUME Inv, [Next]_vars, NEW q \in Requests, state[q] # "idle"
  PROVE  /\ \A k \in Keys : seen[q][k] \subseteq seen'[q][k]
         /\ stage[q][UserOf[q]] = "rejected" => stage'[q][UserOf[q]] = "rejected"
<1> DEFINE Stays == /\ \A k \in Keys : seen[q][k] \subseteq seen'[q][k]
                    /\ stage[q][UserOf[q]] = "rejected" => stage'[q][UserOf[q]] = "rejected"
<1>0. UserOf[q] \in Keys
  BY TokensAreValid DEF Keys
<1> USE <1>0 DEF Inv, Types, TypeOK, writing
<1>1. ASSUME NEW w \in Writers, NEW new, NEW how, Changes(w, new, how) PROVE Stays
  BY <1>1 DEF Changes, Becomes, Keys
<1>2. ASSUME NEW w \in Writers, Unset(w) \/ UnsetFails(w) PROVE Stays
  BY <1>2 DEF Unset, UnsetFails
<1>3. ASSUME NEW r \in Requests, Begin(r) PROVE Stays
  BY <1>3 DEF Begin
<1>4. ASSUME NEW r \in Requests, NEW k \in Keys, Has(r, k) \/ Get(r, k) \/ Find(r, k) \/ Set(r, k) PROVE Stays
  <2>1. /\ seen' = seen /\ stage[r][k] \in {"has", "get", "find", "set"}
        /\ \E how : stage' = [stage EXCEPT ![r][k] = how]
    BY <1>4 DEF Has, Get, Find, Set
  <2>2. QED BY <2>1
<1>5. ASSUME NEW r \in Requests, NEW k \in Keys, NEW how, Fails(r, k, how) PROVE Stays
  BY <1>5 DEF Fails
<1>6. ASSUME NEW r \in Requests, LookUp(r) PROVE Stays
  <2>1. stage[r][UserOf[r]] = "done" /\ UserOf[r] \in Users /\ UserOf[r] \in Keys
    BY <1>6, TokensAreValid DEF LookUp, Keys
  <2>2. UserOf[r] \notin GroupsOf(r)
    <3>1. list[r][UserOf[r]] = {Blank} \/ list[r][UserOf[r]] \in ListsOf(UserOf[r])
      BY <2>1 DEF ListsFit
    <3>2. ListsOf(UserOf[r]) = SUBSET Groups /\ UserOf[r] # Blank /\ UserOf[r] \notin Groups
      BY <2>1, KeysAreDistinct DEF ListsOf
    <3>3. QED BY <3>1, <3>2 DEF GroupsOf
  <2>3. QED BY <1>6, <2>1, <2>2 DEF LookUp
<1>7. ASSUME NEW r \in Requests, Authenticate(r) \/ Resolve(r) PROVE Stays
  BY <1>7 DEF Authenticate, Resolve
<1>8. CASE UNCHANGED vars
  BY <1>8 DEF vars
<1>9. ASSUME NEW w \in Writers, Commit(w) \/ CommitFails(w) PROVE Stays
  BY <1>1, <1>9, CommitChanges
<1>10. ASSUME NEW r \in Requests, NEW k \in Keys, NotFound(r, k) \/ Rejects(r, k) PROVE Stays
  BY <1>5, <1>10, LookupFails
<1>11. QED
  BY <1>2, <1>3, <1>4, <1>6, <1>7, <1>8, <1>9, <1>10 DEF Next, Step

\* So what a user was entitled to he stays entitled to.
LEMMA KnowledgeStays ==
  ASSUME Inv, [Next]_vars, NEW r \in Requests, state[r] # "idle"
  PROVE  (WithoutUser(r) => WithoutUser(r)') /\ (Entitled(r) => Entitled(r)')
<1>1. UserOf[r] \in Users /\ UserOf[r] \in Keys
  BY TokensAreValid DEF Keys
<1>2. /\ \A k \in Keys : seen[r][k] \subseteq seen'[r][k]
      /\ stage[r][UserOf[r]] = "rejected" => stage'[r][UserOf[r]] = "rejected"
  BY SeenStays
<1>3. ASSUME WithoutUser(r) PROVE WithoutUser(r)'
  BY <1>1, <1>2, <1>3 DEF WithoutUser
<1>4. ASSUME Needed[r] \subseteq {LoggedOut}, WithoutUser(r) PROVE Entitled(r)'
  BY <1>3, <1>4 DEF Entitled, WithoutUser
<1>5. ASSUME NEW gs \in seen[r][UserOf[r]] \ {None},
             LET held == UNION {UNION (seen[r][g] \ {None}) : g \in gs}
             IN  Super \in held \/ Needed[r] \subseteq held
      PROVE  Entitled(r)'
  <2>1. gs \subseteq Groups /\ Groups \subseteq Keys
    BY <1>1 DEF Inv, ListsFit, ListsOf, Keys
  <2>2. UNION {UNION (seen[r][g] \ {None}) : g \in gs} \subseteq UNION {UNION (seen'[r][g] \ {None}) : g \in gs}
    BY <1>2, <2>1
  <2>3. gs \in seen'[r][UserOf[r]] \ {None}
    BY <1>1, <1>2
  <2>4. QED BY <1>5, <2>2, <2>3 DEF Entitled
<1>6. QED BY <1>3, <1>4, <1>5 DEF Entitled, WithoutUser

\* What the directive allows a request that knows only lists that were seen.
LEMMA ResolveEntitled ==
  ASSUME NEW r \in Requests, Inv, Resolve(r), state'[r] = "allowed", ~tainted[r]
  PROVE  Entitled(r)
<1> DEFINE u == UserOf[r]
<1>1. u \in Users /\ u \in Keys /\ ListsOf(u) = SUBSET Groups /\ Blank \in Keys
  BY TokensAreValid DEF Keys, ListsOf
<1>2. /\ state[r] \in {"authenticated", "unauthenticated"}
      /\ Super \in RolesOf(r) \/ Needed[r] \subseteq RolesOf(r)
  BY DEF Resolve, Inv, Types, TypeOK
<1>3. SeenOnly(r)
  BY <1>2 DEF Inv, Known, KnownBy
<1>4. CASE state[r] = "unauthenticated"
  <2>1. RolesOf(r) = {LoggedOut} /\ WithoutUser(r)
    BY <1>4 DEF RolesOf, Inv, Known, KnownBy
  <2>2. QED BY <1>2, <2>1, TokensAreValid DEF Entitled, WithoutUser
<1>5. CASE state[r] = "authenticated"
  <2>1. stage[r][u] = "done" /\ \A g \in GroupsOf(r) : stage[r][g] = "done"
    BY <1>5 DEF Inv, Progress, Advanced
  <2>2. GroupsOf(r) # {Blank}
    BY <2>1 DEF Inv, Progress, Advanced
  <2>3. GroupsOf(r) \in seen[r][u] /\ GroupsOf(r) \subseteq Groups
    BY <1>1, <1>3, <2>1, <2>2 DEF GroupsOf, SeenOnly, Inv, ListsFit
  <2>4. GroupsOf(r) # None
    BY <2>3, ListFacts DEF Lists
  <2> DEFINE held == UNION {UNION (seen[r][g] \ {None}) : g \in GroupsOf(r)}
  <2>5. ASSUME NEW x \in RolesOf(r), x # Blank PROVE x \in held
    <3>1. PICK g \in GroupsOf(r) : x \in list[r][g]
      BY <1>5, <2>5 DEF RolesOf
    <3>2. g \in Keys /\ stage[r][g] = "done"
      BY <2>1, <2>3 DEF Keys
    <3>3. list[r][g] \in seen[r][g] /\ list[r][g] \in ListsOf(g)
      BY <1>3, <2>5, <3>1, <3>2 DEF SeenOnly, Inv, ListsFit
    <3>4. list[r][g] # None
      BY <3>2, <3>3, ListFacts
    <3>5. QED BY <3>1, <3>3, <3>4
  <2>6. Super \in held \/ Needed[r] \subseteq held
    BY <1>2, <2>5, TokensAreValid
  <2>7. QED BY <2>3, <2>4, <2>6 DEF Entitled
<1>6. QED BY <1>2, <1>4, <1>5

\* A list as it was read was seen by whoever saw what its reader read.
LEMMA StoreIsSeen ==
  ASSUME NEW q \in Requests, SeenOnly(q), NEW r \in Requests, NEW k \in Keys, stage[r][k] = "set",
         cache'[k] = Stored(list[r][k]), \A c \in Keys \ {k} : cache'[c] = cache[c], seen' = seen
  PROVE  EntriesSeen(q)'
<1>1. list[r][k] \in seen[q][k]
  BY DEF SeenOnly
<1>2. QED BY <1>1 DEF SeenOnly, EntriesSeen

LEMMA KnownStep == ASSUME Inv, [Next]_vars PROVE Known'
<1>0. ASSUME NEW q \in Requests, state[q] # "idle"
      PROVE  (WithoutUser(q) => WithoutUser(q)') /\ (Entitled(q) => Entitled(q)')
  BY <1>0, KnowledgeStays
<1> USE DEF Inv, Types, TypeOK, writing
<1>1. ASSUME NEW w \in Writers, NEW new, NEW how, Changes(w, new, how) PROVE Known'
  <2> SUFFICES ASSUME NEW q \in Requests PROVE KnownBy(q)'
    BY DEF Known
  <2>1. KnownBy(q)
    BY DEF Known
  <2> DEFINE c == plan[w].key
  <2>2. /\ c \in Keys /\ database' = [database EXCEPT ![c] = new]
        /\ seen' = [r \in Requests |-> [seen[r] EXCEPT ![c] = @ \cup {new}]]
        /\ UNCHANGED <<cache, state, stage, list, tainted>>
    BY <1>1 DEF Changes, Becomes, Keys
  <2> HIDE DEF c
  <2>3. \A k \in Keys : seen[q][k] \subseteq seen'[q][k]
    BY <2>2
  <2>4. state[q] # "idle" => \A k \in Keys : database'[k] \in seen'[q][k]
    BY <2>1, <2>2 DEF KnownBy
  <2>5. state[q] = "unauthenticated" => WithoutUser(q)'
    BY <1>0, <2>1 DEF KnownBy
  <2>6. ASSUME SeenOnly(q) PROVE SeenOnly(q)'
    <3>1. \A k \in Keys : cache[k] = None \/ \E l \in seen'[q][k] : cache[k] = Stored(l)
      BY <2>3, <2>6 DEF SeenOnly, EntriesSeen
    <3>2. /\ \A r \in Requests, k \in Keys : stage[r][k] = "set" => list[r][k] \in seen'[q][k]
          /\ \A k \in Keys : stage[q][k] = "done" => list[q][k] = {Blank} \/ list[q][k] \in seen'[q][k]
      BY <2>3, <2>6 DEF SeenOnly, EntriesSeen
    <3>3. state[q] = "allowed" => Entitled(q)'
      BY <1>0, <2>6 DEF SeenOnly, EntriesSeen
    <3>4. QED BY <2>2, <3>1, <3>2, <3>3 DEF SeenOnly, EntriesSeen
  <2>7. QED BY <2>1, <2>2, <2>4, <2>5, <2>6 DEF KnownBy
<1>2. ASSUME NEW w \in Writers, Unset(w) PROVE Known'
  <2> SUFFICES ASSUME NEW q \in Requests PROVE KnownBy(q)'
    BY DEF Known
  <2>1. KnownBy(q)
    BY DEF Known
  <2>2. /\ cache' = [k \in Keys |-> IF k \in Removed(w) THEN None ELSE cache[k]]
        /\ tainted'[q] = FALSE => tainted[q] = FALSE
        /\ UNCHANGED <<database, state, stage, list, seen>>
    BY <1>2 DEF Unset
  <2>3. state[q] # "idle" => (WithoutUser(q) => WithoutUser(q)') /\ (Entitled(q) => Entitled(q)')
    BY <1>0
  <2>4. SeenOnly(q) => SeenOnly(q)'
    BY <2>2, <2>3 DEF SeenOnly, EntriesSeen
  <2>5. QED BY <2>1, <2>2, <2>3, <2>4 DEF KnownBy
<1>3. ASSUME NEW r \in Requests, Begin(r) PROVE Known'
  <2> SUFFICES ASSUME NEW q \in Requests PROVE KnownBy(q)'
    BY DEF Known
  <2>1. KnownBy(q)
    BY DEF Known
  <2>2. /\ state[r] = "idle" /\ state' = [state EXCEPT ![r] = "user"]
        /\ stage' = [stage EXCEPT ![r][UserOf[r]] = "has"]
        /\ seen' = [seen EXCEPT ![r] = [k \in Keys |-> {database[k]} \cup
              {overwritten[w] : w \in {w \in Writers : written[w] \in {"committed", "untold"} /\ plan[w].key = k}}]]
        /\ tainted' = [tainted EXCEPT ![r] = raced # {}]
        /\ UNCHANGED <<database, cache, list>>
    BY <1>3 DEF Begin, Unheard
  <2>3. CASE q # r
    <3>1. state'[q] = state[q] /\ stage'[q] = stage[q] /\ seen'[q] = seen[q] /\ tainted'[q] = tainted[q]
      BY <2>2, <2>3
    <3>2. \A p \in Requests, k \in Keys : stage'[p][k] = "set" => stage[p][k] = "set"
      BY <2>2
    <3>3. state[q] # "idle" => (WithoutUser(q) => WithoutUser(q)') /\ (Entitled(q) => Entitled(q)')
      BY <1>0
    <3>4. SeenOnly(q) => SeenOnly(q)'
      BY <2>2, <3>1, <3>2, <3>3 DEF SeenOnly, EntriesSeen
    <3>5. QED BY <2>1, <2>2, <3>1, <3>3, <3>4 DEF KnownBy
  <2>4. CASE q = r
    <3>1. \A k \in Keys : database[k] \in seen'[r][k]
      BY <2>2
    <3>2. \A k \in Keys, w \in Writers : Pending(w, k) => overwritten[w] \in seen'[r][k]
      BY <2>2 DEF Pending
    <3>3. tainted'[r] = FALSE => raced = {}
      BY <2>2
    <3>4. ASSUME raced = {} PROVE \A k \in Keys : cache[k] = None \/ \E l \in seen'[r][k] : cache[k] = Stored(l)
      BY <3>1, <3>2, <3>4 DEF Fresh, EntryIsFresh
    <3>5. ASSUME raced = {} PROVE \A p \in Requests, k \in Keys : stage[p][k] = "set" => list[p][k] \in seen'[r][k]
      <4>1. FillIsFresh
        BY DEF Fresh
      <4>2. ASSUME NEW p \in Requests, NEW k \in Keys, stage[p][k] = "set" PROVE list[p][k] \in seen'[r][k]
        <5>1. list[p][k] = database[k] \/ \E w \in Writers : Pending(w, k) /\ overwritten[w] = list[p][k]
          BY <3>5, <4>1, <4>2 DEF FillIsFresh
        <5>2. QED BY <3>1, <3>2, <5>1
      <4>3. QED BY <4>2
    <3>6. /\ \A k \in Keys : stage'[r][k] \in {"idle", "has"}
          /\ \A p \in Requests, k \in Keys : stage'[p][k] = "set" => stage[p][k] = "set"
          /\ state'[r] = "user"
      BY <2>2 DEF Progress, Advanced
    <3>7. ASSUME raced = {} PROVE SeenOnly(r)'
      <4>1. \A k \in Keys : cache'[k] = None \/ \E l \in seen'[r][k] : cache'[k] = Stored(l)
        BY <2>2, <3>4, <3>7
      <4>2. \A p \in Requests, k \in Keys : stage'[p][k] = "set" => list'[p][k] \in seen'[r][k]
        BY <2>2, <3>5, <3>6, <3>7
      <4>3. QED BY <3>6, <4>1, <4>2 DEF SeenOnly, EntriesSeen
    <3>8. tainted'[r] \in BOOLEAN
      BY <2>2
    <3>9. QED BY <2>2, <2>4, <3>1, <3>3, <3>6, <3>7, <3>8 DEF KnownBy
  <2>5. QED BY <2>3, <2>4
<1>4. ASSUME NEW r \in Requests, NEW k \in Keys, Has(r, k) PROVE Known'
  <2> SUFFICES ASSUME NEW q \in Requests PROVE KnownBy(q)'
    BY DEF Known
  <2>1. KnownBy(q)
    BY DEF Known
  <2>2. QED BY <1>0, <1>4, <2>1 DEF Has, KnownBy, SeenOnly, EntriesSeen
<1>5. ASSUME NEW r \in Requests, NEW k \in Keys, Get(r, k) PROVE Known'
  <2> SUFFICES ASSUME NEW q \in Requests PROVE KnownBy(q)'
    BY DEF Known
  <2>1. KnownBy(q)
    BY DEF Known
  <2>2. /\ list' = [list EXCEPT ![r][k] = IF cache[k] = None THEN {Blank} ELSE cache[k]]
        /\ stage' = [stage EXCEPT ![r][k] = "done"]
        /\ UNCHANGED <<database, cache, state, seen, tainted>>
    BY <1>5 DEF Get
  <2>3. state[q] # "idle" => (WithoutUser(q) => WithoutUser(q)') /\ (Entitled(q) => Entitled(q)')
    BY <1>0
  <2>4. ASSUME SeenOnly(q) PROVE list'[r][k] = {Blank} \/ list'[r][k] \in seen[q][k]
    BY <2>2, <2>4 DEF SeenOnly, Stored, EntriesSeen
  <2>5. ASSUME SeenOnly(q) PROVE SeenOnly(q)'
    <3>1. \A p \in Requests, c \in Keys : stage'[p][c] = "set" =>
             stage[p][c] = "set" /\ list'[p][c] = list[p][c]
      BY <2>2
    <3>2. \A c \in Keys : stage'[q][c] = "done" =>
             \/ q = r /\ c = k
             \/ stage[q][c] = "done" /\ list'[q][c] = list[q][c]
      BY <2>2
    <3>3. \A c \in Keys : stage'[q][c] = "done" => list'[q][c] = {Blank} \/ list'[q][c] \in seen[q][c]
      BY <2>4, <2>5, <3>2 DEF SeenOnly, EntriesSeen
    <3>4. \A p \in Requests, c \in Keys : stage'[p][c] = "set" => list'[p][c] \in seen[q][c]
      BY <2>5, <3>1 DEF SeenOnly, EntriesSeen
    <3>5. \A c \in Keys : cache[c] = None \/ \E l \in seen[q][c] : cache[c] = Stored(l)
      BY <2>5 DEF SeenOnly, EntriesSeen
    <3>6. state[q] = "allowed" => Entitled(q)
      BY <2>5 DEF SeenOnly, EntriesSeen
    <3>7. QED BY <2>2, <2>3, <3>3, <3>4, <3>5, <3>6 DEF SeenOnly, EntriesSeen
  <2>6. QED BY <2>1, <2>2, <2>3, <2>5 DEF KnownBy
<1>6. ASSUME NEW r \in Requests, NEW k \in Keys, Find(r, k) PROVE Known'
  <2> SUFFICES ASSUME NEW q \in Requests PROVE KnownBy(q)'
    BY DEF Known
  <2>1. KnownBy(q)
    BY DEF Known
  <2>2. /\ list' = [list EXCEPT ![r][k] = database[k]]
        /\ stage' = [stage EXCEPT ![r][k] = "set"]
        /\ UNCHANGED <<database, cache, state, seen, tainted>>
    BY <1>6 DEF Find
  <2>3. state[q] # "idle" => (WithoutUser(q) => WithoutUser(q)') /\ (Entitled(q) => Entitled(q)')
    BY <1>0
  <2>4. ASSUME SeenOnly(q), database[k] \in seen[q][k] PROVE SeenOnly(q)'
    <3>1. \A p \in Requests, c \in Keys :
             \/ p = r /\ c = k /\ stage'[p][c] = "set" /\ list'[p][c] = database[k]
             \/ stage'[p][c] = stage[p][c] /\ list'[p][c] = list[p][c]
      BY <2>2
    <3>2. \A p \in Requests, c \in Keys : stage'[p][c] = "set" => list'[p][c] \in seen[q][c]
      BY <2>4, <3>1 DEF SeenOnly, EntriesSeen
    <3>3. \A c \in Keys : stage'[q][c] = "done" => list'[q][c] = {Blank} \/ list'[q][c] \in seen[q][c]
      <4>1. \A c \in Keys : stage[q][c] = "done" => list[q][c] = {Blank} \/ list[q][c] \in seen[q][c]
        BY <2>4 DEF SeenOnly, EntriesSeen
      <4>2. \A c \in Keys : stage'[q][c] = "done" => stage[q][c] = "done" /\ list'[q][c] = list[q][c]
        BY <3>1
      <4>3. QED BY <4>1, <4>2
    <3>4. QED BY <2>2, <2>3, <2>4, <3>2, <3>3 DEF SeenOnly, EntriesSeen
  <2>5. QED BY <2>1, <2>2, <2>3, <2>4 DEF KnownBy
<1>7. ASSUME NEW r \in Requests, NEW k \in Keys, NEW how, Fails(r, k, how) PROVE Known'
  <2> SUFFICES ASSUME NEW q \in Requests PROVE KnownBy(q)'
    BY DEF Known
  <2>1. KnownBy(q)
    BY DEF Known
  <2>2. /\ how \in {"lost", "rejected"} /\ (how = "lost" => database[k] = None)
        /\ stage[r][k] # "idle" /\ stage' = [stage EXCEPT ![r][k] = how]
        /\ state' = IF k \in Users THEN [state EXCEPT ![r] = "unauthenticated"] ELSE state
        /\ UNCHANGED <<database, list, seen, tainted>>
        /\ \/ cache' = cache
           \/ stage[r][k] = "set" /\ cache' = [cache EXCEPT ![k] = Stored(list[r][k])]
    BY <1>7 DEF Fails
  <2>3. state[q] # "idle" => (WithoutUser(q) => WithoutUser(q)') /\ (Entitled(q) => Entitled(q)')
    BY <1>0
  <2>4. k \in Users => k = UserOf[r] /\ state[r] # "idle"
    BY <2>2 DEF Progress, Advanced
  <2>5. /\ state'[q] = "allowed" => state[q] = "allowed"
        /\ state'[q] # "idle" => state[q] # "idle"
        /\ state'[q] = "unauthenticated" => state[q] = "unauthenticated" \/ (q = r /\ k = UserOf[r])
    <3>1. CASE k \in Users
      BY <2>2, <2>4, <3>1
    <3>2. CASE k \notin Users
      BY <2>2, <3>2
    <3>3. QED BY <3>1, <3>2
  <2>6. state'[q] = "unauthenticated" => WithoutUser(q)'
    <3>1. CASE state[q] = "unauthenticated"
      BY <2>1, <2>3, <3>1 DEF KnownBy
    <3>2. CASE q = r /\ k = UserOf[r]
      <4>1. CASE how = "lost"
        BY <2>1, <2>2, <2>4, <3>2, <4>1, TokensAreValid DEF KnownBy, WithoutUser
      <4>2. CASE how = "rejected"
        BY <2>2, <3>2, <4>2 DEF WithoutUser
      <4>3. QED BY <2>2, <4>1, <4>2
    <3>3. QED BY <2>5, <3>1, <3>2
  <2>7. ASSUME SeenOnly(q) PROVE SeenOnly(q)'
    <3>1. EntriesSeen(q)'
      <4>1. CASE cache' = cache
        BY <2>2, <2>7, <4>1 DEF SeenOnly, EntriesSeen
      <4>2. CASE stage[r][k] = "set" /\ cache' = [cache EXCEPT ![k] = Stored(list[r][k])]
        <5>1. cache'[k] = Stored(list[r][k]) /\ \A c \in Keys \ {k} : cache'[c] = cache[c]
          BY <4>2
        <5>2. QED BY <2>2, <2>7, <4>2, <5>1, StoreIsSeen
      <4>3. QED BY <2>2, <4>1, <4>2
    <3>2. \A p \in Requests, c \in Keys :
             stage'[p][c] = stage[p][c] \/ stage'[p][c] \in {"lost", "rejected"}
      BY <2>2
    <3>3. /\ \A p \in Requests, c \in Keys : stage'[p][c] = "set" => list[p][c] \in seen[q][c]
          /\ \A c \in Keys : stage'[q][c] = "done" => list[q][c] = {Blank} \/ list[q][c] \in seen[q][c]
      BY <2>7, <3>2 DEF SeenOnly, EntriesSeen
    <3>4. state'[q] = "allowed" => Entitled(q)'
      BY <2>3, <2>5, <2>7 DEF SeenOnly, EntriesSeen
    <3>5. QED BY <2>2, <3>1, <3>3, <3>4 DEF SeenOnly
  <2>8. QED BY <2>1, <2>2, <2>5, <2>6, <2>7 DEF KnownBy
<1>8. ASSUME NEW r \in Requests, NEW k \in Keys, Set(r, k) PROVE Known'
  <2> SUFFICES ASSUME NEW q \in Requests PROVE KnownBy(q)'
    BY DEF Known
  <2>1. KnownBy(q)
    BY DEF Known
  <2>2. /\ stage[r][k] = "set" /\ stage' = [stage EXCEPT ![r][k] = "done"]
        /\ cache' = [cache EXCEPT ![k] = Stored(list[r][k])]
        /\ UNCHANGED <<database, state, list, seen, tainted>>
    BY <1>8 DEF Set
  <2>3. state[q] # "idle" => (WithoutUser(q) => WithoutUser(q)') /\ (Entitled(q) => Entitled(q)')
    BY <1>0
  <2>4. ASSUME SeenOnly(q) PROVE SeenOnly(q)'
    <3>1. EntriesSeen(q)'
      <4>1. cache'[k] = Stored(list[r][k]) /\ \A c \in Keys \ {k} : cache'[c] = cache[c]
        BY <2>2
      <4>2. QED BY <2>2, <2>4, <4>1, StoreIsSeen
    <3>2. list[r][k] \in seen[q][k]
      BY <2>2, <2>4 DEF SeenOnly, EntriesSeen
    <3>3. \A p \in Requests, c \in Keys :
             \/ p = r /\ c = k /\ stage'[p][c] = "done"
             \/ stage'[p][c] = stage[p][c]
      BY <2>2
    <3>4. /\ \A p \in Requests, c \in Keys : stage'[p][c] = "set" => list[p][c] \in seen[q][c]
          /\ \A c \in Keys : stage'[q][c] = "done" => list[q][c] = {Blank} \/ list[q][c] \in seen[q][c]
      BY <2>4, <3>2, <3>3 DEF SeenOnly, EntriesSeen
    <3>5. QED BY <2>2, <2>3, <2>4, <3>1, <3>4 DEF SeenOnly
  <2>5. QED BY <2>1, <2>2, <2>3, <2>4 DEF KnownBy
<1>9. ASSUME NEW r \in Requests, LookUp(r) PROVE Known'
  <2> SUFFICES ASSUME NEW q \in Requests PROVE KnownBy(q)'
    BY DEF Known
  <2>1. KnownBy(q)
    BY DEF Known
  <2>2. QED BY <1>0, <1>9, <2>1 DEF LookUp, KnownBy, SeenOnly, EntriesSeen
<1>10. ASSUME NEW r \in Requests, Authenticate(r) PROVE Known'
  <2> SUFFICES ASSUME NEW q \in Requests PROVE KnownBy(q)'
    BY DEF Known
  <2>1. KnownBy(q)
    BY DEF Known
  <2>2. QED BY <1>0, <1>10, <2>1 DEF Authenticate, KnownBy, SeenOnly, EntriesSeen
<1>11. ASSUME NEW r \in Requests, Resolve(r) PROVE Known'
  <2> SUFFICES ASSUME NEW q \in Requests PROVE KnownBy(q)'
    BY DEF Known
  <2>1. KnownBy(q)
    BY DEF Known
  <2>2. /\ state[r] \in {"authenticated", "unauthenticated"} /\ state'[r] \in {"allowed", "refused"}
        /\ q # r => state'[q] = state[q]
        /\ UNCHANGED <<database, cache, stage, list, seen, tainted>>
    BY <1>11 DEF Resolve
  <2>3. state[q] # "idle" => (WithoutUser(q) => WithoutUser(q)') /\ (Entitled(q) => Entitled(q)')
    BY <1>0
  <2>4. state'[q] # "idle" => state[q] # "idle"
    BY <2>2
  <2>5. state'[q] = "unauthenticated" => state[q] = "unauthenticated"
    BY <2>2
  <2>6. q = r /\ state'[r] = "allowed" /\ ~tainted[r] => Entitled(r)
    BY <1>11, ResolveEntitled
  <2>7. ASSUME SeenOnly(q), ~tainted[q] PROVE SeenOnly(q)'
    BY <2>2, <2>6, <2>7, <2>3 DEF SeenOnly, EntriesSeen
  <2>8. QED BY <2>1, <2>2, <2>3, <2>4, <2>5, <2>7 DEF KnownBy
<1>12. CASE UNCHANGED vars
  <2> SUFFICES ASSUME NEW q \in Requests PROVE KnownBy(q)'
    BY DEF Known
  <2>1. KnownBy(q)
    BY DEF Known
  <2>2. UNCHANGED <<database, cache, state, stage, list, seen, tainted>>
    BY <1>12 DEF vars
  <2>3. state[q] # "idle" => (WithoutUser(q) => WithoutUser(q)') /\ (Entitled(q) => Entitled(q)')
    BY <1>0
  <2>4. QED BY <2>1, <2>2, <2>3 DEF KnownBy, SeenOnly, EntriesSeen
<1>13. ASSUME NEW w \in Writers, Commit(w) \/ CommitFails(w) PROVE Known'
  BY <1>1, <1>13, CommitChanges
<1>14. ASSUME NEW w \in Writers, UnsetFails(w) PROVE Known'
  <2> SUFFICES ASSUME NEW q \in Requests PROVE KnownBy(q)'
    BY DEF Known
  <2>1. KnownBy(q)
    BY DEF Known
  <2>2. UNCHANGED <<database, cache, state, stage, list, seen, tainted>>
    BY <1>14 DEF UnsetFails
  <2>3. state[q] # "idle" => (WithoutUser(q) => WithoutUser(q)') /\ (Entitled(q) => Entitled(q)')
    BY <1>0
  <2>4. QED BY <2>1, <2>2, <2>3 DEF KnownBy, SeenOnly, EntriesSeen
<1>15. ASSUME NEW r \in Requests, NEW k \in Keys, NotFound(r, k) \/ Rejects(r, k) PROVE Known'
  BY <1>7, <1>15, LookupFails
<1>16. QED
  BY <1>2, <1>3, <1>4, <1>5, <1>6, <1>8, <1>9, <1>10, <1>11, <1>12, <1>13, <1>14, <1>15 DEF Next, Step

\* An entry that is stored is blank where an empty list was read.
LEMMA StoreHasCause ==
  ASSUME Inv, NEW r \in Requests, NEW k \in Keys, stage[r][k] = "set",
         cache' = [cache EXCEPT ![k] = Stored(list[r][k])]
  PROVE  \A c \in Keys : cache'[c] = cache[c] \/ (cache'[c] # None /\ (cache'[c] = {Blank} => {} \in past[c]))
<1>1. list[r][k] \in Lists /\ list[r][k] \in past[k]
  BY ListFacts DEF Inv, ListsFit, Causes
<1>2. Blank \notin list[r][k] /\ list[r][k] # None /\ {Blank} # None
  BY <1>1, ListFacts
<1>3. cache'[k] = Stored(list[r][k]) /\ \A c \in Keys \ {k} : cache'[c] = cache[c]
  BY DEF Inv, Types, TypeOK
<1>4. cache'[k] = (IF list[r][k] = {} THEN {Blank} ELSE list[r][k])
  BY <1>3 DEF Stored
<1>5. cache'[k] # None /\ (cache'[k] = {Blank} => {} \in past[k])
  BY <1>1, <1>2, <1>4
<1>6. QED BY <1>3, <1>5

LEMMA CausesStep == ASSUME Inv, [Next]_vars PROVE Causes'
<1> USE DEF Inv, Types, TypeOK, writing
<1>1. ASSUME NEW w \in Writers, NEW new, NEW how, Changes(w, new, how) PROVE Causes'
  <2> DEFINE c == plan[w].key
  <2>1. /\ c \in Keys /\ written[w] = "idle" /\ written' = [written EXCEPT ![w] = how]
        /\ database' = [database EXCEPT ![c] = new]
        /\ past' = [past EXCEPT ![c] = @ \cup {new}]
        /\ UNCHANGED <<plan, cache, state, stage, list>>
    BY <1>1 DEF Changes, Becomes, Keys
  <2> HIDE DEF c
  <2>2. \A k \in Keys : past[k] \subseteq past'[k] /\ database'[k] \in past'[k]
    <3>1. \A k \in Keys : past'[k] = (IF k = c THEN past[k] \cup {new} ELSE past[k])
      BY <2>1
    <3>2. \A k \in Keys : database'[k] = (IF k = c THEN new ELSE database[k])
      BY <2>1
    <3>3. QED BY <3>1, <3>2 DEF Causes
  <2>3. \A k \in Keys : Told(k) => Told(k)'
    BY <2>1 DEF Told
  <2>4. \A k \in Keys : BlankOf(k) => BlankOf(k)'
    BY <2>2, <2>3 DEF BlankOf
  <2>5. \A r \in Requests : UserOf[r] \in Keys
    BY TokensAreValid DEF Keys
  <2> HIDE DEF Types, TypeOK
  <2>6. QED BY <2>1, <2>2, <2>3, <2>4, <2>5 DEF Causes
<1>2. ASSUME NEW w \in Writers, Unset(w) PROVE Causes'
  <2>1. /\ plan[w].key \in Keys /\ written'[w] = "told"
        /\ \A v \in Writers : written[v] = "told" => written'[v] = "told"
        /\ cache' = [c \in Keys |-> IF c = plan[w].key THEN None ELSE cache[c]]
        /\ UNCHANGED <<plan, database, past, state, stage, list>>
    BY <1>2, ListsAreTyped DEF Unset, Removed, Keys
  <2>2. \A k \in Keys : (Told(k) => Told(k)') /\ (cache'[k] # cache[k] => Told(k)')
    BY <2>1 DEF Told
  <2>3. \A k \in Keys : BlankOf(k) => BlankOf(k)'
    BY <2>1, <2>2 DEF BlankOf
  <2>4. \A r \in Requests : UserOf[r] \in Keys
    BY TokensAreValid DEF Keys
  <2>5. \A k \in Keys : cache'[k] = {Blank} => cache[k] = {Blank}
    BY <2>1, ListFacts
  <2> HIDE DEF Types, TypeOK
  <2>6. QED BY <2>1, <2>2, <2>3, <2>4, <2>5 DEF Causes
<1>3. ASSUME NEW r \in Requests, Begin(r) PROVE Causes'
  <2>1. /\ stage' = [stage EXCEPT ![r][UserOf[r]] = "has"]
        /\ UNCHANGED <<plan, written, database, past, cache, list>>
    BY <1>3 DEF Begin
  <2>2. \A k \in Keys : (Told(k) <=> Told(k)') /\ (BlankOf(k) <=> BlankOf(k)')
    BY <2>1 DEF Told, BlankOf
  <2>3. \A q \in Requests : UserOf[q] \in Keys /\ UserOf[q] # Blank
    BY TokensAreValid, KeysAreDistinct DEF Keys
  <2>4. \A q \in Requests, k \in Keys : stage'[q][k] \in {stage[q][k], "has"}
    BY <2>1
  <2>5. \A q \in Requests : stage'[q][Blank] = stage[q][Blank]
    BY <2>1, <2>3
  <2> HIDE DEF Types, TypeOK
  <2>6. QED BY <2>1, <2>2, <2>3, <2>4, <2>5 DEF Causes
<1>4. ASSUME NEW r \in Requests, NEW k \in Keys, Has(r, k) PROVE Causes'
  <2>1. /\ stage[r][k] = "has"
        /\ stage' = [stage EXCEPT ![r][k] = IF cache[k] = None THEN "find" ELSE "get"]
        /\ UNCHANGED <<plan, written, database, past, cache, list>>
    BY <1>4 DEF Has
  <2>2. \A c \in Keys : (Told(c) <=> Told(c)') /\ (BlankOf(c) <=> BlankOf(c)')
    BY <2>1 DEF Told, BlankOf
  <2>3. \A q \in Requests : UserOf[q] \in Keys
    BY TokensAreValid DEF Keys
  <2>4. \A q \in Requests, c \in Keys :
           \/ stage'[q][c] = stage[q][c] \/ stage'[q][c] = "find"
           \/ stage'[q][c] = "get" /\ cache[c] # None
    BY <2>1
  <2>5. \A q \in Requests : stage'[q][Blank] = stage[q][Blank] \/ stage[q][Blank] # "idle"
    BY <2>1
  <2> HIDE DEF Types, TypeOK
  <2>6. QED BY <2>1, <2>2, <2>3, <2>4, <2>5 DEF Causes
<1>5. ASSUME NEW r \in Requests, NEW k \in Keys, Get(r, k) PROVE Causes'
  <2>1. /\ stage[r][k] = "get" /\ stage' = [stage EXCEPT ![r][k] = "done"]
        /\ list' = [list EXCEPT ![r][k] = IF cache[k] = None THEN {Blank} ELSE cache[k]]
        /\ UNCHANGED <<plan, written, database, past, cache>>
    BY <1>5 DEF Get
  <2>2. \A c \in Keys : (Told(c) <=> Told(c)') /\ (BlankOf(c) <=> BlankOf(c)')
    BY <2>1 DEF Told, BlankOf
  <2>3. \A q \in Requests : UserOf[q] \in Keys
    BY TokensAreValid DEF Keys
  <2>4. \A q \in Requests, c \in Keys :
           \/ stage'[q][c] = stage[q][c] /\ list'[q][c] = list[q][c]
           \/ q = r /\ c = k /\ stage'[q][c] = "done"
    BY <2>1
  <2>5. list'[r][k] = {Blank} => BlankOf(k)
    BY <2>1 DEF Causes, BlankOf
  <2>6. \A q \in Requests : stage'[q][Blank] = stage[q][Blank] \/ stage[q][Blank] # "idle"
    BY <2>1
  <2> HIDE DEF Types, TypeOK
  <2>7. QED BY <2>1, <2>2, <2>3, <2>4, <2>5, <2>6 DEF Causes
<1>6. ASSUME NEW r \in Requests, NEW k \in Keys, Find(r, k) PROVE Causes'
  <2>1. /\ stage[r][k] = "find" /\ stage' = [stage EXCEPT ![r][k] = "set"]
        /\ list' = [list EXCEPT ![r][k] = database[k]]
        /\ UNCHANGED <<plan, written, database, past, cache>>
    BY <1>6 DEF Find
  <2>2. \A c \in Keys : (Told(c) <=> Told(c)') /\ (BlankOf(c) <=> BlankOf(c)')
    BY <2>1 DEF Told, BlankOf
  <2>3. \A q \in Requests : UserOf[q] \in Keys
    BY TokensAreValid DEF Keys
  <2>4. \A q \in Requests, c \in Keys :
           \/ stage'[q][c] = stage[q][c] /\ list'[q][c] = list[q][c]
           \/ stage'[q][c] = "set" /\ list'[q][c] = database[c]
    BY <2>1
  <2>5. \A q \in Requests : stage'[q][Blank] = stage[q][Blank] \/ stage[q][Blank] # "idle"
    BY <2>1
  <2> HIDE DEF Types, TypeOK
  <2>6. QED BY <2>1, <2>2, <2>3, <2>4, <2>5 DEF Causes
<1>7. ASSUME NEW r \in Requests, NEW k \in Keys, NEW how, Fails(r, k, how) PROVE Causes'
  <2>1. /\ how \in {"lost", "rejected"} /\ (how = "lost" => database[k] = None)
        /\ stage[r][k] # "idle" /\ stage' = [stage EXCEPT ![r][k] = how]
        /\ UNCHANGED <<plan, written, database, past, list>>
        /\ \/ cache' = cache
           \/ stage[r][k] = "set" /\ cache' = [cache EXCEPT ![k] = Stored(list[r][k])]
    BY <1>7 DEF Fails
  <2>2. \A c \in Keys : (Told(c) <=> Told(c)') /\ (BlankOf(c) <=> BlankOf(c)')
    BY <2>1 DEF Told, BlankOf
  <2>3. \A q \in Requests : UserOf[q] \in Keys
    BY TokensAreValid DEF Keys
  <2>4. \A q \in Requests, c \in Keys :
           \/ stage'[q][c] = stage[q][c] \/ stage'[q][c] = "rejected"
           \/ stage'[q][c] = "lost" /\ database[c] = None
    BY <2>1
  <2>5. \A q \in Requests : stage'[q][Blank] = stage[q][Blank] \/ stage[q][Blank] # "idle"
    BY <2>1
  <2>6. \A c \in Keys : cache'[c] = cache[c] \/ (cache'[c] # None /\ (cache'[c] = {Blank} => {} \in past[c]))
    <3>1. CASE stage[r][k] = "set" /\ cache' = [cache EXCEPT ![k] = Stored(list[r][k])]
      BY <3>1, StoreHasCause
    <3>2. QED BY <2>1, <3>1
  <2> HIDE DEF Types, TypeOK
  <2>7. QED BY <2>1, <2>2, <2>3, <2>4, <2>5, <2>6 DEF Causes
<1>8. ASSUME NEW r \in Requests, NEW k \in Keys, Set(r, k) PROVE Causes'
  <2>1. /\ stage[r][k] = "set" /\ stage' = [stage EXCEPT ![r][k] = "done"]
        /\ cache' = [cache EXCEPT ![k] = Stored(list[r][k])]
        /\ UNCHANGED <<plan, written, database, past, list>>
    BY <1>8 DEF Set
  <2>2. \A c \in Keys : (Told(c) <=> Told(c)') /\ (BlankOf(c) <=> BlankOf(c)')
    BY <2>1 DEF Told, BlankOf
  <2>3. \A q \in Requests : UserOf[q] \in Keys
    BY TokensAreValid DEF Keys
  <2>4. list[r][k] # {Blank}
    BY <2>1, ListFacts DEF ListsFit
  <2>5. \A c \in Keys : cache'[c] = cache[c] \/ (cache'[c] # None /\ (cache'[c] = {Blank} => {} \in past[c]))
    BY <2>1, StoreHasCause
  <2>6. \A q \in Requests, c \in Keys :
           \/ stage'[q][c] = stage[q][c]
           \/ q = r /\ c = k /\ stage'[q][c] = "done"
    BY <2>1
  <2>7. \A q \in Requests : stage'[q][Blank] = stage[q][Blank] \/ stage[q][Blank] # "idle"
    BY <2>1
  <2> HIDE DEF Types, TypeOK
  <2>8. QED BY <2>1, <2>2, <2>3, <2>4, <2>5, <2>6, <2>7 DEF Causes
<1>9. ASSUME NEW r \in Requests, LookUp(r) PROVE Causes'
  <2>1. /\ stage[r][UserOf[r]] = "done"
        /\ stage' = [stage EXCEPT ![r] = [k \in Keys |-> IF k \in GroupsOf(r) THEN "has" ELSE @[k]]]
        /\ UNCHANGED <<plan, written, database, past, cache, list>>
    BY <1>9 DEF LookUp
  <2>2. \A c \in Keys : (Told(c) <=> Told(c)') /\ (BlankOf(c) <=> BlankOf(c)')
    BY <2>1 DEF Told, BlankOf
  <2>3. /\ \A q \in Requests : UserOf[q] \in Keys
        /\ UserOf[r] \in Users /\ Blank \in Keys /\ \A k \in Keys : ListsOf(k) \subseteq Lists
    BY TokensAreValid, ListFacts DEF Keys
  <2>4. \A q \in Requests, c \in Keys : stage'[q][c] \in {stage[q][c], "has"}
    BY <2>1
  <2>5. Blank \in GroupsOf(r) => GroupsOf(r) = {Blank}
    BY <2>1, <2>3, ListFacts DEF ListsFit, GroupsOf
  <2>6. Blank \in GroupsOf(r) => BlankOf(UserOf[r])
    BY <2>1, <2>3, <2>5 DEF GroupsOf, Causes
  <2>7. \A q \in Requests : stage'[q][Blank] = stage[q][Blank] \/ (q = r /\ Blank \in GroupsOf(r))
    BY <2>1, <2>3
  <2> HIDE DEF Types, TypeOK
  <2>8. QED BY <2>1, <2>2, <2>3, <2>4, <2>6, <2>7 DEF Causes
<1>10. ASSUME NEW r \in Requests, Authenticate(r) PROVE Causes'
  BY <1>10 DEF Authenticate, Causes, BlankOf, Told
<1>11. ASSUME NEW r \in Requests, Resolve(r) PROVE Causes'
  BY <1>11 DEF Resolve, Causes, BlankOf, Told
<1>12. CASE UNCHANGED vars
  BY <1>12 DEF vars, Causes, BlankOf, Told
<1>13. ASSUME NEW w \in Writers, Commit(w) \/ CommitFails(w) PROVE Causes'
  BY <1>1, <1>13, CommitChanges
<1>14. ASSUME NEW w \in Writers, UnsetFails(w) PROVE Causes'
  BY <1>14 DEF UnsetFails, Causes, BlankOf, Told
<1>15. ASSUME NEW r \in Requests, NEW k \in Keys, NotFound(r, k) \/ Rejects(r, k) PROVE Causes'
  BY <1>7, <1>15, LookupFails
<1>16. QED
  BY <1>2, <1>3, <1>4, <1>5, <1>6, <1>8, <1>9, <1>10, <1>11, <1>12, <1>13, <1>14, <1>15 DEF Next, Step


LEMMA NextInv == Inv /\ [Next]_vars => Inv'
BY TypesStep, ListsFitStep, ProgressStep, FreshStep, KnownStep, CausesStep DEF Inv

LEMMA AlwaysInv == Spec => []Inv
BY InitInv, NextInv, PTL DEF Spec
-----------------------------------------------------------------------------
\* An entry of the cache that is not what the database says is what a commit replaced whose
\* handlers have yet to remove it, or never will because the commit or the removal rejected,
\* or was stored after its removal by a request that read the record before the commit.
THEOREM StaleEntriesHaveCauses == Spec => []StaleEntryHasCause
<1>1. Inv => StaleEntryHasCause
  BY DEF Inv, Types, Fresh, EntryIsFresh, StaleEntryHasCause, Pending, Unheard
<1>2. QED BY <1>1, AlwaysInv, PTL

\* The directive @permission allows a request only what its user was entitled to while the
\* request ran, or by what a commit replaced of which the cache had not been told when it
\* began, unless an entry was stored after its removal.
THEOREM PermissionsAreEntitled == Spec => []AllowedWasEntitled
<1>1. Inv => AllowedWasEntitled
  BY DEF Inv, Known, KnownBy, SeenOnly, AllowedWasEntitled, EntriesSeen
<1>2. QED BY <1>1, AlwaysInv, PTL

\* Where no call of the cache or of the database rejects of itself, a request that waits
\* for ever looked up a group that was deleted, or the blank name of a user who was in no
\* group or whose entry was removed while it was read.
THEOREM LostRequestsHaveCauses == Spec => []HangsHaveCause
<1>1. Inv => HangsHaveCause
  BY DEF Inv, Causes, BlankOf, Told, HangsHaveCause
<1>2. QED BY <1>1, AlwaysInv, PTL
=============================================================================
