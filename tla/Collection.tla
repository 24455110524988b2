------------------------------ MODULE Collection ------------------------------
(***************************************************************************)
(* odm/src/collection.ts: collections over one database, their writers,    *)
(* see CollectionWrites, beside finders, which read the rows and then the  *)
(* relations.                                                              *)
(***************************************************************************)
EXTENDS Conditions, CollectionWrites

CONSTANTS Finders,
          Asks        \* what the finders may ask: a query each

VARIABLES
    query,      \* query[f]: what a finder asks
    asked,      \* asked[f]: where it stands
    batch,      \* batch[f]: the finders its query is run for
    rows,       \* rows[f]: the rows read
    found,      \* found[f]: what the finder got
    calm        \* calm[f], history: nothing was committed since f's rows were read

finding == <<query, asked, batch, rows, found>>
vars == <<writing, finding, calm>>

Init ==
    /\ WritesInit
    /\ query \in Asks
    /\ asked = [f \in Finders |-> "idle"]
    /\ batch = [f \in Finders |-> {}]
    /\ rows = [f \in Finders |-> {}]
    /\ found = [f \in Finders |-> None]
    /\ calm = [f \in Finders |-> TRUE]

-----------------------------------------------------------------------------
\* The map from fields to columns of a locale, localizedFieldMap.
Columns(l) == ("id" :> <<"id">>) @@ ("title" :> <<"title", l>>) @@ ("refs" :> <<"ref__refs", "target">>)

LocaleOf(f) == IF query[f].locale = None THEN Locales[1] ELSE query[f].locale

\* The fields a query is run with: the loader joins those of the calls it batches,
\* and none means all.
FieldsOf(fs) == LET named == UNION {query[f].fields : f \in fs}
                IN  IF named = {} THEN {"title", "refs"} ELSE named

ConditionOf(fs) ==
    LET f == CHOOSE f \in fs : TRUE IN
    IF query[f].kind = "byId"
    THEN [op |-> "in", field |-> "id", values |-> SetToSeq({query[g].id : g \in fs})]
    ELSE query[f].cond

Field == {"id", "title", "refs"}

\* findMany() throws if it does not know its locale or a field it is to give.
Known(f) == LocaleOf(f) \in Locale /\ query[f].fields \subseteq Field

\* findById() puts its key in the loader; findMany() and findOne() start at once.
Ask(f) ==
    /\ asked[f] = "idle"
    /\ asked' = [asked EXCEPT ![f] = IF query[f].kind = "byId" THEN "queued"
                                     ELSE IF Known(f) THEN "reading" ELSE "rejected"]
    /\ batch' = [batch EXCEPT ![f] = {f}]
    /\ UNCHANGED <<query, rows, found, writing, calm>>

\* The loader of collection c runs for all the keys it was given, a findMany() per
\* locale with the fields of all: one that throws fails the keys of every locale.
Dispatch(c) ==
    LET keys == {f \in Finders : asked[f] = "queued" /\ query[f].coll = c}
        known == \A f \in keys : Known(f)
    IN  /\ keys # {}
        /\ asked' = [f \in Finders |-> IF f \in keys THEN IF known THEN "reading" ELSE "rejected"
                                       ELSE asked[f]]
        /\ batch' = [f \in Finders |-> IF f \notin keys THEN batch[f] ELSE IF known
                        THEN {g \in keys : LocaleOf(g) = LocaleOf(f)} ELSE keys]
        /\ UNCHANGED <<query, rows, found, writing, calm>>

TableColumns == {<<"id">>} \cup {<<"title", l>> : l \in Locale}

\* The ids of the rows of c that answer the statement, on the columns of the table.
Answer(c, sql, params) ==
    {i \in Ids : records[c][i] # None /\
        LET row == (<<"id">> :> i) @@ [k \in {<<"title", l>> : l \in Locale} |-> records[c][i][k[2]]]
        IN  Truth(sql, params, row)}

\* A slip: the columns of the default locale are selected and compared.
ColumnsOfDefault(l) == Columns(Locales[1])

ColumnsOf(l) == Columns(l)

StatementOf(f) == Converted(Replaced(ConditionOf(batch[f]), ColumnsOf(LocaleOf(f))))

\* The first query: a limit of 0 counts as none.
ReadRows(f) ==
    LET c == query[f].coll
        most == IF query[f].kind = "one" THEN 1 ELSE query[f].limit
        title(i) == IF "title" \in FieldsOf(batch[f])
                    THEN records[c][i][ColumnsOf(LocaleOf(f))["title"][2]] ELSE None
    IN  /\ asked[f] = "reading" /\ Idle
        /\ \E statement \in {StatementOf(f)} :
            \/ /\ ~Accepted(statement.sql, TableColumns)
               /\ asked' = [g \in Finders |-> IF g \in batch[f] THEN "rejected" ELSE asked[g]]
               /\ UNCHANGED <<rows, calm>>
            \/ /\ Accepted(statement.sql, TableColumns)
               /\ \E answer \in {Answer(c, statement.sql, statement.params)} : \E got \in SUBSET answer :
                     /\ IF most = 0 \/ Cardinality(answer) <= most THEN got = answer
                        ELSE Cardinality(got) = most
                     /\ rows' = [g \in Finders |-> IF g \in batch[f]
                            THEN {[id |-> i, title |-> title(i)] : i \in got} ELSE rows[g]]
               /\ asked' = [g \in Finders |-> IF g \in batch[f] THEN "joining" ELSE asked[g]]
               /\ calm' = [g \in Finders |-> g \in batch[f] \/ calm[g]]
        /\ UNCHANGED <<query, batch, found, writing>>

\* A slip: a batch fails unless every id of it was found.
OutcomeOfAll(f) == IF \A g \in batch[f] : \E r \in rows[f] : query[g].id \in {None, r.id}
                   THEN "found" ELSE "rejected"

\* Where a call stands when its rows are complete: findById() wants its id,
\* findOne() anything.
Outcome(f) == CASE query[f].kind = "byId" -> IF \E r \in rows[f] : r.id = query[f].id THEN "found" ELSE "rejected"
                [] query[f].kind = "one" -> IF rows[f] # {} THEN "found" ELSE "rejected"
                [] query[f].kind = "many" -> "found"

\* The rows that are for f.
Share(f) == IF query[f].kind = "byId" THEN {r \in rows[f] : r.id = query[f].id} ELSE rows[f]

\* The second query, if a list is asked for, gives each row its relations.
ReadRelations(f) ==
    LET lists == "refs" \in FieldsOf(batch[f])
        listed(i) == IF lists THEN {<<r.target, r.by>> : r \in {r \in relations :
                                       r.coll = query[f].coll /\ r.source = i}} ELSE None
    IN  /\ asked[f] = "joining" /\ Idle
        /\ asked' = [g \in Finders |-> IF g \in batch[f] THEN Outcome(g) ELSE asked[g]]
        /\ found' = [g \in Finders |-> IF g \in batch[f] /\ Outcome(g) = "found"
                       THEN {[id |-> r.id, title |-> r.title, refs |-> listed(r.id)] : r \in Share(g)}
                       ELSE found[g]]
        /\ UNCHANGED <<query, batch, rows, writing, calm>>

-----------------------------------------------------------------------------
Read(f) == ReadRows(f) \/ ReadRelations(f)

\* The driver and the emitter go on with the transaction of w.
Writes(w) == /\ \/ RunOperation(w) /\ calm' = [f \in Finders |-> FALSE]
                \/ Answered(w) /\ UNCHANGED calm
             /\ UNCHANGED finding

Next == \/ \E w \in Writers : \/ Commit(w) /\ UNCHANGED <<finding, calm>>
                             \/ Writes(w)
        \/ \E f \in Finders : Ask(f) \/ Read(f)
        \/ \E c \in Colls : Dispatch(c)

\* The driver answers every batch and query, and the loader runs on the next tick.
Spec == /\ Init /\ [][Next]_vars
        /\ \A w \in Writers : WF_vars(Writes(w))
        /\ \A f \in Finders : WF_vars(Read(f))
        /\ \A c \in Colls : WF_vars(Dispatch(c))
-----------------------------------------------------------------------------
\* The types of the finders; those of the writers are in RelationsAreOwn.
TypeOK ==
    /\ asked \in [Finders -> {"idle", "queued", "reading", "joining", "found", "rejected"}]
    /\ batch \in [Finders -> SUBSET Finders] /\ calm \in [Finders -> BOOLEAN]

\* A field f can count on: one it named, or any if nobody in its batch named some.
Wanted(f, field) == field \in query[f].fields \/ \A g \in batch[f] : query[g].fields = {}

Matching(f) == {i \in Ids : /\ records[query[f].coll][i] # None
                            /\ IF query[f].kind = "byId" THEN i = query[f].id
                               ELSE Holds(query[f].cond, ("id" :> i) @@
                                        ("title" :> records[query[f].coll][i][LocaleOf(f)]))}

Bounded(f) == query[f].kind = "one" \/ query[f].limit # 0
Bound(f) == IF query[f].kind = "one" THEN 1 ELSE query[f].limit

\* Types hold, and a call that no commit interrupts is given the records that match, up to the
\* limit if that is not 0, with the title of the locale and the relations they have.
FoundIsRight ==
    []TypeOK /\
    [][\A f \in Finders : asked[f] = "joining" /\ asked'[f] = "found" /\ calm[f] =>
          LET ids == {r.id : r \in found'[f]} IN
          /\ ids \subseteq Matching(f)
          /\ IF Bounded(f) /\ Cardinality(Matching(f)) > Bound(f)
             THEN Cardinality(ids) = Bound(f) ELSE ids = Matching(f)
          /\ \A r \in found'[f] :
                /\ Wanted(f, "title") => r.title = records[query[f].coll][r.id][LocaleOf(f)]
                /\ Wanted(f, "refs") => r.refs = {<<q.target, q.by>> : q \in
                        RelationsOf(query[f].coll, r.id)}]_vars

\* XOR and beginsWith are not SQLite's, and a list is not joined under its name.
RECURSIVE Expressible(_)
Expressible(tree) == IF tree.op \in Binaries
                     THEN tree.op # "xor" /\ \A i \in DOMAIN tree.args : Expressible(tree.args[i])
                     ELSE tree.op # "beginsWith" /\ tree.field # "refs"

\* A call is rejected for its own sake: no record, or a condition SQL cannot
\* express; only a locale or a field nobody knows, named by any call of the batch,
\* fails the others, whatever the locale they ask for.
RejectedWithCause ==
    [][\A f \in Finders : asked[f] # "rejected" /\ asked'[f] = "rejected" =>
          \/ \E g \in batch'[f] : LocaleOf(g) \notin Locale \/ ~ (query[g].fields \subseteq Field)
          \/ query[f].kind # "byId" /\ ~Expressible(query[f].cond)
          \/ query[f].kind # "many" /\ asked[f] = "joining" /\ (calm[f] => Matching(f) = {})]_vars

\* Every call settles, but one of the collection's own transactions whose commit
\* rejects.
CallsSettle ==
    /\ \A w \in Writers : state[w] = "committing" ~>
          \/ state[w] \in {"resolved", "rejected"}
          \/ state[w] = "failed" /\ trx[w].own
    /\ \A f \in Finders : asked[f] = "queued" ~> asked[f] \in {"found", "rejected"}
=============================================================================
