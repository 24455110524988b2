--------------------------- MODULE CollectionWrites ---------------------------
(***************************************************************************)
(* odm/src/collection.ts: what collections write.  A record is a row of    *)
(* its collection's table, with a column per locale for a localized field, *)
(* and rows of the table Relation for a field that lists others.  Writers  *)
(* create, replace and delete in a transaction, theirs or one of the       *)
(* collection's own; events are emitted when it is committed.  A record's  *)
(* fields here are "title", localized, and "refs", a list.                 *)
(***************************************************************************)
EXTENDS Naturals, Sequences, FiniteSets, SequencesExt

CONSTANTS Writers,
          Colls, Ids, Titles, Targets,
          Locales,    \* the locales of the configuration, the default one first
          Plans,      \* what the writers may do: a transaction each
          Databases,  \* the databases to start from
          None

Locale == ToSet(Locales)

\* What create(), replace() and delete() are given.
Operation == [op : {"create", "replace"}, coll : Colls, id : Ids,
              data : [title : [Locale -> Titles], refs : SUBSET Targets]]
             \cup [op : {"delete"}, coll : Colls, id : Ids, data : {None}]

Rows == [Ids -> [Locale -> Titles] \cup {None}]

Relation(writers) == [coll : Colls, source : Ids, target : Targets, by : writers]

ASSUME WritesAssumption ==
    /\ None \notin [Locale -> Titles] /\ None \notin {"ok", "errors"}
    /\ Plans \subseteq [Writers -> [own : BOOLEAN, ops : Seq(Operation)]]
    /\ \A db \in Databases : db.records \in [Colls -> Rows] /\ db.relations \subseteq Relation({None})

VARIABLES
    trx,        \* trx[w]: [own, ops], the operations and whose transaction it is
    state,      \* state[w]: where the writer stands
    done,       \* done[w]: the operations whose statements were run
    records,    \* records[c][i]: the titles of the row, or None
    relations,  \* the rows of Relation: [coll, source, target, by]
    heard,      \* the events emitted: [event, coll, id, by]
    ran,        \* ran[w], history: how the batch went, "ok" or "errors", or None
    wrote,      \* history: the relations of a record's last create or replace
    spoilt      \* history: the records whose relations may be others

writing == <<trx, state, done, records, relations, heard, ran, wrote, spoilt>>

RelationsOf(c, i) == {r \in relations : r.coll = c /\ r.source = i}

WritesInit ==
    /\ trx \in Plans
    /\ state = [w \in Writers |-> "idle"]
    /\ done = [w \in Writers |-> 0]
    /\ \E db \in Databases : records = db.records /\ relations = db.relations
    /\ heard = {}
    /\ ran = [w \in Writers |-> None]
    /\ wrote = [c \in Colls |-> [i \in Ids |-> RelationsOf(c, i)]]
    /\ spoilt = {r \in Colls \X Ids : records[r[1]][r[2]] = None /\ RelationsOf(r[1], r[2]) # {}}

-----------------------------------------------------------------------------
\* flattenLocalizedFields() and addRelationToTransaction(): the rows for the list.
RelationRows(op, by) == {[coll |-> op.coll, source |-> op.id, target |-> t, by |-> by] : t \in op.data.refs}

\* The rows of the collection's table after an operation: the insert fails when the
\* id is taken, and an update of a row that is not there is no error.
RecordsAfter(op, there) ==
    CASE op.op = "create" -> IF there THEN records ELSE [records EXCEPT ![op.coll][op.id] = op.data.title]
      [] op.op = "replace" -> IF there THEN [records EXCEPT ![op.coll][op.id] = op.data.title] ELSE records
      [] op.op = "delete" -> [records EXCEPT ![op.coll][op.id] = None]

\* A slip: replace() keeps the old relations.
RelationsKept(op, by) == IF op.op = "delete" THEN relations ELSE relations \cup RelationRows(op, by)

\* The rows of Relation after it: replace() deletes those of the id, of whatever
\* collection, and the inserts are run whether or not the others fail.
RelationsAfter(op, by) ==
    CASE op.op = "create" -> relations \cup RelationRows(op, by)
      [] op.op = "replace" -> {r \in relations : r.source # op.id} \cup RelationRows(op, by)
      [] op.op = "delete" -> relations

\* History: the records whose relations an operation makes doubtful.
Spoils(op, there) ==
    CASE op.op = "create" -> IF there /\ op.data.refs # {} THEN {<<op.coll, op.id>>} ELSE {}
      [] op.op = "replace" -> (IF there \/ op.data.refs = {} THEN {} ELSE {<<op.coll, op.id>>})
             \cup {<<c, op.id>> : c \in {c \in Colls \ {op.coll} : RelationsOf(c, op.id) # {}}}
      [] op.op = "delete" -> IF RelationsOf(op.coll, op.id) # {} THEN {<<op.coll, op.id>>} ELSE {}

-----------------------------------------------------------------------------
\* create(), replace(), delete(): the statements are collected and commit() is
\* called, by the collection when the transaction is its own.
Commit(w) == /\ state[w] = "idle"
             /\ state' = [state EXCEPT ![w] = "committing"]
             /\ UNCHANGED <<trx, done, records, relations, heard, ran, wrote, spoilt>>

\* The driver runs nothing else while it runs a batch.
Idle == \A w \in Writers : state[w] # "running"

Begin(w) == /\ state[w] = "committing" /\ Idle
            /\ state' = [state EXCEPT ![w] = "running"]
            /\ UNCHANGED <<trx, done, records, relations, heard, ran, wrote, spoilt>>

\* The statements of the next operation; an error does not stop the batch.
RunOperation(w) ==
    LET n == done[w] + 1
        op == trx[w].ops[n]
        there == records[op.coll][op.id] # None
    IN  /\ state[w] = "running" /\ n <= Len(trx[w].ops)
        /\ records' = RecordsAfter(op, there)
        /\ relations' = RelationsAfter(op, <<w, n>>)
        /\ done' = [done EXCEPT ![w] = n]
        /\ ran' = IF op.op = "create" /\ there THEN [ran EXCEPT ![w] = "errors"] ELSE ran
        /\ wrote' = IF op.op = (IF there THEN "replace" ELSE "create")
                    THEN [wrote EXCEPT ![op.coll][op.id] = RelationRows(op, <<w, n>>)] ELSE wrote
        /\ spoilt' = (IF op.op = "replace" /\ there THEN spoilt \ {<<op.coll, op.id>>} ELSE spoilt)
                     \cup Spoils(op, there)
        /\ UNCHANGED <<trx, state, heard>>

\* After the COMMIT the errors are reported.
End(w) == /\ state[w] = "running" /\ done[w] = Len(trx[w].ops)
          /\ state' = [state EXCEPT ![w] = IF ran[w] = "errors" THEN "failed" ELSE "committed"]
          /\ ran' = IF ran[w] = None THEN [ran EXCEPT ![w] = "ok"] ELSE ran
          /\ UNCHANGED <<trx, done, records, relations, heard, wrote, spoilt>>

\* A slip: nobody is told, whoever made the transaction.
ToldNobody(w) == FALSE

Told(w) == ~trx[w].own

\* The commit rejects: to the caller of a shared transaction, or inside the
\* executor of the promise a collection returned, which then never settles.
Reject(w) == /\ state[w] = "failed" /\ Told(w)
             /\ state' = [state EXCEPT ![w] = "rejected"]
             /\ UNCHANGED <<trx, done, records, relations, heard, ran, wrote, spoilt>>

\* A slip: the events are emitted when commit() is called.
EmitReadyEarly(w) == state[w] \in {"running", "committed"}

EmitReady(w) == state[w] = "committed"

\* commit() emits its event, and the handlers of the transaction those of the
\* collections; their handlers are not awaited, but for a deletion of its own.
EmitEvents(w) ==
    /\ EmitReady(w)
    /\ heard' = heard \cup {[event |-> trx[w].ops[n].op, coll |-> trx[w].ops[n].coll,
                             id |-> trx[w].ops[n].id, by |-> <<w, n>>] : n \in DOMAIN trx[w].ops}
    /\ state' = [state EXCEPT ![w] = IF trx[w].own /\ trx[w].ops[1].op = "delete"
                                     THEN "notifying" ELSE "resolved"]
    /\ UNCHANGED <<trx, done, records, relations, ran, wrote, spoilt>>

\* The handlers of a deletion have ended.
Resolve(w) == /\ state[w] = "notifying"
              /\ state' = [state EXCEPT ![w] = "resolved"]
              /\ UNCHANGED <<trx, done, records, relations, heard, ran, wrote, spoilt>>

-----------------------------------------------------------------------------
Answered(w) == Begin(w) \/ End(w) \/ Reject(w) \/ EmitEvents(w) \/ Resolve(w)

WritesNext == \E w \in Writers : Commit(w) \/ RunOperation(w) \/ Answered(w)

WritesSpec == WritesInit /\ [][WritesNext]_writing
-----------------------------------------------------------------------------
\* The types.
RecordsTyped ==
    /\ trx \in [Writers -> [own : BOOLEAN, ops : Seq(Operation)]]
    /\ state \in [Writers -> {"idle", "committing", "running", "committed", "failed", "rejected", "notifying", "resolved"}]
    /\ done \in [Writers -> Nat] /\ \A w \in Writers : done[w] <= Len(trx[w].ops)
    /\ records \in [Colls -> Rows]
    /\ relations \subseteq Relation({None} \cup (Writers \X Nat))
    /\ ran \in [Writers -> {None, "ok", "errors"}]

\* Types hold, and the relations of a record are those of the last create or
\* replace of it, unless it was deleted and created again, its id was created twice or replaced before it
\* existed, or a record of the same id in another collection was replaced; a
\* replace repairs them.
RelationsAreOwn ==
    RecordsTyped /\ \A c \in Colls, i \in Ids : records[c][i] # None /\ <<c, i>> \notin spoilt
        => RelationsOf(c, i) = wrote[c][i]

\* Nobody hears of what was not committed, and who is told that it is done has
\* had all its events emitted.
EventsTellOfCommits ==
    /\ \A e \in heard : ran[e.by[1]] = "ok"
    /\ \A w \in Writers : state[w] \in {"notifying", "resolved"} =>
          \A n \in DOMAIN trx[w].ops : \E e \in heard : e.by = <<w, n>>
=============================================================================
