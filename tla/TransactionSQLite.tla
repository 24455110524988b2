-------------------------- MODULE TransactionSQLite --------------------------
(***************************************************************************)
(* db-sqlite/src/DatabaseSQLite.ts, class TransactionSQLite.  execute()    *)
(* only collects statements; for an alteration it first asks the database  *)
(* to describe the table, and collects the statements that rebuild it when *)
(* the answer comes.  commit() awaits the answers and then queues all      *)
(* statements between a BEGIN and a COMMIT on the driver, which serializes *)
(* the batches; a statement that fails is noted and the others still run,  *)
(* the COMMIT too.  The database is its schema and the identity of rows.   *)
(***************************************************************************)
EXTENDS Naturals, Sequences, FiniteSets

CONSTANTS Trxs,
          Tables, Columns,
          Programs,   \* what a transaction may be made of: sequences of Op
          Databases,  \* the databases to start from
          Stored,     \* the row the tables hold at the start
          None

\* What execute() is given, q.insert(...) and so on; without columns it throws.
Op == [op : {"insert", "create"}, table : Tables, columns : SUBSET Columns \ {{}}]
      \cup [op : {"drop"}, table : Tables]
      \cup [op : {"alter"}, table : Tables, add : SUBSET Columns, drop : SUBSET Columns]

\* A row is the stored one, or the transaction and the call that inserted it.
Rows == {<<Stored, 0>>} \cup (Trxs \X Nat)

Table == [columns : SUBSET Columns, rows : SUBSET Rows]

ASSUME SQLiteAssumption == /\ Programs \subseteq Seq(Op)
                           /\ Databases \subseteq [Tables -> Table \cup {None}]
                           /\ None \notin Table

VARIABLES database,    \* database[t]: a table's columns and rows, or None
          program,     \* program[x]: the calls x makes
          called,      \* called[x]: how many it has made
          statements,  \* statements[x]: what commit() would run
          describing,  \* describing[x]: the alterations not yet described
          refused,     \* refused[x]: the alterations that would leave no column
          state,       \* state[x]: where the transaction stands
          before, after,  \* database when x began, and when its batch ended
          alone        \* no other batch ran in between

vars == <<database, program, called, statements, describing, refused, state, before, after, alone>>

Init == /\ database \in Databases
        /\ program \in [Trxs -> Programs]
        /\ called = [x \in Trxs |-> 0]
        /\ statements = [x \in Trxs |-> <<>>]
        /\ describing = [x \in Trxs |-> {}]
        /\ refused = [x \in Trxs |-> {}]
        /\ state = [x \in Trxs |-> "open"]
        /\ before = [x \in Trxs |-> database]
        /\ after = [x \in Trxs |-> database]
        /\ alone = [x \in Trxs |-> TRUE]

-----------------------------------------------------------------------------
\* execute(): a statement, or the start of a description.
Execute(x) ==
    LET n == called[x] + 1
        call == program[x][n]
    IN  /\ state[x] = "open" /\ n <= Len(program[x])
        /\ called' = [called EXCEPT ![x] = n]
        /\ \/ /\ call.op = "alter"
              /\ describing' = [describing EXCEPT ![x] = @ \cup {n}]
              /\ UNCHANGED statements
           \/ /\ call.op # "alter"
              /\ statements' = [statements EXCEPT ![x] = Append(@, <<n, call>>)]
              /\ UNCHANGED describing
        /\ before' = IF n = 1 THEN [before EXCEPT ![x] = database] ELSE before
        /\ alone' = IF n = 1 THEN [alone EXCEPT ![x] = TRUE] ELSE alone
        /\ UNCHANGED <<database, program, refused, state, after>>

ColumnsOf(db, t) == IF db[t] = None THEN {} ELSE db[t].columns

\* A slip: the columns to drop are copied.
CopiedWithDropped(described, call) == described

\* The columns an alteration keeps.
Copied(described, call) == described \ call.drop

\* The description arrives, even when the transaction has been rolled back: the
\* statements that rebuild the table follow those collected so far.  A table
\* that does not exist is described as empty.  A table cannot be defined without
\* a column: the promise of the description is rejected.
Describe(x, n) ==
    LET call == program[x][n]
        copied == Copied(ColumnsOf(database, call.table), call)
        rebuild == [op |-> "rebuild", table |-> call.table, copied |-> copied, added |-> call.add]
    IN  /\ n \in describing[x]
        /\ describing' = [describing EXCEPT ![x] = @ \ {n}]
        /\ \/ /\ copied \cup call.add # {}
              /\ statements' = [statements EXCEPT ![x] = Append(@, <<n, rebuild>>)]
              /\ UNCHANGED refused
           \/ /\ copied \cup call.add = {}
              /\ refused' = [refused EXCEPT ![x] = @ \cup {n}]
              /\ UNCHANGED statements
        /\ UNCHANGED <<database, program, called, state, before, after, alone>>

Commit(x) == /\ state[x] = "open" /\ called[x] = Len(program[x])
             /\ state' = [state EXCEPT ![x] = "committing"]
             /\ UNCHANGED <<database, program, called, statements, describing, refused, before, after, alone>>

Rollback(x) == /\ state[x] = "open"
               /\ state' = [state EXCEPT ![x] = "rolled back"]
               /\ statements' = [statements EXCEPT ![x] = <<>>]
               /\ UNCHANGED <<database, program, called, describing, refused, before, after, alone>>

-----------------------------------------------------------------------------
\* A column of the new table is defined twice: it cannot be created.
Clashes(s) == s.copied \cap s.added # {}

\* Whether statement s fails on db.  A copied column that is gone does not: SQLite
\* reads a quoted name it does not know as a string.
Fails(db, s) ==
    CASE s.op = "create" -> db[s.table] # None
      [] s.op = "drop" -> db[s.table] = None
      [] s.op = "insert" -> db[s.table] = None \/ ~(s.columns \subseteq db[s.table].columns)
      [] s.op = "rebuild" -> db[s.table] = None \/ Clashes(s)

\* A slip: the rows of the rebuilt table are forgotten.
RowsForgotten(db, s) == {}

\* The rows a rebuild inserts into the new table.
RowsCopied(db, s) == IF db[s.table] = None \/ s.copied = {} THEN {} ELSE db[s.table].rows

\* What statement s does to db; r is the row it inserts.  A rebuild creates the
\* new table, copies the rows, drops the old table and renames the new one, each
\* whether or not the others fail.
Effect(db, s, r) ==
    CASE s.op = "rebuild" ->
           [db EXCEPT ![s.table] = IF Clashes(s) THEN None
                                   ELSE [columns |-> s.copied \cup s.added, rows |-> RowsCopied(db, s)]]
      [] s.op # "rebuild" /\ Fails(db, s) -> db
      [] s.op = "create" /\ ~Fails(db, s) -> [db EXCEPT ![s.table] = [columns |-> s.columns, rows |-> {}]]
      [] s.op = "drop" /\ ~Fails(db, s) -> [db EXCEPT ![s.table] = None]
      [] s.op = "insert" /\ ~Fails(db, s) -> [db EXCEPT ![s.table].rows = @ \cup {r}]

\* A batch on start, statement after statement, and whether one of them failed.
RunAll(x, batch, start) ==
    LET ran[n \in 0 .. Len(batch)] ==
          IF n = 0 THEN [db |-> start, failed |-> FALSE]
          ELSE [db |-> Effect(ran[n - 1].db, batch[n][2], <<x, batch[n][1]>>),
                failed |-> ran[n - 1].failed \/ Fails(ran[n - 1].db, batch[n][2])]
    IN  ran[Len(batch)]

Described(x) == describing[x] = {}

\* The batch: commit() resolves if no statement failed.
RunBatch(x) ==
    LET result == RunAll(x, statements[x], database)
    IN  /\ state[x] = "committing" /\ Described(x) /\ refused[x] = {}
        /\ database' = result.db
        /\ after' = [after EXCEPT ![x] = result.db]
        /\ state' = [state EXCEPT ![x] = IF result.failed THEN "rejected" ELSE "resolved"]
        /\ statements' = [statements EXCEPT ![x] = IF result.failed THEN @ ELSE <<>>]
        /\ alone' = [y \in Trxs |-> alone[y] /\ (y = x \/ state[y] \notin {"open", "committing"})]
        /\ UNCHANGED <<program, called, describing, refused, before>>

\* commit() rejects and runs nothing, as a description was rejected.
Refuse(x) == /\ state[x] = "committing" /\ refused[x] # {}
             /\ state' = [state EXCEPT ![x] = "rejected"]
             /\ UNCHANGED <<database, program, called, statements, describing, refused, before, after, alone>>

Next == \E x \in Trxs : \/ Execute(x) \/ Commit(x) \/ Rollback(x) \/ RunBatch(x) \/ Refuse(x)
                        \/ \E n \in describing[x] : Describe(x, n)

Spec == Init /\ [][Next]_vars
-----------------------------------------------------------------------------
\* The reference: what the calls mean, one after the other.
Meaning(db, call, r) ==
    IF call.op = "alter"
    THEN IF db[call.table] = None THEN db
         ELSE [db EXCEPT ![call.table].columns = (@ \ call.drop) \cup call.add]
    ELSE Effect(db, call, r)

MeaningOf(x, db) ==
    LET meant[n \in 0 .. Len(program[x])] ==
          IF n = 0 THEN db ELSE Meaning(meant[n - 1], program[x][n], <<x, n>>)
    IN  meant[Len(program[x])]

\* No other call of x is about a table that x alters.
Separate(x) == \A m, n \in 1 .. Len(program[x]) :
                   program[x][m].op = "alter" /\ program[x][n].table = program[x][m].table => m = n

\* Every table that x alters keeps a column of those it had.
KeepsColumns(x) == \A n \in 1 .. Len(program[x]) :
    LET call == program[x][n] IN
    call.op = "alter" /\ before[x][call.table] # None => before[x][call.table].columns \ call.drop # {}

Collected(x) == {statements[x][i][1] : i \in DOMAIN statements[x]}

\* Type correctness; every call made is a statement, a description under way or
\* refused, or belongs to the past, and a call is not collected twice; no
\* description is under way once the batch has run.
TypeOK ==
    /\ database \in [Tables -> Table \cup {None}]
    /\ called \in [Trxs -> Nat]
    /\ state \in [Trxs -> {"open", "committing", "rolled back", "resolved", "rejected"}]
    /\ alone \in [Trxs -> BOOLEAN]
    /\ \A x \in Trxs :
          /\ Cardinality(Collected(x)) = Len(statements[x])
          /\ describing[x] \cap (Collected(x) \cup refused[x]) = {} /\ Collected(x) \cap refused[x] = {}
          /\ state[x] \in {"open", "committing"} => describing[x] \cup Collected(x) \cup refused[x] = 1 .. called[x]
          /\ state[x] = "resolved" => describing[x] = {}

\* Types hold, and a transaction that resolves did what its calls mean, if nothing
\* else was committed meanwhile, no table is altered and used by another call, and
\* each keeps a column: the rows of a table that keeps none are lost.
SeparateCallsAreCommitted ==
    TypeOK /\ \A x \in Trxs : state[x] = "resolved" /\ alone[x] /\ Separate(x) /\ KeepsColumns(x)
                        => after[x] = MeaningOf(x, before[x])

\* A resolved transaction leaves every row it found in the tables it did not
\* drop, whatever other transactions did since it described them, if some
\* column of an altered table is kept.
RowsSurvive ==
    [][\A x \in Trxs : \A t \in Tables :
          /\ state[x] = "committing" /\ state'[x] = "resolved"
          /\ database[t] # None
          /\ \A i \in DOMAIN statements[x] :
                statements[x][i][2].table = t =>
                    /\ statements[x][i][2].op # "drop"
                    /\ statements[x][i][2].op = "rebuild" => statements[x][i][2].copied # {}
          => database[t].rows \subseteq database'[t].rows]_vars
=============================================================================
