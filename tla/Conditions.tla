------------------------------ MODULE Conditions ------------------------------
(***************************************************************************)
(* The conditions of a query: db/src/Query.ts builds them as trees, a      *)
(* Binary over operands that are Comparisons or Binaries; odm replaces the *)
(* fields by columns, with the replaceField of db/src/Utils.ts;            *)
(* db-sqlite/src/DatabaseSQLite.ts writes them as SQL with a "?" for every *)
(* value, and the values in a list beside it.  A tree is                   *)
(*   [op : {"and", "or", "xor"}, args : a sequence of trees]        or     *)
(*   [op : Comparisons, field, values : a sequence of values].             *)
(***************************************************************************)
EXTENDS Naturals, Sequences, SequencesExt

Binaries == {"and", "or", "xor"}
Comparisons == {"=", "!=", ">", ">=", "<", "<=", "beginsWith", "in"}

RECURSIVE Replaced(_, _), Converted(_), Slots(_), Truth(_, _, _), Holds(_, _)

\* Every field that map knows is replaced, at any depth.
Replaced(tree, map) ==
    IF tree.op \in Binaries
    THEN [tree EXCEPT !.args = [i \in DOMAIN @ |-> Replaced(@[i], map)]]
    ELSE [tree EXCEPT !.field = IF @ \in DOMAIN map THEN map[@] ELSE @]

\* The SQL, which has only slots, and the values for them in the order they are met.
Converted(tree) ==
    IF tree.op \in Binaries
    THEN LET parts == [i \in DOMAIN tree.args |-> Converted(tree.args[i])]
         IN  [sql |-> [op |-> tree.op, args |-> [i \in DOMAIN parts |-> parts[i].sql]],
              params |-> FoldLeft(LAMBDA all, part : all \o part.params, <<>>, parts)]
    ELSE [sql |-> [op |-> tree.op, column |-> tree.field, slots |-> Len(tree.values)],
          params |-> tree.values]

\* What the connectives mean, for SQL and for the reference.
Connect(op, truths) ==
    CASE op = "and" -> \A i \in DOMAIN truths : truths[i]
      [] op = "or" -> \E i \in DOMAIN truths : truths[i]

Compare(op, value, values) ==
    CASE op = "=" -> value = values[1]
      [] op = "!=" -> value # values[1]
      [] op = ">" -> value > values[1]
      [] op = ">=" -> value >= values[1]
      [] op = "<" -> value < values[1]
      [] op = "<=" -> value <= values[1]
      [] op = "in" -> \E i \in DOMAIN values : value = values[i]

-----------------------------------------------------------------------------
\* SQLite: the slots are bound to the values in the order of the text.
Slots(sql) == IF sql.op \in Binaries
              THEN FoldLeft(LAMBDA n, arg : n + Slots(arg), 0, sql.args)
              ELSE sql.slots

Truth(sql, params, row) ==
    IF sql.op \in Binaries
    THEN LET before(i) == FoldLeft(LAMBDA n, arg : n + Slots(arg), 0, SubSeq(sql.args, 1, i - 1))
         IN  Connect(sql.op, [i \in DOMAIN sql.args |->
                 Truth(sql.args[i], SubSeq(params, before(i) + 1, Len(params)), row)])
    ELSE Compare(sql.op, row[sql.column], SubSeq(params, 1, sql.slots))

\* A statement is refused if it names a column the row does not have, or uses XOR
\* or BEGINSWITH, which SQLite's grammar does not have.
RECURSIVE Accepted(_, _)
Accepted(sql, columns) ==
    IF sql.op \in Binaries
    THEN sql.op # "xor" /\ \A i \in DOMAIN sql.args : Accepted(sql.args[i], columns)
    ELSE sql.op # "beginsWith" /\ sql.column \in columns
-----------------------------------------------------------------------------
\* The reference: what a tree says of a record.
Holds(tree, record) ==
    IF tree.op \in Binaries
    THEN Connect(tree.op, [i \in DOMAIN tree.args |-> Holds(tree.args[i], record)])
    ELSE Compare(tree.op, record[tree.field], tree.values)
=============================================================================
