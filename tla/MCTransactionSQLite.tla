------------------------ MODULE MCTransactionSQLite ------------------------
(* Two transactions of up to two calls, on a table that exists and on one that *)
(* may not.                                                                    *)
EXTENDS TransactionSQLite, TLC

CONSTANTS post, event, id, title, locale

MCTables == {post, event}
MCColumns == {id, title, locale}

Create == [op |-> "create", table |-> event, columns |-> {id, title}]
Insert(t, c) == [op |-> "insert", table |-> t, columns |-> c]
Alter(t, add, drop) == [op |-> "alter", table |-> t, add |-> add, drop |-> drop]
Drop(t) == [op |-> "drop", table |-> t]

AlterPost == Alter(post, {locale}, {})
AlterEvent == Alter(event, {locale}, {title})

MCPrograms == {<<>>, <<Insert(post, {id})>>, <<AlterEvent>>,
               <<Create, Insert(event, {id, locale})>>, <<Create, AlterEvent>>,
               <<AlterPost, Insert(post, {id, locale})>>, <<AlterPost, Drop(event)>>,
               <<Alter(post, {}, {title}), Create>>, <<Alter(post, {}, {id, title})>>, <<Alter(post, {locale}, {id, title})>>, <<Alter(post, {}, {title}), AlterPost>>}

Filled(c) == [columns |-> c, rows |-> {<<Stored, 0>>}]
MCDatabases == {post :> Filled({id, title}) @@ event :> e : e \in {None, Filled({id, title})}}
=============================================================================
