------------------------------ MODULE Migration ------------------------------
(***************************************************************************)
(* The migrations of the command line: cli/src/lib/migrate.ts reads the    *)
(* schemas and locales that the database shows, compares them with those   *)
(* of the configuration and commits a transaction of what is missing;      *)
(* odm/src/migration.ts has the parts, db-sqlite/src/DatabaseSQLite.ts     *)
(* describes tables and rebuilds the altered ones.  A column is named <<h>>*)
(* or <<h, l>> for the field h or the locale l of it, h__l; an index is    *)
(* named <<c, n>>, for c_n.  The rows are in module TransactionSQLite.     *)
(***************************************************************************)
EXTENDS TypeDefinitions

CONSTANTS Migrators,
          Names,      \* the names of tables
          Letters,    \* the locales whose names are letters: only they are recognised
                Mandatory,  \* the schema of the relations
          Plans,      \* Plans[i][m]: the configurations, [types, locales], m migrates to
          Databases

VARIABLES
    tables,     \* tables[c]: [columns, primary, indexes], or None
    plan,       \* plan[m]: the configurations to come
    state,      \* state[m]: "idle", "reading" or, with every table described, "ready"
    creations,  \* creations[m]: the schemas whose tables are to be created
    alters,     \* alters[m]: the alterations not yet described
    rebuilds,   \* rebuilds[m]: the statements collected for those that are
    result,     \* result[m]: how the last commit went, or None
    stale,      \* history: a batch ran since m read the database
    streak      \* history: the migrations of m to one configuration that resolved, last and alone

collected == <<creations, alters, rebuilds>>
vars == <<tables, plan, state, collected, result, stale, streak>>

Init == /\ tables \in Databases
        /\ plan \in Plans
        /\ state = [m \in Migrators |-> "idle"]
        /\ creations = [m \in Migrators |-> <<>>]
        /\ alters = [m \in Migrators |-> {}]
        /\ rebuilds = [m \in Migrators |-> <<>>]
        /\ result = [m \in Migrators |-> None]
        /\ stale = [m \in Migrators |-> FALSE]
        /\ streak = [m \in Migrators |-> 0]

-----------------------------------------------------------------------------
(* extractSchemaFromDatabase(): a column is a field, or one of its locales. *)
OfLocale(column) == Len(column.name) = 2 /\ column.name[2] \in Letters
FieldOf(column) == IF OfLocale(column) THEN <<column.name[1]>> ELSE column.name

LocalesOf(db) == {column.name[2] : column \in
    {column \in UNION {ToSet(db[c].columns) : c \in {c \in Names : db[c] # None}} : OfLocale(column)}}

\* The type of a field of type t, as a column and as read back from it.
ColumnType(t) == CASE t \in {"int", "boolean"} -> "INTEGER" [] t = "float" -> "REAL" [] OTHER -> "TEXT"
TypeRead(type) == CASE type = "INTEGER" -> "int" [] type = "REAL" -> "float" [] type = "TEXT" -> "string"

\* A table as it is described; each column of the primary key is an index.
Described(db, c) ==
    IF db[c] = None THEN [columns |-> <<>>, indexes |-> {}]
    ELSE [columns |-> db[c].columns,
          indexes |-> db[c].indexes \cup {[handle |-> <<c, k>>, type |-> "primary",
                          fields |-> <<[name |-> k, direction |-> "asc"]>>] : k \in db[c].primary}]

-----------------------------------------------------------------------------
\* computeSchemaDiff(), for a schema whose table exists: of the fields read from it,
\* the first of a name counts.
DiffOf(read, schema) ==
    LET same(f) == SelectSeq(read.columns, LAMBDA column : FieldOf(column) = <<f.name>>)
        handles(indexes) == {x.handle : x \in indexes}
        targets == ToSet(schema.indexes)
        changed == {x \in targets : \E y \in read.indexes :
                       y.handle = x.handle /\ (y.type # x.type \/ ~(ToSet(x.fields) \subseteq ToSet(y.fields)))}
    IN  [add |-> SelectSeq(schema.fields, LAMBDA f : same(f) = <<>>),
         alter |-> {f \in ToSet(schema.fields) : /\ same(f) # <<>>
                       /\ \/ f.localized # OfLocale(same(f)[1])
                          \/ f.type # TypeRead(same(f)[1].type)},
         drop |-> {FieldOf(column) : column \in ToSet(read.columns)} \ {<<f.name>> : f \in ToSet(schema.fields)},
         addIndex |-> {x \in targets : x.handle \notin handles(read.indexes)} \cup changed,
         dropIndex |-> (handles(read.indexes) \ handles(targets)) \cup handles(changed)]

\* A slip: every diff is confirmed.
ConfirmedAll(diff) == diff

\* promptSchemaDiff() confirms no diff that drops data.
Confirmed(diff) == [diff EXCEPT !.drop = {}]

NoDiff == [add |-> <<>>, alter |-> {}, drop |-> {}, addIndex |-> {}, dropIndex |-> {}]

ColumnOf(f) == [name |-> <<f.name>>, type |-> ColumnType(f.type)]

\* A slip: the columns of a locale replace those of the one before.
LocaleColumnsOfLast(schema, locales) ==
    LET fields == SelectSeq(schema.fields, LAMBDA f : f.localized)
    IN  IF locales = <<>> THEN <<>>
        ELSE [j \in DOMAIN fields |-> [name |-> <<fields[j].name, Last(locales)>>, type |-> ColumnType(fields[j].type)]]

\* The columns a new locale adds for a schema, addColumn() for each.
LocaleColumns(schema, locales) ==
    LET fields == SelectSeq(schema.fields, LAMBDA f : f.localized)
    IN  FlattenSeq([i \in DOMAIN locales |-> [j \in DOMAIN fields |->
            [name |-> <<fields[j].name, locales[i]>>, type |-> ColumnType(fields[j].type)]]])

Schemas(config) == LoadCollectionSchemas(MergeAST(config.types))

NewLocales(db, config) == SelectSeq(config.locales, LAMBDA l : l \notin LocalesOf(db))

\* executeDiff(): what is to be altered in the table of a schema.
Alteration(db, schema, locales) ==
    LET diff == IF db[schema.handle] = None THEN NoDiff
                ELSE Confirmed(DiffOf(Described(db, schema.handle), schema))
    IN  [collection |-> schema.handle,
         add |-> [i \in DOMAIN diff.add |-> ColumnOf(diff.add[i])] \o LocaleColumns(schema, locales),
         alter |-> {ColumnOf(f) : f \in diff.alter}, touched |-> diff # NoDiff,
         drop |-> diff.drop, addIndex |-> diff.addIndex, dropIndex |-> diff.dropIndex]

\* The database is read and compared.  The schema of the relations is added to both
\* sides, so that its table is altered if it exists and never created.
Read(m) ==
    /\ state[m] = "idle" /\ plan[m] # <<>>
    /\ LET schemas == Schemas(Head(plan[m]))
           locales == NewLocales(tables, Head(plan[m]))
       IN  /\ creations' = [creations EXCEPT ![m] =
                  SelectSeq(schemas, LAMBDA s : tables[s.handle] = None)]
           /\ alters' = [alters EXCEPT ![m] =
                  {a \in {Alteration(tables, s, locales) : s \in ToSet(schemas) \cup {Mandatory}} :
                      a.touched \/ a.add # <<>>}]
    /\ rebuilds' = [rebuilds EXCEPT ![m] = <<>>]
    /\ state' = [state EXCEPT ![m] = "reading"]
    /\ stale' = [stale EXCEPT ![m] = FALSE]
    /\ UNCHANGED <<tables, plan, result, streak>>

\* The description for an alteration arrives, of the table as it is now.
Describe(m, a) ==
    /\ state[m] = "reading" /\ a \in alters[m]
    /\ rebuilds' = [rebuilds EXCEPT ![m] =
           Append(@, [alter |-> a, read |-> Described(tables, a.collection)])]
    /\ alters' = [alters EXCEPT ![m] = @ \ {a}]
    /\ UNCHANGED <<tables, plan, state, creations, result, stale, streak>>

-----------------------------------------------------------------------------
(* The batch.  Each statement maps [tables, failed].                        *)
Distinct(columns) == \A i, j \in DOMAIN columns : columns[i].name = columns[j].name => i = j

HasColumns(table, names) == names \subseteq {column.name : column \in ToSet(table.columns)}

\* CREATE INDEX for each: a primary one is made like any other.
CreateIndexes(db, c, indexes) ==
    LET ok(x) == /\ db.tables[c] # None /\ HasColumns(db.tables[c], {<<f.name>> : f \in ToSet(x.fields)})
                 /\ \A t \in Names : db.tables[t] # None => \A y \in db.tables[t].indexes : y.handle # x.handle
        made(x) == [handle |-> x.handle, type |-> IF x.type = "unique" THEN "unique" ELSE "sparse",
                    fields |-> [i \in DOMAIN x.fields |->
                        [x.fields[i] EXCEPT !.direction = IF @ = None THEN "asc" ELSE @]]]
    IN  [tables |-> IF \E x \in indexes : ok(x)
                    THEN [db.tables EXCEPT ![c].indexes = @ \cup {made(x) : x \in {x \in indexes : ok(x)}}]
                    ELSE db.tables,
         failed |-> db.failed \/ \E x \in indexes : ~ok(x)]

\* CREATE TABLE, with the primary key, and the other indexes.
Create(db, schema) ==
    LET columns == [i \in DOMAIN schema.fields |-> ColumnOf(schema.fields[i])]
        ok == db.tables[schema.handle] = None /\ Distinct(columns)
        primary == {x \in ToSet(schema.indexes) : x.type = "primary"}
        table == [columns |-> columns, indexes |-> {},
                  primary |-> UNION {{f.name : f \in ToSet(x.fields)} : x \in primary}]
    IN  CreateIndexes([tables |-> IF ok THEN [db.tables EXCEPT ![schema.handle] = table] ELSE db.tables,
                       failed |-> db.failed \/ ~ok],
                      schema.handle, ToSet(schema.indexes) \ primary)


\* The indexes that a rebuild creates again: none of the primary key.
KeptIndexes(r) == {x \in r.read.indexes : x.type # "primary" /\ x.handle \notin r.alter.dropIndex}

\* The columns of the rebuilt table: those read, some with another type, and the new.
ColumnsAfter(r) ==
    LET kept == SelectSeq(r.read.columns, LAMBDA column : column.name \notin r.alter.drop)
    IN  [i \in DOMAIN kept |-> IF \E x \in r.alter.alter : x.name = kept[i].name
                               THEN CHOOSE x \in r.alter.alter : x.name = kept[i].name ELSE kept[i]]
        \o r.alter.add

\* A temporary table is created, filled, and takes the place of the old one, which is
\* dropped whether or not the creation failed.
Rebuild(db, r) ==
    LET c == r.alter.collection
        created == Distinct(ColumnsAfter(r))
        there == db.tables[c] # None
    IN  CreateIndexes([tables |-> [db.tables EXCEPT ![c] = IF ~created THEN None
                                      ELSE [columns |-> ColumnsAfter(r), primary |-> {}, indexes |-> {}]],
                       failed |-> db.failed \/ ~created \/ ~there],
                      c, KeptIndexes(r) \cup r.alter.addIndex)

Batch(m) ==
    FoldLeft(Rebuild, FoldLeft(Create, [tables |-> tables, failed |-> FALSE], creations[m]), rebuilds[m])

\* A table of no columns is refused before anything is run.
Refused(m) == \E i \in DOMAIN rebuilds[m] : ColumnsAfter(rebuilds[m][i]) = <<>>

\* With every table described the batch is run; its errors are reported at the end.
Commit(m) ==
    LET batch == IF Refused(m) THEN [tables |-> tables, failed |-> TRUE] ELSE Batch(m)
        next == Tail(plan[m])
        again == next # <<>> /\ Head(next) = Head(plan[m])
    IN  /\ state[m] = "reading" /\ alters[m] = {}
        /\ tables' = batch.tables
        /\ result' = [result EXCEPT ![m] = IF batch.failed THEN "rejected" ELSE "resolved"]
        /\ state' = [state EXCEPT ![m] = "idle"]
        /\ plan' = [plan EXCEPT ![m] = next]
        /\ stale' = [x \in Migrators |-> x # m]
        /\ streak' = [x \in Migrators |-> IF x = m /\ again /\ ~batch.failed /\ ~stale[m] THEN streak[m] + 1 ELSE 0]
        /\ UNCHANGED collected

Next == \E m \in Migrators : Read(m) \/ Commit(m) \/ \E a \in alters[m] : Describe(m, a)

Spec == Init /\ [][Next]_vars
-----------------------------------------------------------------------------
(* What m's commit is about, and how it ends.                               *)
Commits(m) == state[m] = "reading" /\ state'[m] = "idle"
Target(m) == ToSet(Schemas(Head(plan[m])))
Succeeds(m) == Commits(m) /\ result'[m] = "resolved" /\ ~stale[m]

\* Whatever the order of definitions and extensions, what they declare for a
\* collection is in its schema.
DeclaredIsLoaded == \A m \in Migrators : \A config \in ToSet(plan[m]) : LoadedAsDeclared(config.types)

\* A migration drops a table or a column only if it rejects, because the configuration
\* has a locale that is not recognised or a field twice, or if another migration ran
\* while it did.
NothingIsDropped ==
    [][\A m \in Migrators : Commits(m) /\ ~stale[m] =>
          \A c \in Names : tables[c] # None =>
             \/ tables'[c] # None /\ HasColumns(tables'[c], {column.name : column \in ToSet(tables[c].columns)})
             \/ /\ result'[m] = "rejected"
                /\ \/ \E l \in ToSet(Head(plan[m]).locales) : l \notin Letters
                   \/ \E s \in Target(m) : s.handle = c /\ ~Distinct(s.fields)]_vars

\* A field of which the table has columns of locales only.  Where it is no longer localized,
\* each migration alters a column that is not there, and none adds it.
Stranded(table, f) ==
    LET names == {column.name : column \in {column \in ToSet(table.columns) : FieldOf(column) = <<f.name>>}}
    IN  names # {} /\ <<f.name>> \notin names

\* A migration that resolves alone leaves a column for every field that is not
\* localized, of its type if the table was not new, and for every localized field of
\* every locale it adds; but a table it creates together with a locale has those of
\* the locale alone, and a field that was localized and is not any more gets none.
ColumnsArePresent ==
    [][\A m \in Migrators : Succeeds(m) => \A s \in Target(m) :
          LET added == ToSet(NewLocales(tables, Head(plan[m])))
              localized == {f \in ToSet(s.fields) : f.localized}
              stranded == {f \in ToSet(s.fields) : tables[s.handle] # None /\ Stranded(tables[s.handle], f)}
          IN  /\ tables'[s.handle] # None
              /\ HasColumns(tables'[s.handle], {<<f.name, l>> : f \in localized, l \in added})
              /\ tables[s.handle] # None \/ localized = {} \/ added = {} =>
                    {ColumnOf(f) : f \in ToSet(s.fields) \ (localized \cup stranded)}
                        \subseteq ToSet(tables'[s.handle].columns)]_vars

=============================================================================
