----------------------- MODULE TransactionSQLiteProofs -----------------------
(* What a transaction does to a SQLite database, for every number of them, of  *)
(* their calls, of tables and of columns.                                      *)
EXTENDS TransactionSQLite, FiniteSetTheorems, SequenceTheorems, WellFoundedInduction, TLAPS

Database == [Tables -> Table \cup {None}]

\* What commit() may run.
Statement == [op : {"insert", "create"}, table : Tables, columns : SUBSET Columns \ {{}}]
             \cup [op : {"drop"}, table : Tables]
             \cup [op : {"rebuild"}, table : Tables, copied : SUBSET Columns, added : SUBSET Columns]

Active(x) == state[x] \in {"open", "committing"}

Typed ==
    /\ database \in Database
    /\ program \in [Trxs -> Seq(Op)]
    /\ called \in [Trxs -> Nat] /\ \A x \in Trxs : called[x] <= Len(program[x])
    /\ statements \in [Trxs -> Seq(Nat \X Statement)]
    /\ describing \in [Trxs -> SUBSET Nat] /\ refused \in [Trxs -> SUBSET Nat]
    /\ state \in [Trxs -> {"open", "committing", "rolled back", "resolved", "rejected"}]
    /\ before \in [Trxs -> Database] /\ after \in [Trxs -> Database]
    /\ alone \in [Trxs -> BOOLEAN]

\* The statement that a call leads to: itself, or the rebuild of what it alters.
Stands(s, call) ==
    IF call.op = "alter" THEN s.op = "rebuild" /\ s.table = call.table /\ s.added = call.add
                         ELSE s = call

\* A list of statements for the calls of prog up to n: each once, in the order of
\* the calls but for the rebuilds.
Lists(batch, prog, n) ==
    /\ \A i \in DOMAIN batch : batch[i][1] \in 1 .. n /\ Stands(batch[i][2], prog[batch[i][1]])
    /\ \A i, j \in DOMAIN batch : batch[i][1] = batch[j][1] => i = j
    /\ \A i, j \in DOMAIN batch : i < j /\ batch[i][2].op # "rebuild" /\ batch[j][2].op # "rebuild"
                                  => batch[i][1] < batch[j][1]

Gathered(x) ==
    /\ Lists(statements[x], program[x], called[x])
    /\ \A n \in describing[x] : n \in 1 .. called[x] /\ program[x][n].op = "alter"
    /\ refused[x] \subseteq 1 .. called[x]
    /\ describing[x] \cap (Collected(x) \cup refused[x]) = {} /\ Collected(x) \cap refused[x] = {}
    /\ Active(x) => describing[x] \cup Collected(x) \cup refused[x] = 1 .. called[x]
    /\ state[x] = "committing" => called[x] = Len(program[x])
    /\ state[x] = "resolved" => describing[x] = {}

\* A transaction that is alone finds the tables as it described them.
Copies(batch, prog, db) ==
    \A i \in DOMAIN batch : batch[i][2].op = "rebuild" =>
        batch[i][2].copied = Copied(ColumnsOf(db, batch[i][2].table), prog[batch[i][1]])

Fresh(x) == alone[x] /\ Active(x) => before[x] = database /\ Copies(statements[x], program[x], database)

Meant(x) == state[x] = "resolved" /\ alone[x] /\ Separate(x) /\ KeepsColumns(x)
                => after[x] = MeaningOf(x, before[x])

Inv == Typed /\ \A x \in Trxs : Gathered(x) /\ Fresh(x) /\ Meant(x)

-----------------------------------------------------------------------------
\* A statement changes its table only, and looks at no other.
LEMMA OpIs ==
    ASSUME NEW s \in Statement
    PROVE  /\ s.op \in {"insert", "create", "drop", "rebuild"} /\ s.table \in Tables
           /\ s.op \in {"insert", "create"} => s.columns \subseteq Columns
           /\ s.op = "rebuild" => s.copied \subseteq Columns /\ s.added \subseteq Columns
BY DEF Statement

LEMMA InsertIs ==
    ASSUME NEW db \in Database, NEW s \in Statement, NEW r \in Rows, s.op = "insert", ~Fails(db, s)
    PROVE  /\ Effect(db, s, r) \in Database /\ db[s.table] \in Table
           /\ Effect(db, s, r)[s.table] = [columns |-> db[s.table].columns, rows |-> db[s.table].rows \cup {r}]
           /\ \A t \in Tables : t # s.table => Effect(db, s, r)[t] = db[t]
<1> DEFINE v == [columns |-> db[s.table].columns, rows |-> db[s.table].rows \cup {r}]
<1>1. s.table \in Tables /\ db[s.table] \in Table
  BY OpIs DEF Fails, Database
<1>2. Effect(db, s, r) = [db EXCEPT ![s.table].rows = @ \cup {r}]
  BY DEF Effect
<1>3. \A u \in Table : u.columns \subseteq Columns /\ u.rows \subseteq Rows /\ u = [columns |-> u.columns, rows |-> u.rows]
  BY DEF Table
<1>4. v \in Table /\ [db[s.table] EXCEPT !.rows = @ \cup {r}] = v
  BY <1>1, <1>3 DEF Table
<1>5. Effect(db, s, r) = [db EXCEPT ![s.table] = v]
  BY <1>2, <1>4
<1> HIDE DEF v
<1>6. /\ Effect(db, s, r) \in Database /\ Effect(db, s, r)[s.table] = v
      /\ \A t \in Tables : t # s.table => Effect(db, s, r)[t] = db[t]
  BY <1>1, <1>4, <1>5 DEF Database
<1>7. QED BY <1>1, <1>6 DEF v

LEMMA EffectIs ==
    ASSUME NEW db \in Database, NEW s \in Statement, NEW r \in Rows
    PROVE  /\ Effect(db, s, r) \in Database
           /\ \A t \in Tables : t # s.table => Effect(db, s, r)[t] = db[t]
           /\ s.op = "create" /\ ~Fails(db, s) => Effect(db, s, r)[s.table] = [columns |-> s.columns, rows |-> {}]
           /\ s.op = "drop" /\ ~Fails(db, s) => Effect(db, s, r)[s.table] = None
           /\ s.op = "insert" /\ ~Fails(db, s) =>
                  /\ db[s.table] \in Table
                  /\ Effect(db, s, r)[s.table] = [columns |-> db[s.table].columns, rows |-> db[s.table].rows \cup {r}]
           /\ s.op = "rebuild" /\ ~Fails(db, s) =>
                  /\ db[s.table] \in Table
                  /\ Effect(db, s, r)[s.table] = [columns |-> s.copied \cup s.added, rows |-> RowsCopied(db, s)]
           /\ s.op # "rebuild" /\ Fails(db, s) => Effect(db, s, r) = db
<1>1. /\ s.op \in {"insert", "create", "drop", "rebuild"} /\ s.table \in Tables
      /\ s.op \in {"insert", "create"} => s.columns \subseteq Columns
      /\ s.op = "rebuild" => s.copied \subseteq Columns /\ s.added \subseteq Columns
  BY OpIs
<1>2. \A t \in Tables : db[t] \in Table \cup {None}
  BY DEF Database
<1>3. \A v \in Table : v.columns \subseteq Columns /\ v.rows \subseteq Rows /\ v = [columns |-> v.columns, rows |-> v.rows]
  BY DEF Table
<1>4. CASE s.op = "rebuild"
  <2> DEFINE v == IF Clashes(s) THEN None ELSE [columns |-> s.copied \cup s.added, rows |-> RowsCopied(db, s)]
  <2>1. RowsCopied(db, s) \subseteq Rows
    BY <1>1, <1>2, <1>3 DEF RowsCopied
  <2>2. v \in Table \cup {None}
    BY <1>1, <1>4, <2>1 DEF Table
  <2>3. Effect(db, s, r) = [db EXCEPT ![s.table] = v]
    BY <1>4 DEF Effect
  <2>4. ~Fails(db, s) => db[s.table] # None /\ ~Clashes(s)
    BY <1>4 DEF Fails
  <2>5. ~Fails(db, s) => v = [columns |-> s.copied \cup s.added, rows |-> RowsCopied(db, s)]
    BY <2>4
  <2> HIDE DEF v
  <2>6. Effect(db, s, r) \in Database /\ Effect(db, s, r)[s.table] = v
        /\ \A t \in Tables : t # s.table => Effect(db, s, r)[t] = db[t]
    BY <1>1, <2>2, <2>3 DEF Database
  <2>7. QED BY <1>1, <1>2, <1>4, <2>4, <2>5, <2>6
<1>5. CASE s.op # "rebuild" /\ Fails(db, s)
  BY <1>5 DEF Effect
<1>6. CASE s.op = "create" /\ ~Fails(db, s)
  <2>1. Effect(db, s, r) = [db EXCEPT ![s.table] = [columns |-> s.columns, rows |-> {}]]
    BY <1>6 DEF Effect
  <2>2. [columns |-> s.columns, rows |-> {}] \in Table
    BY <1>1, <1>6 DEF Table
  <2>3. QED BY <1>1, <1>6, <2>1, <2>2 DEF Database
<1>7. CASE s.op = "drop" /\ ~Fails(db, s)
  <2>1. Effect(db, s, r) = [db EXCEPT ![s.table] = None]
    BY <1>7 DEF Effect
  <2>2. QED BY <1>1, <1>7, <2>1 DEF Database
<1>8. CASE s.op = "insert" /\ ~Fails(db, s)
  BY <1>8, InsertIs
<1>9. QED BY <1>1, <1>4, <1>5, <1>6, <1>7, <1>8

-----------------------------------------------------------------------------
LEMMA LeastIndex ==
    ASSUME NEW T, T \subseteq Nat, T # {}
    PROVE  \E i \in T : \A j \in T : ~ j < i
<1>1. PICK i \in T : \A j \in T : ~ (<<j, i>> \in OpToRel(<, Nat))
  BY NatLessThanWellFounded, WFMin
<1>2. ASSUME NEW j \in T, j < i PROVE FALSE
  <2>1. <<j, i>> \in OpToRel(<, Nat)
    BY <1>2 DEF OpToRel
  <2>2. QED BY <1>1, <2>1
<1>3. QED BY <1>2

\* ran[n] of RunAll, once n statements were run.
Ran(g, x, batch, start, n) ==
    IF n = 0 THEN [db |-> start, failed |-> FALSE]
    ELSE [db |-> Effect(g[n - 1].db, batch[n][2], <<x, batch[n][1]>>),
          failed |-> g[n - 1].failed \/ Fails(g[n - 1].db, batch[n][2])]
IsRun(g, x, batch, start, m) == g = [n \in 0 .. m |-> Ran(g, x, batch, start, n)]

LEMMA RunExists ==
    ASSUME NEW x, NEW batch, NEW start, NEW m \in Nat
    PROVE  \E g : IsRun(g, x, batch, start, m)
<1> DEFINE Lacks(i) == ~ \E g : IsRun(g, x, batch, start, i)
<1> SUFFICES ASSUME {i \in Nat : Lacks(i)} # {} PROVE FALSE
  OBVIOUS
<1>1. PICK i \in {n \in Nat : Lacks(n)} : \A j \in {n \in Nat : Lacks(n)} : ~ j < i
  BY LeastIndex
<1>2. i \in Nat /\ Lacks(i) /\ \A j \in Nat : j < i => ~Lacks(j)
  BY <1>1
<1>3. CASE i = 0
  <2>1. IsRun([n \in 0 .. 0 |-> [db |-> start, failed |-> FALSE]], x, batch, start, 0)
    BY DEF IsRun, Ran
  <2>2. QED BY <1>2, <1>3, <2>1
<1>4. CASE i # 0
  <2>1. i - 1 \in Nat /\ i - 1 < i
    BY <1>2, <1>4
  <2>2. PICK g : IsRun(g, x, batch, start, i - 1)
    BY <1>2, <2>1
  <2> DEFINE h == [n \in 0 .. i |-> IF n = i THEN Ran(g, x, batch, start, i) ELSE g[n]]
  <2>3. \A n \in 0 .. i - 1 : g[n] = Ran(g, x, batch, start, n)
    BY <2>2 DEF IsRun
  <2>4. \A n \in 0 .. i : n # 0 => h[n - 1] = g[n - 1]
    BY <1>2
  <2>5. \A n \in 0 .. i : h[n] = Ran(g, x, batch, start, n)
    BY <1>2, <2>3
  <2>6. \A n \in 0 .. i : Ran(h, x, batch, start, n) = Ran(g, x, batch, start, n)
    BY <2>4 DEF Ran
  <2>7. h = [n \in 0 .. i |-> Ran(h, x, batch, start, n)]
    BY <2>5, <2>6
  <2>8. QED BY <1>2, <2>7 DEF IsRun
<1>5. QED BY <1>3, <1>4

LEMMA OutcomeIs == ASSUME NEW v, NEW a, NEW b, v = [db |-> a, failed |-> b] PROVE v.failed = b
OBVIOUS

\* d[n] is the database once n statements were run, none of which failed.
Course(d, x, batch, start) ==
    /\ d[0] = start
    /\ \A n \in 1 .. Len(batch) : /\ ~Fails(d[n - 1], batch[n][2])
                                  /\ d[n] = Effect(d[n - 1], batch[n][2], <<x, batch[n][1]>>)
    /\ \A n \in 0 .. Len(batch) : d[n] \in Database

\* A batch leads from database to database; one that did not fail has a course.
LEMMA RunIs ==
    ASSUME NEW x \in Trxs, NEW batch \in Seq(Nat \X Statement), NEW start \in Database
    PROVE  /\ RunAll(x, batch, start).db \in Database
           /\ ~RunAll(x, batch, start).failed =>
                 \E d : Course(d, x, batch, start) /\ RunAll(x, batch, start).db = d[Len(batch)]
<1> DEFINE m == Len(batch)
           g == CHOOSE f : IsRun(f, x, batch, start, m)
<1>1. m \in Nat /\ \A n \in 1 .. m : batch[n] \in Nat \X Statement
  BY LenProperties, ElementOfSeq
<1>2. RunAll(x, batch, start) = g[m]
  BY DEF RunAll, IsRun, Ran
<1>3. IsRun(g, x, batch, start, m)
  BY <1>1, RunExists
<1> HIDE DEF g
<1>4. \A n \in 0 .. m : g[n] = Ran(g, x, batch, start, n)
  BY <1>3 DEF IsRun
<1>5. 0 \in 0 .. m /\ \A n \in 1 .. m : n \in 0 .. m /\ n - 1 \in 0 .. m /\ n # 0
  BY <1>1
<1>6. g[0] = [db |-> start, failed |-> FALSE]
  BY <1>4, <1>5 DEF Ran
<1>7. ASSUME NEW n \in 1 .. m
      PROVE  /\ g[n].db = Effect(g[n - 1].db, batch[n][2], <<x, batch[n][1]>>)
             /\ ~ g[n].failed => ~ g[n - 1].failed /\ ~Fails(g[n - 1].db, batch[n][2])
  <2>1. g[n] = [db |-> Effect(g[n - 1].db, batch[n][2], <<x, batch[n][1]>>),
                failed |-> g[n - 1].failed \/ Fails(g[n - 1].db, batch[n][2])]
    BY <1>4, <1>5 DEF Ran
  <2>2. g[n].db = Effect(g[n - 1].db, batch[n][2], <<x, batch[n][1]>>)
    BY <2>1
  <2>3. g[n].failed = (g[n - 1].failed \/ Fails(g[n - 1].db, batch[n][2]))
    BY <2>1, OutcomeIs, Zenon
  <2>4. QED BY <2>2, <2>3, Zenon
<1>8. \A n \in 0 .. m : g[n].db \in Database
  <2> DEFINE bad == {n \in 0 .. m : g[n].db \notin Database}
  <2> SUFFICES ASSUME bad # {} PROVE FALSE
    OBVIOUS
  <2>1. bad \subseteq Nat
    BY <1>1
  <2>2. PICK n \in bad : \A j \in bad : ~ j < n
    BY <2>1, LeastIndex
  <2>3. n \in 1 .. m /\ n - 1 \in 0 .. m /\ n - 1 < n
    BY <1>1, <1>6, <2>2
  <2>4. g[n - 1].db \in Database
    BY <2>2, <2>3
  <2>5. batch[n][2] \in Statement /\ <<x, batch[n][1]>> \in Rows
    BY <1>1, <2>3 DEF Rows
  <2>6. Effect(g[n - 1].db, batch[n][2], <<x, batch[n][1]>>) \in Database
    BY <2>4, <2>5, EffectIs, Zenon
  <2>7. QED BY <1>7, <2>2, <2>3, <2>6
<1>9. ASSUME ~ g[m].failed PROVE \A n \in 0 .. m : ~ g[n].failed
  <2> DEFINE bad == {k \in Nat : k <= m /\ g[m - k].failed}
  <2>1. bad = {}
    <3> SUFFICES ASSUME bad # {} PROVE FALSE
      OBVIOUS
    <3>1. bad \subseteq Nat
      OBVIOUS
    <3>2. PICK k \in bad : \A j \in bad : ~ j < k
      BY <3>1, LeastIndex
    <3>3. k # 0
      BY <1>1, <1>9, <3>2
    <3>4. k - 1 \in Nat /\ k - 1 <= m /\ k - 1 < k /\ m - (k - 1) \in 1 .. m /\ (m - (k - 1)) - 1 = m - k
      BY <1>1, <3>2, <3>3, SMTT(30)
    <3>5. ~ g[m - (k - 1)].failed
      BY <3>2, <3>4
    <3>6. ~ g[(m - (k - 1)) - 1].failed
      BY <1>7, <3>4, <3>5, Zenon
    <3>7. QED BY <3>2, <3>4, <3>6, Zenon
  <2>2. ASSUME NEW n \in 0 .. m, g[n].failed PROVE FALSE
    <3>1. m - n \in Nat /\ m - n <= m /\ m - (m - n) = n
      BY <1>1
    <3>2. m - n \in bad
      BY <2>2, <3>1
    <3>3. QED BY <2>1, <3>2
  <2>3. QED BY <2>2
<1>10. ASSUME ~ g[m].failed PROVE \E d : Course(d, x, batch, start) /\ g[m].db = d[m]
  <2> DEFINE d == [n \in 0 .. m |-> g[n].db]
  <2>1. d[0] = start /\ d[m] = g[m].db
    BY <1>1, <1>5, <1>6
  <2>2. \A n \in 0 .. m : d[n] \in Database
    BY <1>8
  <2>3. ASSUME NEW n \in 1 .. m
        PROVE  ~Fails(d[n - 1], batch[n][2]) /\ d[n] = Effect(d[n - 1], batch[n][2], <<x, batch[n][1]>>)
    <3>1. d[n - 1] = g[n - 1].db /\ d[n] = g[n].db
      BY <1>5
    <3>2. ~ g[n].failed
      BY <1>5, <1>9, <1>10, Zenon
    <3>3. ~Fails(g[n - 1].db, batch[n][2])
      BY <1>7, <3>2, Zenon
    <3>4. QED BY <1>7, <3>1, <3>3
  <2>4. Course(d, x, batch, start)
    BY <2>1, <2>2, <2>3 DEF Course
  <2>5. QED BY <2>1, <2>4
<1>11. m \in 0 .. m
  BY <1>1
<1>12. QED BY <1>2, <1>8, <1>10, <1>11

-----------------------------------------------------------------------------
\* What a call means, likewise.
LEMMA EffectElsewhere ==
    ASSUME NEW db \in Database, NEW s \in Statement, NEW r \in Rows, NEW t \in Tables, t # s.table
    PROVE  Effect(db, s, r)[t] = db[t]
<1>1. Effect(db, s, r) \in Database /\ \A u \in Tables : u # s.table => Effect(db, s, r)[u] = db[u]
  BY EffectIs, Zenon
<1>2. QED BY <1>1

LEMMA EffectLocal ==
    ASSUME NEW d \in Database, NEW e \in Database, NEW s \in Statement, NEW r \in Rows, s.op # "rebuild",
           d[s.table] = e[s.table]
    PROVE  Effect(d, s, r)[s.table] = Effect(e, s, r)[s.table]
<1>1. s.op \in {"insert", "create", "drop"} /\ s.table \in Tables
  BY OpIs
<1>2. Fails(d, s) <=> Fails(e, s)
  BY <1>1 DEF Fails
<1>3. CASE Fails(d, s)
  <2>1. Effect(d, s, r) = d /\ Effect(e, s, r) = e
    BY <1>2, <1>3, EffectIs, ZenonT(60)
  <2>2. QED BY <2>1
<1>4. CASE s.op = "create" /\ ~Fails(d, s)
  <2>1. ~Fails(e, s)
    BY <1>2, <1>4
  <2>2. Effect(d, s, r)[s.table] = [columns |-> s.columns, rows |-> {}]
    BY <1>4, EffectIs, ZenonT(60)
  <2>3. Effect(e, s, r)[s.table] = [columns |-> s.columns, rows |-> {}]
    BY <1>4, <2>1, EffectIs
  <2>4. QED BY <2>2, <2>3
<1>5. CASE s.op = "drop" /\ ~Fails(d, s)
  <2>1. ~Fails(e, s)
    BY <1>2, <1>5
  <2>2. Effect(d, s, r)[s.table] = None
    BY <1>5, EffectIs, ZenonT(60)
  <2>3. Effect(e, s, r)[s.table] = None
    BY <1>5, <2>1, EffectIs
  <2>4. QED BY <2>2, <2>3
<1>6. CASE s.op = "insert" /\ ~Fails(d, s)
  <2>1. ~Fails(e, s)
    BY <1>2, <1>6
  <2>2. Effect(d, s, r)[s.table] = [columns |-> d[s.table].columns, rows |-> d[s.table].rows \cup {r}]
    BY <1>6, InsertIs, ZenonT(40)
  <2>3. Effect(e, s, r)[s.table] = [columns |-> e[s.table].columns, rows |-> e[s.table].rows \cup {r}]
    BY <1>6, <2>1, InsertIs, Zenon
  <2>4. QED BY <2>2, <2>3
<1>7. QED BY <1>1, <1>3, <1>4, <1>5, <1>6

LEMMA CallIs ==
    ASSUME NEW call \in Op
    PROVE  /\ call.table \in Tables
           /\ call.op # "alter" => call \in Statement /\ call.op # "rebuild"
           /\ call.op = "alter" => call.add \subseteq Columns /\ call.drop \subseteq Columns
BY DEF Op, Statement

LEMMA MeaningIs ==
    ASSUME NEW db \in Database, NEW call \in Op, NEW r \in Rows
    PROVE  /\ Meaning(db, call, r) \in Database
           /\ \A t \in Tables : t # call.table => Meaning(db, call, r)[t] = db[t]
           /\ call.op = "alter" /\ db[call.table] \in Table =>
                 Meaning(db, call, r)[call.table] =
                    [columns |-> (db[call.table].columns \ call.drop) \cup call.add, rows |-> db[call.table].rows]
<1>1. /\ call.table \in Tables
      /\ call.op # "alter" => call \in Statement
      /\ call.op = "alter" => call.add \subseteq Columns /\ call.drop \subseteq Columns
  BY CallIs
<1>2. CASE call.op # "alter"
  <2>1. Meaning(db, call, r) = Effect(db, call, r)
    BY <1>2 DEF Meaning
  <2>2. Effect(db, call, r) \in Database /\ \A t \in Tables : t # call.table => Effect(db, call, r)[t] = db[t]
    BY <1>1, <1>2, EffectIs, Zenon
  <2>3. QED BY <1>2, <2>1, <2>2
<1>3. CASE call.op = "alter" /\ db[call.table] = None
  BY <1>3, SQLiteAssumption DEF Meaning
<1>4. CASE call.op = "alter" /\ db[call.table] # None
  <2> DEFINE v == [columns |-> (db[call.table].columns \ call.drop) \cup call.add, rows |-> db[call.table].rows]
  <2>1. db[call.table] \in Table
    BY <1>1, <1>4 DEF Database
  <2>2. v \in Table
    BY <1>1, <1>4, <2>1 DEF Table
  <2>3. [db[call.table] EXCEPT !.columns = (@ \ call.drop) \cup call.add] = v
    <3>1. \A u \in Table : u = [columns |-> u.columns, rows |-> u.rows]
      BY DEF Table
    <3>2. QED BY <2>1, <3>1, SMTT(30) DEF Table
  <2>4. Meaning(db, call, r) = [db EXCEPT ![call.table] = v]
    BY <1>4, <2>3 DEF Meaning
  <2> HIDE DEF v
  <2>5. /\ Meaning(db, call, r) \in Database /\ Meaning(db, call, r)[call.table] = v
        /\ \A t \in Tables : t # call.table => Meaning(db, call, r)[t] = db[t]
    BY <1>1, <2>2, <2>4 DEF Database
  <2>6. QED BY <2>5 DEF v
<1>5. QED BY <1>2, <1>3, <1>4

\* meant[n] of MeaningOf, once n calls were made.
Made(g, x, prog, start, n) == IF n = 0 THEN start ELSE Meaning(g[n - 1], prog[n], <<x, n>>)
IsMade(g, x, prog, start, m) == g = [n \in 0 .. m |-> Made(g, x, prog, start, n)]

LEMMA MadeExists ==
    ASSUME NEW x, NEW prog, NEW start, NEW m \in Nat
    PROVE  \E g : IsMade(g, x, prog, start, m)
<1> DEFINE Lacks(i) == ~ \E g : IsMade(g, x, prog, start, i)
<1> SUFFICES ASSUME {i \in Nat : Lacks(i)} # {} PROVE FALSE
  OBVIOUS
<1>1. PICK i \in {n \in Nat : Lacks(n)} : \A j \in {n \in Nat : Lacks(n)} : ~ j < i
  BY LeastIndex
<1>2. i \in Nat /\ Lacks(i) /\ \A j \in Nat : j < i => ~Lacks(j)
  BY <1>1
<1>3. CASE i = 0
  <2>1. IsMade([n \in 0 .. 0 |-> start], x, prog, start, 0)
    BY DEF IsMade, Made
  <2>2. QED BY <1>2, <1>3, <2>1
<1>4. CASE i # 0
  <2>1. i - 1 \in Nat /\ i - 1 < i
    BY <1>2, <1>4
  <2>2. PICK g : IsMade(g, x, prog, start, i - 1)
    BY <1>2, <2>1
  <2> DEFINE h == [n \in 0 .. i |-> IF n = i THEN Made(g, x, prog, start, i) ELSE g[n]]
  <2>3. \A n \in 0 .. i - 1 : g[n] = Made(g, x, prog, start, n)
    BY <2>2 DEF IsMade
  <2>4. \A n \in 0 .. i : n # 0 => h[n - 1] = g[n - 1]
    BY <1>2
  <2>5. \A n \in 0 .. i : h[n] = Made(g, x, prog, start, n)
    BY <1>2, <2>3
  <2>6. \A n \in 0 .. i : Made(h, x, prog, start, n) = Made(g, x, prog, start, n)
    BY <2>4 DEF Made
  <2>7. h = [n \in 0 .. i |-> Made(h, x, prog, start, n)]
    BY <2>5, <2>6
  <2>8. QED BY <1>2, <2>7 DEF IsMade
<1>5. QED BY <1>3, <1>4

\* e[n] is the database that n calls are to leave.
Calls(e, x, prog, start) ==
    /\ e[0] = start
    /\ \A n \in 1 .. Len(prog) : e[n] = Meaning(e[n - 1], prog[n], <<x, n>>)
    /\ \A n \in 0 .. Len(prog) : e[n] \in Database

LEMMA MeaningOfIs ==
    ASSUME NEW x \in Trxs, program[x] \in Seq(Op), NEW start \in Database
    PROVE  \E e : Calls(e, x, program[x], start) /\ MeaningOf(x, start) = e[Len(program[x])]
<1> DEFINE prog == program[x]
           m == Len(prog)
           g == CHOOSE f : IsMade(f, x, prog, start, m)
<1>1. m \in Nat /\ \A n \in 1 .. m : prog[n] \in Op
  BY LenProperties, ElementOfSeq
<1>2. MeaningOf(x, start) = g[m]
  BY DEF MeaningOf, IsMade, Made
<1>3. IsMade(g, x, prog, start, m)
  BY <1>1, MadeExists
<1> HIDE DEF g
<1>4. \A n \in 0 .. m : g[n] = Made(g, x, prog, start, n)
  BY <1>3 DEF IsMade
<1>5. 0 \in 0 .. m /\ \A n \in 1 .. m : n \in 0 .. m /\ n - 1 \in 0 .. m /\ n # 0
  BY <1>1
<1>6. g[0] = start
  BY <1>4, <1>5 DEF Made
<1>7. \A n \in 1 .. m : g[n] = Meaning(g[n - 1], prog[n], <<x, n>>)
  BY <1>4, <1>5 DEF Made
<1>8. \A n \in 0 .. m : g[n] \in Database
  <2> DEFINE bad == {n \in 0 .. m : g[n] \notin Database}
  <2> SUFFICES ASSUME bad # {} PROVE FALSE
    OBVIOUS
  <2>1. bad \subseteq Nat
    BY <1>1
  <2>2. PICK n \in bad : \A j \in bad : ~ j < n
    BY <2>1, LeastIndex
  <2>3. n \in 1 .. m /\ n - 1 \in 0 .. m /\ n - 1 < n
    BY <1>1, <1>6, <2>2
  <2>4. g[n - 1] \in Database /\ prog[n] \in Op /\ <<x, n>> \in Rows
    BY <1>1, <2>2, <2>3 DEF Rows
  <2>5. Meaning(g[n - 1], prog[n], <<x, n>>) \in Database
    BY <2>4, MeaningIs, Zenon
  <2>6. QED BY <1>7, <2>2, <2>3, <2>5
<1>9. Calls(g, x, prog, start)
  BY <1>6, <1>7, <1>8 DEF Calls
<1>10. QED BY <1>2, <1>9

-----------------------------------------------------------------------------
\* The calls of prog, and the statements of a batch that are for all of them, in
\* another order where they rebuild a table.
AltersApart(prog) == \A m, n \in 1 .. Len(prog) :
    prog[m].op = "alter" /\ prog[n].table = prog[m].table => m = n
AltersKeep(prog, db) == \A n \in 1 .. Len(prog) :
    prog[n].op = "alter" /\ db[prog[n].table] # None => db[prog[n].table].columns \ prog[n].drop # {}

\* What the statements run so far and the calls made so far have in common: the
\* calls about t.
About(batch, t, n) == {i \in 1 .. n : batch[i][2].table = t}
Level(batch, prog, t, n, k) ==
    {batch[i][1] : i \in About(batch, t, n)} = {m \in 1 .. k : prog[m].table = t}

\* One statement and one call about t, the last of each.
LEMMA LastOfEach ==
    ASSUME NEW batch \in Seq(Nat \X Statement), NEW prog \in Seq(Op),
           Lists(batch, prog, Len(prog)), AltersApart(prog), NEW t,
           NEW n \in 1 .. Len(batch), NEW k \in 1 .. Len(prog), Level(batch, prog, t, n, k),
           batch[n][2].table = t, prog[k].table = t
    PROVE  batch[n][1] = k /\ Level(batch, prog, t, n - 1, k - 1)
<1>1. /\ Len(batch) \in Nat /\ Len(prog) \in Nat /\ DOMAIN batch = 1 .. Len(batch)
      /\ \A i \in 1 .. n : i \in DOMAIN batch
  BY LenProperties
<1>2. \A i \in 1 .. n : /\ batch[i][1] \in 1 .. Len(prog)
                        /\ Stands(batch[i][2], prog[batch[i][1]])
  BY <1>1 DEF Lists
<1>3. n \in About(batch, t, n)
  BY DEF About
<1>4. batch[n][1] \in 1 .. k /\ prog[batch[n][1]].table = t
  BY <1>3 DEF Level
<1>5. PICK i \in About(batch, t, n) : batch[i][1] = k
  <2>1. k \in {m \in 1 .. k : prog[m].table = t}
    BY <1>1
  <2>2. k \in {batch[i][1] : i \in About(batch, t, n)}
    BY <2>1 DEF Level
  <2>3. QED BY <2>2
<1>6. i \in 1 .. n /\ batch[i][2].table = t
  BY <1>5 DEF About
<1>7. batch[n][1] = k
  <2>1. CASE prog[k].op = "alter" \/ prog[batch[n][1]].op = "alter"
    BY <1>1, <1>2, <1>4, <2>1 DEF AltersApart
  <2>2. CASE prog[k].op # "alter" /\ prog[batch[n][1]].op # "alter"
    <3>1. \A c \in Op : c.op # "alter" => c.op # "rebuild"
      BY CallIs
    <3>2. prog[k] \in Op /\ prog[batch[n][1]] \in Op
      BY <1>2, ElementOfSeq
    <3>3. batch[i][2] = prog[k] /\ batch[n][2] = prog[batch[n][1]]
      BY <1>2, <1>5, <1>6, <2>2 DEF Stands
    <3>4. batch[i][2].op # "rebuild" /\ batch[n][2].op # "rebuild"
      BY <2>2, <3>1, <3>2, <3>3
    <3>5. i < n => batch[i][1] < batch[n][1]
      BY <1>1, <1>6, <3>4 DEF Lists
    <3>6. QED BY <1>1, <1>4, <1>5, <1>6, <3>5
  <2>3. QED BY <2>1, <2>2
<1>8. \A j \in 1 .. n - 1 : batch[j][1] # k
  <2>1. ASSUME NEW j \in 1 .. n - 1, batch[j][1] = k PROVE FALSE
    <3>1. j \in DOMAIN batch /\ n \in DOMAIN batch /\ j # n
      BY <1>1
    <3>2. QED BY <1>7, <2>1, <3>1 DEF Lists
  <2>2. QED BY <2>1
<1>9. About(batch, t, n) = About(batch, t, n - 1) \cup {n}
  BY <1>1 DEF About
<1>10. {batch[j][1] : j \in About(batch, t, n)} = {batch[j][1] : j \in About(batch, t, n - 1)} \cup {k}
  BY <1>7, <1>9
<1>11. k \notin {batch[j][1] : j \in About(batch, t, n - 1)}
  BY <1>8 DEF About
<1>12. {m \in 1 .. k : prog[m].table = t} = {m \in 1 .. k - 1 : prog[m].table = t} \cup {k}
  BY <1>1
<1>13. {batch[j][1] : j \in About(batch, t, n - 1)} = {m \in 1 .. k - 1 : prog[m].table = t}
  <2>1. k \notin {m \in 1 .. k - 1 : prog[m].table = t}
    BY <1>1
  <2>2. QED BY <1>10, <1>11, <1>12, <2>1 DEF Level
<1>14. QED BY <1>7, <1>13 DEF Level

\* A statement or a call about another table.
LEMMA SkipStatement ==
    ASSUME NEW batch, NEW prog, NEW t, NEW n \in Nat \ {0}, NEW k, Level(batch, prog, t, n, k), batch[n][2].table # t
    PROVE  Level(batch, prog, t, n - 1, k)
<1>1. About(batch, t, n) = About(batch, t, n - 1)
  BY DEF About
<1>2. QED BY <1>1 DEF Level

LEMMA SkipCall ==
    ASSUME NEW batch, NEW prog, NEW t, NEW n, NEW k \in Nat \ {0}, Level(batch, prog, t, n, k), prog[k].table # t
    PROVE  Level(batch, prog, t, n, k - 1)
<1>1. {m \in 1 .. k : prog[m].table = t} = {m \in 1 .. k - 1 : prog[m].table = t}
  OBVIOUS
<1>2. QED BY <1>1 DEF Level

\* A rebuild that does not fail does to its table what the alteration means.
LEMMA RebuildMeans ==
    ASSUME NEW db \in Database, NEW s \in Statement, NEW r \in Rows, NEW mean \in Database, NEW call \in Op,
           call.op = "alter", Stands(s, call), ~Fails(db, s), db[call.table] = mean[call.table],
           s.copied = Copied(ColumnsOf(db, call.table), call),
           db[call.table] # None => db[call.table].columns \ call.drop # {}
    PROVE  Effect(db, s, r)[call.table] = Meaning(mean, call, r)[call.table]
<1>1. s.op = "rebuild" /\ s.table = call.table /\ s.added = call.add
  BY DEF Stands
<1>2. db[call.table] \in Table /\ db[call.table] # None
  <2>1. db[call.table] # None
    BY <1>1 DEF Fails
  <2>2. QED BY <1>1, <2>1, OpIs DEF Database
<1>3. s.copied = db[call.table].columns \ call.drop /\ s.copied # {}
  BY <1>2 DEF Copied, ColumnsOf
<1>4. RowsCopied(db, s) = db[call.table].rows
  BY <1>1, <1>2, <1>3 DEF RowsCopied
<1>5. Effect(db, s, r)[s.table] = [columns |-> s.copied \cup s.added, rows |-> RowsCopied(db, s)]
  BY <1>1, EffectIs
<1>6. Meaning(mean, call, r)[call.table] =
         [columns |-> (mean[call.table].columns \ call.drop) \cup call.add, rows |-> mean[call.table].rows]
  BY <1>2, MeaningIs
<1>7. QED BY <1>1, <1>3, <1>4, <1>5, <1>6

Firsts(batch) == {batch[i][1] : i \in DOMAIN batch}

\* The batch is for all the calls, and its rebuilds are for the tables of start.
Serves(batch, prog, start) ==
    /\ batch \in Seq(Nat \X Statement) /\ prog \in Seq(Op) /\ start \in Database
    /\ Lists(batch, prog, Len(prog)) /\ Firsts(batch) = 1 .. Len(prog)
    /\ AltersApart(prog) /\ AltersKeep(prog, start) /\ Copies(batch, prog, start)

\* The statements lead where the calls are to lead, table by table.
LEMMA CoursesAgree ==
    ASSUME NEW x \in Trxs, NEW batch, NEW prog, NEW start, Serves(batch, prog, start),
           NEW d, Course(d, x, batch, start), NEW e, Calls(e, x, prog, start)
    PROVE  d[Len(batch)] = e[Len(prog)]
<1>0. /\ batch \in Seq(Nat \X Statement) /\ prog \in Seq(Op) /\ start \in Database
      /\ Lists(batch, prog, Len(prog)) /\ AltersApart(prog) /\ AltersKeep(prog, start)
      /\ Copies(batch, prog, start) /\ {batch[i][1] : i \in DOMAIN batch} = 1 .. Len(prog)
  BY DEF Serves, Firsts
<1> USE <1>0
<1> DEFINE Same(t, n, k) == /\ d[n][t] = e[k][t]
                            /\ (\A m \in 1 .. k : prog[m].table # t) => e[k][t] = start[t]
           Good(t, n, k) == Level(batch, prog, t, n, k) => Same(t, n, k)
<1>1. /\ Len(batch) \in Nat /\ Len(prog) \in Nat /\ DOMAIN batch = 1 .. Len(batch)
      /\ \A n \in 1 .. Len(batch) : batch[n] \in Nat \X Statement
      /\ \A k \in 1 .. Len(prog) : prog[k] \in Op
  BY LenProperties, ElementOfSeq
<1>2. ASSUME NEW n \in 1 .. Len(batch)
      PROVE  /\ n - 1 \in 0 .. Len(batch) /\ d[n - 1] \in Database /\ d[n] \in Database
             /\ batch[n][2] \in Statement /\ batch[n][1] \in 1 .. Len(prog) /\ <<x, batch[n][1]>> \in Rows
             /\ ~Fails(d[n - 1], batch[n][2])
             /\ d[n] = Effect(d[n - 1], batch[n][2], <<x, batch[n][1]>>)
             /\ Stands(batch[n][2], prog[batch[n][1]])
  <2>1. n - 1 \in 0 .. Len(batch) /\ n \in 0 .. Len(batch)
    BY <1>1
  <2>2. batch[n][2] \in Statement /\ batch[n][1] \in 1 .. Len(prog) /\ <<x, batch[n][1]>> \in Rows
        /\ Stands(batch[n][2], prog[batch[n][1]])
    BY <1>1 DEF Lists, Rows
  <2>3. QED BY <2>1, <2>2 DEF Course
<1>3. ASSUME NEW k \in 1 .. Len(prog)
      PROVE  /\ k - 1 \in 0 .. Len(prog) /\ e[k - 1] \in Database /\ e[k] \in Database
             /\ prog[k] \in Op /\ <<x, k>> \in Rows
             /\ e[k] = Meaning(e[k - 1], prog[k], <<x, k>>)
  <2>1. k - 1 \in 0 .. Len(prog) /\ k \in 0 .. Len(prog) /\ k \in Nat
    BY <1>1
  <2>2. QED BY <1>1, <2>1 DEF Calls, Rows
<1>4. ASSUME NEW t \in Tables, NEW n \in 1 .. Len(batch), NEW k \in 0 .. Len(prog),
             batch[n][2].table # t, Good(t, n - 1, k)
      PROVE  Good(t, n, k)
  <2> SUFFICES ASSUME Level(batch, prog, t, n, k) PROVE Same(t, n, k)
    OBVIOUS
  <2>1. Same(t, n - 1, k)
    BY <1>1, <1>4, SkipStatement
  <2>2. Effect(d[n - 1], batch[n][2], <<x, batch[n][1]>>)[t] = d[n - 1][t]
    <3>1. d[n - 1] \in Database /\ batch[n][2] \in Statement /\ <<x, batch[n][1]>> \in Rows
      BY <1>2
    <3>2. QED BY <1>4, <3>1, EffectElsewhere, Zenon
  <2>3. QED BY <1>2, <2>1, <2>2
<1>5. ASSUME NEW t \in Tables, NEW n \in 0 .. Len(batch), NEW k \in 1 .. Len(prog),
             prog[k].table # t, Good(t, n, k - 1)
      PROVE  Good(t, n, k)
  <2> SUFFICES ASSUME Level(batch, prog, t, n, k) PROVE Same(t, n, k)
    OBVIOUS
  <2>1. Same(t, n, k - 1)
    BY <1>1, <1>5, SkipCall
  <2>2. Meaning(e[k - 1], prog[k], <<x, k>>)[t] = e[k - 1][t]
    <3>1. e[k - 1] \in Database /\ prog[k] \in Op /\ <<x, k>> \in Rows
      BY <1>3
    <3>2. QED BY <1>5, <3>1, MeaningIs, Zenon
  <2>3. \A m \in 1 .. k - 1 : m \in 1 .. k
    BY <1>1
  <2>4. QED BY <1>3, <2>1, <2>2, <2>3
<1>6. ASSUME NEW t \in Tables, NEW n \in 1 .. Len(batch), NEW k \in 1 .. Len(prog),
             batch[n][2].table = t, prog[k].table = t, Good(t, n - 1, k - 1)
      PROVE  Good(t, n, k)
  <2> SUFFICES ASSUME Level(batch, prog, t, n, k) PROVE Same(t, n, k)
    OBVIOUS
  <2>1. batch[n][1] = k /\ Level(batch, prog, t, n - 1, k - 1)
    BY <1>6, LastOfEach
  <2>2. Same(t, n - 1, k - 1)
    BY <1>6, <2>1
  <2> DEFINE st == batch[n][2]
             call == prog[k]
             r == <<x, k>>
  <2>3. /\ d[n - 1] \in Database /\ st \in Statement /\ call \in Op /\ r \in Rows /\ e[k - 1] \in Database
        /\ ~Fails(d[n - 1], st) /\ d[n] = Effect(d[n - 1], st, r) /\ e[k] = Meaning(e[k - 1], call, r)
        /\ Stands(st, call) /\ st.table = t /\ call.table = t
    BY <1>2, <1>3, <1>6, <2>1
  <2>4. d[n][t] = e[k][t]
    <3>1. CASE call.op # "alter"
      <4>1. st = call /\ st.op # "rebuild"
        BY <2>3, <3>1, CallIs DEF Stands
      <4>2. Effect(d[n - 1], st, r)[t] = Effect(e[k - 1], st, r)[t]
        <5>1. d[n - 1] \in Database /\ e[k - 1] \in Database /\ st \in Statement /\ r \in Rows
              /\ st.table = t /\ d[n - 1][t] = e[k - 1][t]
          BY <2>2, <2>3
        <5> HIDE DEF st, call, r, Same, Good
        <5>2. QED BY <4>1, <5>1, EffectLocal, Zenon
      <4>3. Meaning(e[k - 1], call, r) = Effect(e[k - 1], call, r)
        BY <3>1 DEF Meaning
      <4>4. QED BY <2>3, <4>1, <4>2, <4>3
    <3>2. CASE call.op = "alter"
      <4>1. \A m \in 1 .. k - 1 : prog[m].table # t
        BY <1>1, <1>6, <3>2, SMTT(30) DEF AltersApart
      <4>2. d[n - 1][t] = start[t] /\ d[n - 1][t] = e[k - 1][t]
        BY <2>2, <4>1
      <4>3. st.op = "rebuild"
        BY <2>3, <3>2 DEF Stands
      <4>4. st.copied = Copied(ColumnsOf(start, t), call)
        BY <1>1, <2>1, <2>3, <4>3 DEF Copies
      <4>5. ColumnsOf(start, t) = ColumnsOf(d[n - 1], t)
        BY <4>2 DEF ColumnsOf
      <4>6. d[n - 1][t] # None => d[n - 1][t].columns \ call.drop # {}
        BY <2>3, <3>2, <4>2 DEF AltersKeep
      <4> HIDE DEF st, call, r, Same, Good
      <4>7. Effect(d[n - 1], st, r)[call.table] = Meaning(e[k - 1], call, r)[call.table]
        <5>1. /\ d[n - 1] \in Database /\ e[k - 1] \in Database /\ st \in Statement /\ r \in Rows
              /\ call \in Op /\ ~Fails(d[n - 1], st) /\ Stands(st, call)
          BY <2>3
        <5>2. /\ d[n - 1][call.table] = e[k - 1][call.table]
              /\ st.copied = Copied(ColumnsOf(d[n - 1], call.table), call)
              /\ d[n - 1][call.table] # None => d[n - 1][call.table].columns \ call.drop # {}
          BY <2>3, <4>2, <4>4, <4>5, <4>6
        <5>3. QED BY <3>2, <5>1, <5>2, RebuildMeans, ZenonT(40)
      <4>8. QED BY <2>3, <4>7
    <3>3. QED BY <3>1, <3>2
  <2>5. k \in 1 .. k
    BY <1>1
  <2>6. QED BY <1>6, <2>4, <2>5
<1>7. ASSUME NEW t \in Tables PROVE \A n \in 0 .. Len(batch), k \in 0 .. Len(prog) : Good(t, n, k)
  <2> DEFINE bad == {j \in Nat : \E n \in 0 .. Len(batch), k \in 0 .. Len(prog) : n + k = j /\ ~Good(t, n, k)}
  <2>1. bad = {}
    <3> SUFFICES ASSUME bad # {} PROVE FALSE
      OBVIOUS
    <3> HIDE DEF Good
    <3>1. PICK j \in bad : \A i \in bad : ~ i < j
      BY LeastIndex
    <3>2. PICK n \in 0 .. Len(batch), k \in 0 .. Len(prog) : n + k = j /\ ~Good(t, n, k)
      BY <3>1
    <3>0. n + k = j /\ Len(batch) \in Nat /\ Len(prog) \in Nat
      BY <1>1, <3>2
    <3>3. \A p \in 0 .. Len(batch), q \in 0 .. Len(prog) : p + q < j => Good(t, p, q)
      <4> SUFFICES ASSUME NEW p \in 0 .. Len(batch), NEW q \in 0 .. Len(prog), p + q < j, ~Good(t, p, q) PROVE FALSE
        OBVIOUS
      <4>1. p + q \in Nat
        BY <1>1
      <4>2. p + q \in bad
        BY <4>1
      <4>3. QED BY <3>1, <4>2
    <3>4. CASE n # 0 /\ batch[n][2].table # t
      <4>1. n \in 1 .. Len(batch) /\ n - 1 \in 0 .. Len(batch) /\ (n - 1) + k < j
        <5>1. n # 0
          BY <3>4
        <5>2. QED BY <3>0, <5>1
      <4>2. QED BY <1>4, <3>2, <3>3, <3>4, <4>1
    <3>5. CASE k # 0 /\ prog[k].table # t
      <4>1. k \in 1 .. Len(prog) /\ k - 1 \in 0 .. Len(prog) /\ n + (k - 1) < j
        BY <3>0, <3>5
      <4>2. QED BY <1>5, <3>2, <3>3, <3>5, <4>1
    <3>6. CASE n # 0 /\ batch[n][2].table = t /\ k # 0 /\ prog[k].table = t
      <4>1. /\ n \in 1 .. Len(batch) /\ n - 1 \in 0 .. Len(batch)
            /\ k \in 1 .. Len(prog) /\ k - 1 \in 0 .. Len(prog) /\ (n - 1) + (k - 1) < j
        BY <3>0, <3>6, SMTT(30)
      <4>2. QED BY <1>6, <3>2, <3>3, <3>6, <4>1
    <3>7. CASE n = 0 /\ k = 0
      <4>1. d[0] = start /\ e[0] = start
        BY DEF Course, Calls
      <4>2. QED BY <3>2, <3>7, <4>1 DEF Good
    <3>8. CASE n = 0 /\ k # 0 /\ prog[k].table = t
      <4>1. k \in {m \in 1 .. k : prog[m].table = t}
        BY <1>1, <3>8
      <4>2. About(batch, t, 0) = {}
        BY DEF About
      <4>3. ~Level(batch, prog, t, n, k)
        BY <3>8, <4>1, <4>2 DEF Level
      <4>4. QED BY <3>2, <4>3 DEF Good
    <3>9. CASE n # 0 /\ batch[n][2].table = t /\ k = 0
      <4>1. n \in About(batch, t, n)
        BY <1>1, <3>9 DEF About
      <4>2. {m \in 1 .. 0 : prog[m].table = t} = {}
        OBVIOUS
      <4>3. batch[n][1] \in {batch[i][1] : i \in About(batch, t, n)}
        BY <4>1
      <4>4. ~Level(batch, prog, t, n, k)
        BY <3>9, <4>2, <4>3 DEF Level
      <4>5. QED BY <3>2, <4>4 DEF Good
    <3>10. QED BY <3>4, <3>5, <3>6, <3>7, <3>8, <3>9
  <2>2. ASSUME NEW n \in 0 .. Len(batch), NEW k \in 0 .. Len(prog), ~Good(t, n, k) PROVE FALSE
    <3> HIDE DEF Good
    <3>1. n + k \in bad
      BY <1>1, <2>2
    <3>2. QED BY <2>1, <3>1
  <2>3. QED BY <2>2
<1>8. ASSUME NEW t \in Tables PROVE d[Len(batch)][t] = e[Len(prog)][t]
  <2>1. {batch[i][1] : i \in About(batch, t, Len(batch))} = {m \in 1 .. Len(prog) : prog[m].table = t}
    <3>1. \A i \in 1 .. Len(batch) : batch[i][2].table = prog[batch[i][1]].table
      BY <1>1, <1>2 DEF Stands
    <3>2. {batch[i][1] : i \in 1 .. Len(batch)} = 1 .. Len(prog)
      BY <1>1
    <3>3. ASSUME NEW m \in 1 .. Len(prog), prog[m].table = t
          PROVE  m \in {batch[i][1] : i \in About(batch, t, Len(batch))}
      <4>1. PICK i \in 1 .. Len(batch) : batch[i][1] = m
        BY <3>2
      <4>2. i \in About(batch, t, Len(batch))
        BY <3>1, <3>3, <4>1 DEF About
      <4>3. QED BY <4>1, <4>2
    <3>4. ASSUME NEW i \in About(batch, t, Len(batch))
          PROVE  batch[i][1] \in {m \in 1 .. Len(prog) : prog[m].table = t}
      BY <3>1, <3>2 DEF About
    <3>5. QED BY <3>3, <3>4
  <2>2. Level(batch, prog, t, Len(batch), Len(prog))
    BY <2>1 DEF Level
  <2>3. QED BY <1>1, <1>7, <2>2
<1>9. d[Len(batch)] \in Database /\ e[Len(prog)] \in Database
  BY <1>1 DEF Course, Calls
<1>10. QED BY <1>8, <1>9 DEF Database

-----------------------------------------------------------------------------
\* A list of statements serves for more calls, and with one statement more.
LEMMA ListsMore ==
    ASSUME NEW batch, NEW prog, NEW m \in Nat, NEW k \in Nat, m <= k, Lists(batch, prog, m)
    PROVE  Lists(batch, prog, k)
BY DEF Lists

\* Statement s, for call n, can follow those of batch, which are for calls up to m.
Follows(batch, prog, m, k, n, s) ==
    /\ batch \in Seq(Nat \X Statement) /\ m \in Nat /\ k \in Nat /\ m <= k
    /\ Lists(batch, prog, m) /\ n \in 1 .. k /\ s \in Statement /\ Stands(s, prog[n])
    /\ \A i \in DOMAIN batch : batch[i][1] # n
    /\ s.op = "rebuild" \/ m < n

LEMMA AppendOld ==
    ASSUME NEW S, NEW batch \in Seq(S), NEW elt \in S, NEW i \in DOMAIN Append(batch, elt)
    PROVE  \/ i \in DOMAIN batch /\ Append(batch, elt)[i] = batch[i]
           \/ Append(batch, elt)[i] = elt
<1>1. Len(batch) \in Nat /\ DOMAIN batch = 1 .. Len(batch) /\ DOMAIN Append(batch, elt) = 1 .. Len(batch) + 1
  BY AppendProperties, LenProperties
<1>2. i \in 1 .. Len(batch) \/ i = Len(batch) + 1
  BY <1>1
<1>3. QED BY <1>1, <1>2, AppendProperties

LEMMA ListsAppend ==
    ASSUME NEW batch, NEW prog, NEW m, NEW k, NEW n, NEW s, Follows(batch, prog, m, k, n, s)
    PROVE  /\ Append(batch, <<n, s>>) \in Seq(Nat \X Statement)
           /\ Lists(Append(batch, <<n, s>>), prog, k)
           /\ Firsts(Append(batch, <<n, s>>)) = Firsts(batch) \cup {n}
<1>0. /\ batch \in Seq(Nat \X Statement) /\ m \in Nat /\ k \in Nat /\ m <= k
      /\ Lists(batch, prog, m) /\ n \in 1 .. k /\ s \in Statement /\ Stands(s, prog[n])
      /\ \A i \in DOMAIN batch : batch[i][1] # n
      /\ s.op = "rebuild" \/ m < n
  BY DEF Follows
<1> DEFINE more == Append(batch, <<n, s>>)
           l == Len(batch)
<1>1. n \in Nat /\ <<n, s>> \in Nat \X Statement
  BY <1>0
<1>2. /\ l \in Nat /\ DOMAIN batch = 1 .. l /\ more \in Seq(Nat \X Statement) /\ DOMAIN more = 1 .. l + 1
      /\ \A i \in 1 .. l : more[i] = batch[i]
      /\ more[l + 1] = <<n, s>>
  BY <1>0, <1>1, AppendProperties, LenProperties
<1> HIDE DEF more, l
<1>3. \A i \in DOMAIN more : i \in DOMAIN batch \/ i = l + 1
  BY <1>2
<1>4. \A i \in DOMAIN batch : i < l + 1 /\ more[i] = batch[i] /\ ~ l + 1 < i /\ i # l + 1
  BY <1>2
<1>5. \A i \in DOMAIN batch : batch[i][1] \in 1 .. m /\ Stands(batch[i][2], prog[batch[i][1]])
  BY <1>0 DEF Lists
<1>6. more[l + 1][1] = n /\ more[l + 1][2] = s /\ ~ l + 1 < l + 1
  BY <1>2
<1>7. \A i \in DOMAIN more : more[i][1] \in 1 .. k /\ Stands(more[i][2], prog[more[i][1]])
  BY <1>0, <1>3, <1>4, <1>5, <1>6, SMTT(30)
<1>8. \A i, j \in DOMAIN more : more[i][1] = more[j][1] => i = j
  BY <1>0, <1>3, <1>4, <1>6 DEF Lists
<1>9. ASSUME NEW i \in DOMAIN more, NEW j \in DOMAIN more, i < j,
             more[i][2].op # "rebuild", more[j][2].op # "rebuild"
      PROVE  more[i][1] < more[j][1]
  <2>1. i \in DOMAIN batch
    BY <1>3, <1>4, <1>6, <1>9
  <2>2. CASE j \in DOMAIN batch
    BY <1>0, <1>4, <1>9, <2>1, <2>2 DEF Lists
  <2>3. CASE j = l + 1
    <3>1. m < n /\ batch[i][1] \in 1 .. m /\ more[i] = batch[i]
      BY <1>0, <1>4, <1>5, <1>6, <1>9, <2>1, <2>3
    <3>2. QED BY <1>0, <1>1, <1>6, <2>3, <3>1
  <2>4. QED BY <1>3, <2>2, <2>3
<1>10. Lists(more, prog, k)
  BY <1>7, <1>8, <1>9 DEF Lists
<1>11. Firsts(more) = Firsts(batch) \cup {n}
  <2>1. \A i \in DOMAIN batch : i \in DOMAIN more
    BY <1>2
  <2>2. l + 1 \in DOMAIN more
    BY <1>2
  <2>3. QED BY <1>3, <1>4, <1>6, <2>1, <2>2 DEF Firsts
<1>12. QED BY <1>2, <1>10, <1>11 DEF more

\* What a step that leaves y alone leaves of y.
LEMMA GatheredStable ==
    ASSUME NEW y \in Trxs, Gathered(y), program' = program, statements'[y] = statements[y],
           called'[y] = called[y], describing'[y] = describing[y], refused'[y] = refused[y], state'[y] = state[y]
    PROVE  Gathered(y)'
BY DEF Gathered, Active, Collected

LEMMA FreshStable ==
    ASSUME NEW y \in Trxs, Fresh(y), program' = program, database' = database, statements'[y] = statements[y],
           before'[y] = before[y], alone'[y] = alone[y], Active(y)' => Active(y)
    PROVE  Fresh(y)'
BY DEF Fresh

LEMMA MeaningStable ==
    ASSUME NEW y \in Trxs, program' = program, before'[y] = before[y]
    PROVE  MeaningOf(y, before[y])' = MeaningOf(y, before[y])
BY DEF MeaningOf

LEMMA MeantStable ==
    ASSUME NEW y \in Trxs, Meant(y), program' = program, before'[y] = before[y], after'[y] = after[y],
           state'[y] = "resolved" => state[y] = "resolved", alone'[y] => alone[y]
    PROVE  Meant(y)'
<1>1. MeaningOf(y, before[y])' = MeaningOf(y, before[y])
  BY MeaningStable
<1>2. (Separate(y)' => Separate(y)) /\ (KeepsColumns(y)' => KeepsColumns(y))
  BY DEF Separate, KeepsColumns
<1>3. QED BY <1>1, <1>2 DEF Meant

LEMMA InitInv == Init => Inv
<1> SUFFICES ASSUME Init PROVE Inv
  OBVIOUS
<1>1. \A q \in Seq(Op) : Len(q) \in Nat
  BY LenProperties
<1>2. program \in [Trxs -> Seq(Op)] /\ database \in Database
  BY SQLiteAssumption DEF Init, Database
<1>3. /\ called = [x \in Trxs |-> 0] /\ statements = [x \in Trxs |-> <<>>] /\ describing = [x \in Trxs |-> {}]
      /\ refused = [x \in Trxs |-> {}] /\ state = [x \in Trxs |-> "open"]
      /\ before = [x \in Trxs |-> database] /\ after = [x \in Trxs |-> database] /\ alone = [x \in Trxs |-> TRUE]
  BY DEF Init
<1>4. <<>> \in Seq(Nat \X Statement) /\ DOMAIN <<>> = {}
  OBVIOUS
<1>5. Typed
  BY <1>1, <1>2, <1>3, <1>4 DEF Typed
<1>6. ASSUME NEW x \in Trxs PROVE Gathered(x) /\ Fresh(x) /\ Meant(x)
  <2>1. /\ statements[x] = <<>> /\ describing[x] = {} /\ refused[x] = {} /\ called[x] = 0 /\ state[x] = "open"
        /\ before[x] = database
    BY <1>3
  <2>2. Lists(<<>>, program[x], called[x]) /\ Copies(<<>>, program[x], database)
    BY <1>4 DEF Lists, Copies
  <2>3. Collected(x) = {} /\ 1 .. 0 = {}
    BY <1>4, <2>1 DEF Collected
  <2>4. Gathered(x)
    BY <2>1, <2>2, <2>3 DEF Gathered
  <2>5. QED BY <2>1, <2>2, <2>4 DEF Fresh, Meant
<1>7. QED BY <1>5, <1>6 DEF Inv

LEMMA ExecuteInv == ASSUME Inv, NEW x \in Trxs, Execute(x) PROVE Inv'
<1> DEFINE n == called[x] + 1
           call == program[x][n]
<1>1. /\ database \in Database /\ program \in [Trxs -> Seq(Op)] /\ called \in [Trxs -> Nat]
      /\ statements \in [Trxs -> Seq(Nat \X Statement)] /\ describing \in [Trxs -> SUBSET Nat]
      /\ before \in [Trxs -> Database] /\ alone \in [Trxs -> BOOLEAN]
      /\ \A y \in Trxs : called[y] <= Len(program[y])
      /\ \A y \in Trxs : Gathered(y) /\ Fresh(y) /\ Meant(y)
  BY DEF Inv, Typed
<1>2. /\ state[x] = "open" /\ n <= Len(program[x]) /\ called' = [called EXCEPT ![x] = n]
      /\ \/ /\ call.op = "alter" /\ describing' = [describing EXCEPT ![x] = @ \cup {n}] /\ statements' = statements
         \/ /\ call.op # "alter" /\ describing' = describing
            /\ statements' = [statements EXCEPT ![x] = Append(@, <<n, call>>)]
      /\ before' = IF n = 1 THEN [before EXCEPT ![x] = database] ELSE before
      /\ alone' = IF n = 1 THEN [alone EXCEPT ![x] = TRUE] ELSE alone
      /\ database' = database /\ program' = program /\ refused' = refused /\ state' = state /\ after' = after
  BY DEF Execute
<1>3. /\ called[x] \in Nat /\ n \in Nat /\ called[x] <= n /\ called[x] < n /\ n \in 1 .. n
      /\ program[x] \in Seq(Op) /\ Len(program[x]) \in Nat /\ n \in 1 .. Len(program[x]) /\ call \in Op
  BY <1>1, <1>2, LenProperties, ElementOfSeq
<1>4. call.op # "alter" => call \in Statement /\ call.op # "rebuild"
  BY <1>3, CallIs
<1> HIDE DEF call, n
<1>5. called'[x] = n /\ \A y \in Trxs \ {x} : called'[y] = called[y]
  BY <1>1, <1>2
<1>6. /\ Lists(statements[x], program[x], called[x]) /\ Collected(x) \subseteq 1 .. called[x]
      /\ describing[x] \subseteq 1 .. called[x] /\ refused[x] \subseteq 1 .. called[x]
      /\ \A i \in DOMAIN statements[x] : statements[x][i][1] # n
  <2>1. \A i \in DOMAIN statements[x] : statements[x][i][1] \in 1 .. called[x]
    BY <1>1 DEF Gathered, Lists
  <2>2. n \notin 1 .. called[x]
    BY <1>3
  <2>3. QED BY <1>1, <2>1, <2>2 DEF Gathered, Collected
<1>7. /\ statements'[x] \in Seq(Nat \X Statement)
      /\ Lists(statements'[x], program[x], n)
      /\ describing'[x] \subseteq 1 .. n /\ Collected(x)' \subseteq 1 .. n
      /\ \A k \in describing'[x] : program[x][k].op = "alter"
      /\ describing'[x] \cap Collected(x)' = {} /\ describing'[x] \cap refused[x] = {} /\ Collected(x)' \cap refused[x] = {}
      /\ describing'[x] \cup Collected(x)' = describing[x] \cup Collected(x) \cup {n}
      /\ \A i \in DOMAIN statements'[x] : statements'[x][i][2].op = "rebuild" =>
            i \in DOMAIN statements[x] /\ statements'[x][i] = statements[x][i]
  <2>0. /\ 1 .. called[x] \subseteq 1 .. n /\ n \notin 1 .. called[x]
        /\ \A k \in describing[x] : program[x][k].op = "alter"
        /\ describing[x] \cap (Collected(x) \cup refused[x]) = {} /\ Collected(x) \cap refused[x] = {}
    BY <1>1, <1>3 DEF Gathered
  <2>1. CASE call.op = "alter"
    <3>1. statements'[x] = statements[x] /\ describing'[x] = describing[x] \cup {n}
      BY <1>1, <1>2, <2>1
    <3>2. Collected(x)' = Collected(x)
      BY <3>1 DEF Collected
    <3>3. Lists(statements'[x], program[x], n)
      BY <1>3, <1>6, <3>1, ListsMore
    <3>4. \A k \in describing'[x] : program[x][k].op = "alter"
      BY <2>0, <2>1, <3>1 DEF call
    <3>5. n \notin Collected(x) /\ n \notin refused[x]
      BY <1>6, <2>0
    <3>6. QED BY <1>1, <1>3, <1>6, <2>0, <3>1, <3>2, <3>3, <3>4, <3>5
  <2>2. CASE call.op # "alter"
    <3>1. statements'[x] = Append(statements[x], <<n, call>>) /\ describing'[x] = describing[x]
      BY <1>1, <1>2, <2>2
    <3>2. Stands(call, program[x][n])
      BY <2>2 DEF call, Stands
    <3>3. /\ statements'[x] \in Seq(Nat \X Statement) /\ Lists(statements'[x], program[x], n)
          /\ Collected(x)' = Collected(x) \cup {n}
      <4>1. Follows(statements[x], program[x], called[x], n, n, call)
        BY <1>1, <1>3, <1>4, <1>6, <2>2, <3>2 DEF Follows
      <4>2. /\ Append(statements[x], <<n, call>>) \in Seq(Nat \X Statement)
            /\ Lists(Append(statements[x], <<n, call>>), program[x], n)
            /\ Firsts(Append(statements[x], <<n, call>>)) = Firsts(statements[x]) \cup {n}
        BY <4>1, ListsAppend, SMTT(30)
      <4>3. QED BY <3>1, <4>2 DEF Collected, Firsts
    <3>4. \A i \in DOMAIN statements'[x] :
             \/ i \in DOMAIN statements[x] /\ statements'[x][i] = statements[x][i]
             \/ statements'[x][i] = <<n, call>>
      <4>1. statements[x] \in Seq(Nat \X Statement) /\ <<n, call>> \in Nat \X Statement
        BY <1>1, <1>3, <1>4, <2>2
      <4>2. QED BY <3>1, <4>1, AppendOld
    <3>5. n \notin describing[x] /\ n \notin refused[x]
      BY <1>6, <2>0
    <3>6. \A i \in DOMAIN statements'[x] : statements'[x][i][2].op = "rebuild" =>
              i \in DOMAIN statements[x] /\ statements'[x][i] = statements[x][i]
      BY <1>4, <2>2, <3>4
    <3>7. QED BY <1>3, <1>6, <2>0, <3>1, <3>3, <3>5, <3>6
  <2>3. QED BY <2>1, <2>2
<1>8. Typed'
  <2>1. before' \in [Trxs -> Database] /\ alone' \in [Trxs -> BOOLEAN]
    BY <1>1, <1>2
  <2>2. statements' \in [Trxs -> Seq(Nat \X Statement)] /\ describing' \in [Trxs -> SUBSET Nat]
    <3>1. \/ statements' = statements
          \/ statements' = [statements EXCEPT ![x] = statements'[x]]
      BY <1>1, <1>2
    <3>2. describing' = describing \/ describing' = [describing EXCEPT ![x] = @ \cup {n}]
      BY <1>2
    <3>3. statements' \in [Trxs -> Seq(Nat \X Statement)]
      BY <1>1, <1>7, <3>1
    <3>4. describing' \in [Trxs -> SUBSET Nat]
      BY <1>1, <1>3, <3>2, ZenonT(60)
    <3>5. QED BY <3>3, <3>4
  <2>3. called' \in [Trxs -> Nat] /\ \A y \in Trxs : called'[y] <= Len(program'[y])
    BY <1>1, <1>2, <1>3, <1>5
  <2>4. QED BY <1>2, <2>1, <2>2, <2>3 DEF Inv, Typed
<1>9. ASSUME NEW y \in Trxs PROVE Gathered(y)' /\ Fresh(y)' /\ Meant(y)'
  <2>1. CASE y # x
    <3>1. /\ called'[y] = called[y] /\ statements'[y] = statements[y] /\ describing'[y] = describing[y]
          /\ before'[y] = before[y] /\ alone'[y] = alone[y] /\ refused'[y] = refused[y] /\ state'[y] = state[y]
          /\ after'[y] = after[y]
      BY <1>1, <1>2, <2>1
    <3>2. Active(y)' => Active(y)
      BY <1>2 DEF Active
    <3>3. QED BY <1>1, <1>2, <3>1, <3>2, GatheredStable, FreshStable, MeantStable
  <2>2. CASE y = x
    <3>1. Gathered(x)'
      <4>1. describing'[x] \cup Collected(x)' \cup refused'[x] = 1 .. called'[x]
        <5>1. describing[x] \cup Collected(x) \cup refused[x] = 1 .. called[x]
          BY <1>1, <1>2 DEF Gathered, Active
        <5>2. 1 .. n = 1 .. called[x] \cup {n}
          BY <1>3 DEF n
        <5>3. QED BY <1>2, <1>5, <1>7, <5>1, <5>2
      <4>2. refused'[x] \subseteq 1 .. called'[x]
        BY <1>2, <1>3, <1>5, <1>6
      <4>3. /\ Lists(statements'[x], program'[x], called'[x])
            /\ \A k \in describing'[x] : k \in 1 .. called'[x] /\ program'[x][k].op = "alter"
            /\ describing'[x] \cap (Collected(x)' \cup refused'[x]) = {} /\ Collected(x)' \cap refused'[x] = {}
        BY <1>2, <1>5, <1>7
      <4>4. QED BY <1>2, <4>1, <4>2, <4>3 DEF Gathered
    <3>2. Fresh(x)'
      <4> SUFFICES ASSUME alone'[x] PROVE before'[x] = database' /\ Copies(statements'[x], program'[x], database')
        BY DEF Fresh
      <4>1. before'[x] = database' /\ Copies(statements[x], program[x], database)
        <5>1. CASE n = 1
          <6>1. DOMAIN statements[x] = {}
            <7>1. 1 .. called[x] = {}
              BY <1>3, <5>1 DEF n
            <7>2. QED BY <1>6, <7>1 DEF Lists
          <6>2. QED BY <1>1, <1>2, <5>1, <6>1 DEF Copies
        <5>2. CASE n # 1
          BY <1>1, <1>2, <5>2 DEF Fresh, Active
        <5>3. QED BY <5>1, <5>2
      <4>2. QED BY <1>2, <1>7, <4>1 DEF Copies
    <3>3. Meant(x)'
      BY <1>2 DEF Meant
    <3>4. QED BY <2>2, <3>1, <3>2, <3>3
  <2>3. QED BY <2>1, <2>2
<1>10. QED BY <1>8, <1>9 DEF Inv

LEMMA DescribeInv == ASSUME Inv, NEW x \in Trxs, NEW n \in describing[x], Describe(x, n) PROVE Inv'
<1> DEFINE call == program[x][n]
           copied == Copied(ColumnsOf(database, call.table), call)
           rebuild == [op |-> "rebuild", table |-> call.table, copied |-> copied, added |-> call.add]
<1>1. /\ database \in Database /\ program \in [Trxs -> Seq(Op)] /\ called \in [Trxs -> Nat]
      /\ statements \in [Trxs -> Seq(Nat \X Statement)] /\ describing \in [Trxs -> SUBSET Nat]
      /\ refused \in [Trxs -> SUBSET Nat]
      /\ \A y \in Trxs : called[y] <= Len(program[y])
      /\ \A y \in Trxs : Gathered(y) /\ Fresh(y) /\ Meant(y)
  BY DEF Inv, Typed
<1>2. /\ describing' = [describing EXCEPT ![x] = @ \ {n}]
      /\ \/ statements' = [statements EXCEPT ![x] = Append(@, <<n, rebuild>>)] /\ refused' = refused
         \/ statements' = statements /\ refused' = [refused EXCEPT ![x] = @ \cup {n}]
      /\ database' = database /\ program' = program /\ called' = called /\ state' = state
      /\ before' = before /\ after' = after /\ alone' = alone
  BY DEF Describe
<1>3. /\ called[x] \in Nat /\ n \in 1 .. called[x] /\ n \in Nat /\ call.op = "alter"
      /\ n \notin Collected(x) /\ n \notin refused[x]
      /\ describing[x] \cap (Collected(x) \cup refused[x]) = {} /\ Collected(x) \cap refused[x] = {}
      /\ Lists(statements[x], program[x], called[x])
      /\ refused[x] \subseteq 1 .. called[x]
      /\ \A k \in describing[x] : k \in 1 .. called[x] /\ program[x][k].op = "alter"
      /\ program[x] \in Seq(Op) /\ Len(program[x]) \in Nat /\ n \in 1 .. Len(program[x])
  BY <1>1, LenProperties DEF Gathered
<1>4. call \in Op
  BY <1>3, ElementOfSeq
<1>5. copied \subseteq Columns
  <2>1. \A t \in Tables : ColumnsOf(database, t) \subseteq Columns
    BY <1>1 DEF Database, Table, ColumnsOf
  <2>2. QED BY <1>4, <2>1, CallIs DEF Copied
<1>6. rebuild \in Statement /\ rebuild.op = "rebuild" /\ rebuild.copied = copied /\ rebuild.table = call.table
  BY <1>3, <1>4, <1>5, CallIs DEF Statement
<1>7. Stands(rebuild, program[x][n])
  BY <1>3 DEF Stands
<1> HIDE DEF rebuild
<1>8. Follows(statements[x], program[x], called[x], called[x], n, rebuild)
  <2>1. \A i \in DOMAIN statements[x] : statements[x][i][1] # n
    BY <1>3 DEF Collected
  <2>2. QED BY <1>1, <1>3, <1>6, <1>7, <2>1 DEF Follows
<1>9. /\ Append(statements[x], <<n, rebuild>>) \in Seq(Nat \X Statement)
      /\ Lists(Append(statements[x], <<n, rebuild>>), program[x], called[x])
      /\ Firsts(Append(statements[x], <<n, rebuild>>)) = Firsts(statements[x]) \cup {n}
  BY <1>8, ListsAppend, SMTT(30)
<1>10. /\ describing'[x] = describing[x] \ {n}
       /\ \/ /\ statements'[x] = Append(statements[x], <<n, rebuild>>) /\ refused'[x] = refused[x]
             /\ Collected(x)' = Collected(x) \cup {n}
          \/ /\ statements'[x] = statements[x] /\ refused'[x] = refused[x] \cup {n}
             /\ Collected(x)' = Collected(x)
  <2>1. describing'[x] = describing[x] \ {n}
    BY <1>1, <1>2
  <2>2. \/ statements'[x] = Append(statements[x], <<n, rebuild>>) /\ refused'[x] = refused[x]
        \/ statements'[x] = statements[x] /\ refused'[x] = refused[x] \cup {n}
    BY <1>1, <1>2
  <2>3. Collected(x) = Firsts(statements[x]) /\ Collected(x)' = Firsts(statements'[x])
    BY DEF Collected, Firsts
  <2>4. QED BY <1>9, <2>1, <2>2, <2>3
<1>11. Typed'
  <2>1. /\ statements' \in [Trxs -> Seq(Nat \X Statement)]
    BY <1>1, <1>2, <1>9
  <2>2. describing' \in [Trxs -> SUBSET Nat]
    BY <1>1, <1>2
  <2>3. refused' \in [Trxs -> SUBSET Nat]
    <3>1. refused' = refused \/ refused' = [refused EXCEPT ![x] = @ \cup {n}]
      BY <1>2
    <3>2. refused[x] \cup {n} \subseteq Nat
      BY <1>1, <1>3
    <3>3. QED BY <1>1, <3>1, <3>2
  <2>4. QED BY <1>2, <2>1, <2>2, <2>3 DEF Inv, Typed
<1>12. ASSUME NEW y \in Trxs PROVE Gathered(y)' /\ Fresh(y)' /\ Meant(y)'
  <2>1. CASE y # x
    <3>1. /\ called'[y] = called[y] /\ statements'[y] = statements[y] /\ describing'[y] = describing[y]
          /\ refused'[y] = refused[y]
      BY <1>1, <1>2, <2>1
    <3>2. Active(y)' => Active(y)
      BY <1>2 DEF Active
    <3>3. QED BY <1>1, <1>2, <3>1, <3>2, GatheredStable, FreshStable, MeantStable
  <2>2. CASE y = x
    <3>1. Gathered(x)'
      <4>1. /\ describing'[x] \cap (Collected(x)' \cup refused'[x]) = {} /\ Collected(x)' \cap refused'[x] = {}
            /\ describing'[x] \cup Collected(x)' \cup refused'[x] = describing[x] \cup Collected(x) \cup refused[x]
            /\ refused'[x] \subseteq 1 .. called[x]
        BY <1>3, <1>10
      <4>2. Lists(statements'[x], program[x], called[x])
        BY <1>3, <1>9, <1>10
      <4>3. \A k \in describing'[x] : k \in 1 .. called[x] /\ program[x][k].op = "alter"
        BY <1>3, <1>10
      <4>4. /\ Active(x)' => describing'[x] \cup Collected(x)' \cup refused'[x] = 1 .. called[x]
            /\ state'[x] = "committing" => called[x] = Len(program[x])
            /\ state'[x] = "resolved" => describing'[x] = {}
        BY <1>1, <1>2, <1>10, <4>1 DEF Gathered, Active
      <4>5. QED BY <1>2, <4>1, <4>2, <4>3, <4>4 DEF Gathered
    <3>2. Fresh(x)'
      <4> SUFFICES ASSUME alone[x], Active(x) PROVE before[x] = database /\ Copies(statements'[x], program[x], database)
        BY <1>2 DEF Fresh, Active
      <4>1. before[x] = database /\ Copies(statements[x], program[x], database)
        BY <1>1 DEF Fresh
      <4>2. \A i \in DOMAIN statements'[x] :
               \/ i \in DOMAIN statements[x] /\ statements'[x][i] = statements[x][i]
               \/ statements'[x][i] = <<n, rebuild>>
        <5>1. <<n, rebuild>> \in Nat \X Statement
          BY <1>3, <1>6
        <5>2. /\ statements[x] \in Seq(Nat \X Statement)
              /\ statements'[x] = Append(statements[x], <<n, rebuild>>) \/ statements'[x] = statements[x]
          BY <1>1, <1>10
        <5>3. CASE statements'[x] = Append(statements[x], <<n, rebuild>>)
          BY <5>1, <5>2, <5>3, AppendOld
        <5>4. QED BY <5>2, <5>3
      <4>3. rebuild.copied = Copied(ColumnsOf(database, rebuild.table), program[x][n])
        BY <1>6
      <4>4. \A i \in DOMAIN statements'[x] : statements'[x][i][2].op = "rebuild" =>
               statements'[x][i][2].copied
                  = Copied(ColumnsOf(database, statements'[x][i][2].table), program[x][statements'[x][i][1]])
        BY <4>1, <4>2, <4>3 DEF Copies
      <4>5. QED BY <4>1, <4>4 DEF Copies
    <3>3. Meant(x)'
      BY <1>1, <1>2, MeantStable
    <3>4. QED BY <2>2, <3>1, <3>2, <3>3
  <2>3. QED BY <2>1, <2>2
<1>13. QED BY <1>11, <1>12 DEF Inv

LEMMA CommitInv == ASSUME Inv, NEW x \in Trxs, Commit(x) PROVE Inv'
<1>1. /\ state \in [Trxs -> {"open", "committing", "rolled back", "resolved", "rejected"}]
      /\ \A y \in Trxs : Gathered(y) /\ Fresh(y) /\ Meant(y)
  BY DEF Inv, Typed
<1>2. /\ state[x] = "open" /\ called[x] = Len(program[x]) /\ state' = [state EXCEPT ![x] = "committing"]
      /\ database' = database /\ program' = program /\ called' = called /\ statements' = statements
      /\ describing' = describing /\ refused' = refused
      /\ before' = before /\ after' = after /\ alone' = alone
  BY DEF Commit
<1>3. state'[x] = "committing" /\ \A y \in Trxs \ {x} : state'[y] = state[y]
  BY <1>1, <1>2
<1>4. Typed'
  BY <1>2 DEF Inv, Typed
<1>5. ASSUME NEW y \in Trxs PROVE Gathered(y)' /\ Fresh(y)' /\ Meant(y)'
  <2>1. Active(y)' => Active(y)
    BY <1>2, <1>3 DEF Active
  <2>2. Gathered(y)'
    <3>1. CASE y = x
      <4>1. Collected(x)' = Collected(x) /\ Active(x)
        BY <1>2 DEF Collected, Active
      <4>2. /\ Lists(statements'[x], program'[x], called'[x]) /\ refused'[x] \subseteq 1 .. called'[x]
            /\ \A n \in describing'[x] : n \in 1 .. called'[x] /\ program'[x][n].op = "alter"
            /\ describing'[x] \cap (Collected(x)' \cup refused'[x]) = {} /\ Collected(x)' \cap refused'[x] = {}
            /\ describing'[x] \cup Collected(x)' \cup refused'[x] = 1 .. called'[x]
        BY <1>1, <1>2, <4>1 DEF Gathered
      <4>3. QED BY <1>2, <1>3, <3>1, <4>2 DEF Gathered
    <3>2. CASE y # x
      BY <1>1, <1>2, <1>3, <3>2, GatheredStable
    <3>3. QED BY <3>1, <3>2
  <2>3. state'[y] = "resolved" => state[y] = "resolved"
    BY <1>3
  <2>4. QED BY <1>1, <1>2, <2>1, <2>2, <2>3, FreshStable, MeantStable
<1>6. QED BY <1>4, <1>5 DEF Inv

LEMMA RollbackInv == ASSUME Inv, NEW x \in Trxs, Rollback(x) PROVE Inv'
<1>1. /\ state \in [Trxs -> {"open", "committing", "rolled back", "resolved", "rejected"}]
      /\ statements \in [Trxs -> Seq(Nat \X Statement)]
      /\ \A y \in Trxs : Gathered(y) /\ Fresh(y) /\ Meant(y)
  BY DEF Inv, Typed
<1>2. /\ state[x] = "open" /\ state' = [state EXCEPT ![x] = "rolled back"]
      /\ statements' = [statements EXCEPT ![x] = <<>>]
      /\ database' = database /\ program' = program /\ called' = called
      /\ describing' = describing /\ refused' = refused
      /\ before' = before /\ after' = after /\ alone' = alone
  BY DEF Rollback
<1>3. /\ state'[x] = "rolled back" /\ statements'[x] = <<>> /\ DOMAIN <<>> = {}
      /\ \A y \in Trxs \ {x} : state'[y] = state[y] /\ statements'[y] = statements[y]
  <2>1. DOMAIN <<>> = {}
    OBVIOUS
  <2>2. \A y \in Trxs : statements'[y] = IF y = x THEN <<>> ELSE statements[y]
    BY <1>1, <1>2, Zenon
  <2>3. \A y \in Trxs : state'[y] = IF y = x THEN "rolled back" ELSE state[y]
    BY <1>1, <1>2
  <2>4. QED BY <2>1, <2>2, <2>3
<1>4. Typed'
  <2>1. statements' \in [Trxs -> Seq(Nat \X Statement)]
    <3>1. <<>> \in Seq(Nat \X Statement)
      OBVIOUS
    <3>2. QED BY <1>1, <1>2, <3>1, Zenon
  <2>2. QED BY <1>2, <2>1 DEF Inv, Typed
<1>5. ASSUME NEW y \in Trxs PROVE Gathered(y)' /\ Fresh(y)' /\ Meant(y)'
  <2>1. CASE y # x
    <3>1. Active(y)' => Active(y)
      BY <1>3, <2>1 DEF Active
    <3>2. QED BY <1>1, <1>2, <1>3, <2>1, <3>1, GatheredStable, FreshStable, MeantStable
  <2>2. CASE y = x
    <3>1. Collected(x)' = {} /\ ~Active(x)'
      BY <1>3 DEF Collected, Active
    <3>2. Lists(statements'[x], program'[x], called'[x])
      BY <1>3 DEF Lists
    <3>3. Gathered(x)'
      BY <1>1, <1>2, <1>3, <3>1, <3>2 DEF Gathered
    <3>4. QED BY <1>3, <2>2, <3>1, <3>3 DEF Fresh, Meant
  <2>3. QED BY <2>1, <2>2
<1>6. QED BY <1>4, <1>5 DEF Inv

LEMMA RefuseInv == ASSUME Inv, NEW x \in Trxs, Refuse(x) PROVE Inv'
<1>1. /\ state \in [Trxs -> {"open", "committing", "rolled back", "resolved", "rejected"}]
      /\ \A y \in Trxs : Gathered(y) /\ Fresh(y) /\ Meant(y)
  BY DEF Inv, Typed
<1>2. /\ state[x] = "committing" /\ state' = [state EXCEPT ![x] = "rejected"]
      /\ database' = database /\ program' = program /\ called' = called /\ statements' = statements
      /\ describing' = describing /\ refused' = refused
      /\ before' = before /\ after' = after /\ alone' = alone
  BY DEF Refuse
<1>3. state'[x] = "rejected" /\ \A y \in Trxs \ {x} : state'[y] = state[y]
  BY <1>1, <1>2
<1>4. Typed'
  BY <1>2 DEF Inv, Typed
<1>5. ASSUME NEW y \in Trxs PROVE Gathered(y)' /\ Fresh(y)' /\ Meant(y)'
  <2>1. Active(y)' => Active(y)
    BY <1>2, <1>3 DEF Active
  <2>2. Gathered(y)'
    <3>1. CASE y = x
      <4>1. Collected(x)' = Collected(x) /\ Active(x)
        BY <1>2 DEF Collected, Active
      <4>2. /\ Lists(statements'[x], program'[x], called'[x]) /\ refused'[x] \subseteq 1 .. called'[x]
            /\ \A n \in describing'[x] : n \in 1 .. called'[x] /\ program'[x][n].op = "alter"
            /\ describing'[x] \cap (Collected(x)' \cup refused'[x]) = {} /\ Collected(x)' \cap refused'[x] = {}
            /\ describing'[x] \cup Collected(x)' \cup refused'[x] = 1 .. called'[x]
        BY <1>1, <1>2, <4>1 DEF Gathered
      <4>3. QED BY <1>2, <1>3, <3>1, <4>2 DEF Gathered
    <3>2. CASE y # x
      BY <1>1, <1>2, <1>3, <3>2, GatheredStable
    <3>3. QED BY <3>1, <3>2
  <2>3. state'[y] = "resolved" => state[y] = "resolved"
    BY <1>3
  <2>4. QED BY <1>1, <1>2, <2>1, <2>2, <2>3, FreshStable, MeantStable
<1>6. QED BY <1>4, <1>5 DEF Inv

\* What a transaction that nothing came between commits is what its calls mean.
LEMMA BatchMeans ==
    ASSUME Inv, NEW x \in Trxs, state[x] = "committing", describing[x] = {}, refused[x] = {}, alone[x],
           Separate(x), KeepsColumns(x), ~RunAll(x, statements[x], database).failed
    PROVE  RunAll(x, statements[x], database).db = MeaningOf(x, before[x])
<1>1. /\ database \in Database /\ program[x] \in Seq(Op) /\ statements[x] \in Seq(Nat \X Statement)
      /\ Gathered(x) /\ Fresh(x)
  BY DEF Inv, Typed
<1>2. called[x] = Len(program[x]) /\ before[x] = database /\ Copies(statements[x], program[x], database)
  BY <1>1 DEF Gathered, Fresh, Active
<1>3. /\ Lists(statements[x], program[x], Len(program[x]))
      /\ {statements[x][i][1] : i \in DOMAIN statements[x]} = 1 .. Len(program[x])
  BY <1>1, <1>2 DEF Gathered, Active, Collected
<1>4. AltersApart(program[x]) /\ AltersKeep(program[x], database)
  BY <1>2 DEF Separate, KeepsColumns, AltersApart, AltersKeep
<1>5. PICK d : Course(d, x, statements[x], database)
               /\ RunAll(x, statements[x], database).db = d[Len(statements[x])]
  BY <1>1, RunIs, Zenon
<1>6. PICK e : Calls(e, x, program[x], database) /\ MeaningOf(x, database) = e[Len(program[x])]
  BY <1>1, MeaningOfIs, Zenon
<1>7. d[Len(statements[x])] = e[Len(program[x])]
  <2>1. Serves(statements[x], program[x], database)
    BY <1>1, <1>2, <1>3, <1>4 DEF Serves, Firsts
  <2>2. QED BY <1>5, <1>6, <2>1, CoursesAgree, SMTT(30)
<1>8. QED BY <1>2, <1>5, <1>6, <1>7

LEMMA RunBatchInv == ASSUME Inv, NEW x \in Trxs, RunBatch(x) PROVE Inv'
<1> DEFINE result == RunAll(x, statements[x], database)
<1>1. /\ state \in [Trxs -> {"open", "committing", "rolled back", "resolved", "rejected"}]
      /\ database \in Database /\ statements \in [Trxs -> Seq(Nat \X Statement)]
      /\ after \in [Trxs -> Database] /\ alone \in [Trxs -> BOOLEAN]
      /\ \A y \in Trxs : Gathered(y) /\ Fresh(y) /\ Meant(y)
  BY DEF Inv, Typed
<1>2. /\ state[x] = "committing" /\ describing[x] = {} /\ refused[x] = {}
      /\ database' = result.db /\ after' = [after EXCEPT ![x] = result.db]
      /\ state' = [state EXCEPT ![x] = IF result.failed THEN "rejected" ELSE "resolved"]
      /\ statements' = [statements EXCEPT ![x] = IF result.failed THEN @ ELSE <<>>]
      /\ alone' = [y \in Trxs |-> alone[y] /\ (y = x \/ state[y] \notin {"open", "committing"})]
      /\ program' = program /\ called' = called /\ describing' = describing /\ refused' = refused
      /\ before' = before
  BY DEF RunBatch, Described
<1>3. result.db \in Database
  BY <1>1, RunIs, Zenon
<1>4. ~result.failed /\ alone[x] /\ Separate(x) /\ KeepsColumns(x) => result.db = MeaningOf(x, before[x])
  BY <1>2, BatchMeans, Zenon
<1> HIDE DEF result
<1>5. /\ state'[x] = IF result.failed THEN "rejected" ELSE "resolved"
      /\ after'[x] = result.db
      /\ \A y \in Trxs \ {x} : state'[y] = state[y] /\ after'[y] = after[y]
  BY <1>1, <1>2
<1>6. /\ statements'[x] = IF result.failed THEN statements[x] ELSE <<>>
      /\ \A y \in Trxs \ {x} : statements'[y] = statements[y]
  BY <1>1, <1>2, Zenon
<1>7. \A y \in Trxs : alone'[y] => alone[y] /\ (y = x \/ ~Active(y))
  BY <1>2, Zenon DEF Active
<1>8. Typed'
  <2>1. state' \in [Trxs -> {"open", "committing", "rolled back", "resolved", "rejected"}]
    BY <1>1, <1>2
  <2>2. statements' \in [Trxs -> Seq(Nat \X Statement)]
    <3>1. <<>> \in Seq(Nat \X Statement)
      OBVIOUS
    <3>2. (IF result.failed THEN statements[x] ELSE <<>>) \in Seq(Nat \X Statement)
      BY <1>1, <3>1
    <3>3. QED BY <1>1, <1>2, <3>2, Zenon
  <2>3. alone' \in [Trxs -> BOOLEAN]
    BY <1>1, <1>2, Zenon
  <2>4. after' \in [Trxs -> Database] /\ database' \in Database
    BY <1>1, <1>2, <1>3
  <2>5. QED BY <1>2, <2>1, <2>2, <2>3, <2>4 DEF Inv, Typed
<1>9. ASSUME NEW y \in Trxs PROVE Gathered(y)' /\ Fresh(y)' /\ Meant(y)'
  <2>1. CASE y # x
    <3>1. state'[y] = state[y] /\ after'[y] = after[y] /\ statements'[y] = statements[y]
      BY <1>5, <1>6, <2>1
    <3>2. Gathered(y)'
      BY <1>1, <1>2, <3>1, GatheredStable
    <3>3. Fresh(y)'
      BY <1>7, <2>1, <3>1 DEF Fresh, Active
    <3>4. Meant(y)'
      BY <1>1, <1>2, <1>7, <3>1, MeantStable
    <3>5. QED BY <3>2, <3>3, <3>4
  <2>2. CASE y = x
    <3>1. ~Active(x)' /\ state'[x] # "committing"
      BY <1>5 DEF Active
    <3>2. Gathered(x)'
      <4>1. /\ Lists(statements[x], program[x], called[x]) /\ refused[x] \subseteq 1 .. called[x]
        BY <1>1 DEF Gathered
      <4>2. Lists(<<>>, program[x], called[x])
        <5>1. DOMAIN <<>> = {}
          OBVIOUS
        <5>2. QED BY <5>1 DEF Lists
      <4>3. Lists(statements'[x], program[x], called[x])
        BY <1>6, <4>1, <4>2
      <4>4. QED BY <1>2, <3>1, <4>1, <4>3 DEF Gathered
    <3>3. Meant(x)'
      <4>1. MeaningOf(x, before[x])' = MeaningOf(x, before[x])
        BY <1>2, MeaningStable
      <4>2. (Separate(x)' => Separate(x)) /\ (KeepsColumns(x)' => KeepsColumns(x))
        BY <1>2 DEF Separate, KeepsColumns
      <4>3. state'[x] = "resolved" => ~result.failed
        BY <1>5
      <4>4. QED BY <1>4, <1>5, <1>7, <4>1, <4>2, <4>3, Zenon DEF Meant
    <3>4. QED BY <2>2, <3>1, <3>2, <3>3 DEF Fresh
  <2>3. QED BY <2>1, <2>2
<1>10. QED BY <1>8, <1>9 DEF Inv

LEMMA NextInv == Inv /\ [Next]_vars => Inv'
<1> SUFFICES ASSUME Inv, [Next]_vars PROVE Inv'
  OBVIOUS
<1>1. CASE Next
  <2>1. PICK x \in Trxs : \/ Execute(x) \/ Commit(x) \/ Rollback(x) \/ RunBatch(x) \/ Refuse(x)
                          \/ \E n \in describing[x] : Describe(x, n)
    BY <1>1 DEF Next
  <2>2. QED BY <2>1, ExecuteInv, CommitInv, RollbackInv, RunBatchInv, RefuseInv, DescribeInv
<1>2. CASE UNCHANGED vars
  <2>1. /\ database' = database /\ program' = program /\ called' = called /\ statements' = statements
        /\ describing' = describing /\ refused' = refused /\ state' = state
        /\ before' = before /\ after' = after /\ alone' = alone
    BY <1>2 DEF vars
  <2>2. Typed'
    BY <2>1 DEF Inv, Typed
  <2>3. ASSUME NEW y \in Trxs PROVE Gathered(y)' /\ Fresh(y)' /\ Meant(y)'
    <3>1. (Active(y)' => Active(y)) /\ Gathered(y) /\ Fresh(y) /\ Meant(y)
      BY <2>1 DEF Active, Inv
    <3>2. QED BY <2>1, <3>1, GatheredStable, FreshStable, MeantStable
  <2>4. QED BY <2>2, <2>3 DEF Inv
<1>3. QED BY <1>1, <1>2

LEMMA AlwaysInv == Spec => []Inv
BY InitInv, NextInv, PTL DEF Spec

\* A call is collected once: the list is as long as the set of the calls in it.
LEMMA CollectedOnce ==
    ASSUME NEW batch \in Seq(Nat \X Statement), \A i, j \in DOMAIN batch : batch[i][1] = batch[j][1] => i = j
    PROVE  Cardinality(Firsts(batch)) = Len(batch)
<1> DEFINE f == [i \in DOMAIN batch |-> batch[i][1]]
<1>1. Len(batch) \in Nat /\ DOMAIN batch = 1 .. Len(batch)
  BY LenProperties
<1>2. f \in [1 .. Len(batch) -> Firsts(batch)]
  BY <1>1 DEF Firsts
<1>3. IsInjective(f)
  BY <1>1 DEF IsInjective
<1>4. \A n \in Firsts(batch) : \E i \in 1 .. Len(batch) : f[i] = n
  BY <1>1 DEF Firsts
<1>5. ExistsBijection(1 .. Len(batch), Firsts(batch))
  BY <1>2, <1>3, <1>4 DEF ExistsBijection, Bijection, Injection, Surjection
<1>6. QED BY <1>1, <1>5, FS_CountingElements

LEMMA InvImplies == Inv => SeparateCallsAreCommitted
<1> SUFFICES ASSUME Inv PROVE SeparateCallsAreCommitted
  OBVIOUS
<1>1. ASSUME NEW x \in Trxs PROVE Cardinality(Collected(x)) = Len(statements[x])
  <2>1. /\ statements[x] \in Seq(Nat \X Statement)
        /\ \A i, j \in DOMAIN statements[x] : statements[x][i][1] = statements[x][j][1] => i = j
    BY DEF Inv, Typed, Gathered, Lists
  <2>2. Cardinality(Firsts(statements[x])) = Len(statements[x])
    BY <2>1, CollectedOnce
  <2>3. QED BY <2>2 DEF Collected, Firsts
<1>2. TypeOK
  BY <1>1 DEF Inv, Typed, Database, Gathered, Active, TypeOK
<1>3. QED BY <1>2 DEF Inv, Meant, SeparateCallsAreCommitted

\* A transaction that resolves did what its calls mean, whatever the number of
\* transactions, if nothing was committed meanwhile, no table is altered and used
\* by another call, and each altered table keeps a column.
THEOREM CommitsMeanTheirCalls == Spec => []SeparateCallsAreCommitted
BY AlwaysInv, InvImplies, PTL

-----------------------------------------------------------------------------
\* A statement that does not fail leaves the rows of a table it does not drop,
\* if it keeps a column of it.
Keeps(s, t) == s.table = t => s.op # "drop" /\ (s.op = "rebuild" => s.copied # {})

LEMMA EffectKeepsRows ==
    ASSUME NEW db \in Database, NEW s \in Statement, NEW r \in Rows, NEW t \in Tables,
           ~Fails(db, s), Keeps(s, t), db[t] # None
    PROVE  Effect(db, s, r)[t] # None /\ db[t].rows \subseteq Effect(db, s, r)[t].rows
<1>1. /\ s.op \in {"insert", "create", "drop", "rebuild"}
      /\ s.op = "rebuild" => s.copied \subseteq Columns /\ s.added \subseteq Columns
  BY OpIs
<1>2. db[t] \in Table /\ db[t].columns \subseteq Columns /\ db[t].rows \subseteq Rows
  BY DEF Database, Table
<1>3. CASE s.table # t
  <2>1. Effect(db, s, r)[t] = db[t]
    BY <1>3, EffectElsewhere, Zenon
  <2>2. QED BY <2>1
<1>4. CASE s.table = t /\ s.op = "create"
  BY <1>4 DEF Fails
<1>5. CASE s.table = t /\ s.op = "insert"
  <2> DEFINE v == [columns |-> db[t].columns, rows |-> db[t].rows \cup {r}]
  <2>1. Effect(db, s, r)[t] = v
    <3>1. s.op = "insert"
      BY <1>5
    <3>2. Effect(db, s, r)[s.table] = [columns |-> db[s.table].columns, rows |-> db[s.table].rows \cup {r}]
      BY <3>1, InsertIs, SMTT(30)
    <3>3. QED BY <1>5, <3>2
  <2>2. v \in Table /\ v.rows = db[t].rows \cup {r}
    BY <1>2 DEF Table
  <2>3. QED BY <2>1, <2>2, SQLiteAssumption
<1>6. CASE s.table = t /\ s.op = "rebuild"
  <2> DEFINE v == [columns |-> s.copied \cup s.added, rows |-> db[t].rows]
  <2>1. s.copied # {} /\ RowsCopied(db, s) = db[t].rows
    BY <1>6 DEF Keeps, RowsCopied
  <2>2. Effect(db, s, r)[t] = v
    <3>1. Effect(db, s, r)[s.table] = [columns |-> s.copied \cup s.added, rows |-> RowsCopied(db, s)]
      BY <1>6, EffectIs, ZenonT(60)
    <3>2. QED BY <1>6, <2>1, <3>1
  <2>3. v \in Table /\ v.rows = db[t].rows
    BY <1>1, <1>2, <1>6 DEF Table
  <2>4. QED BY <2>2, <2>3, SQLiteAssumption
<1>7. QED BY <1>1, <1>3, <1>4, <1>5, <1>6 DEF Keeps

LEMMA CourseKeepsRows ==
    ASSUME NEW x \in Trxs, NEW batch \in Seq(Nat \X Statement), NEW start \in Database,
           NEW d, Course(d, x, batch, start), NEW t \in Tables, start[t] # None,
           \A i \in DOMAIN batch : Keeps(batch[i][2], t)
    PROVE  start[t].rows \subseteq d[Len(batch)][t].rows
<1> DEFINE Good(n) == d[n][t] # None /\ start[t].rows \subseteq d[n][t].rows
           bad == {n \in 0 .. Len(batch) : ~Good(n)}
<1>1. /\ Len(batch) \in Nat /\ DOMAIN batch = 1 .. Len(batch)
      /\ \A n \in 1 .. Len(batch) : batch[n] \in Nat \X Statement
  BY LenProperties, ElementOfSeq
<1>2. Good(0)
  BY DEF Course
<1>3. ASSUME NEW n \in 1 .. Len(batch), Good(n - 1) PROVE Good(n)
  <2>1. n - 1 \in 0 .. Len(batch)
    BY <1>1
  <2>2. /\ d[n - 1] \in Database /\ batch[n][2] \in Statement /\ <<x, batch[n][1]>> \in Rows
        /\ ~Fails(d[n - 1], batch[n][2]) /\ Keeps(batch[n][2], t)
        /\ d[n] = Effect(d[n - 1], batch[n][2], <<x, batch[n][1]>>)
    BY <1>1, <2>1 DEF Course, Rows
  <2>3. /\ Effect(d[n - 1], batch[n][2], <<x, batch[n][1]>>)[t] # None
        /\ d[n - 1][t].rows \subseteq Effect(d[n - 1], batch[n][2], <<x, batch[n][1]>>)[t].rows
    BY <1>3, <2>2, EffectKeepsRows, Zenon
  <2>4. QED BY <1>3, <2>2, <2>3
<1>4. bad = {}
  <2> SUFFICES ASSUME bad # {} PROVE FALSE
    OBVIOUS
  <2> HIDE DEF Good
  <2>1. bad \subseteq Nat
    BY <1>1
  <2>2. PICK n \in bad : \A j \in bad : ~ j < n
    BY <2>1, LeastIndex
  <2>3. n \in 1 .. Len(batch) /\ n - 1 \in 0 .. Len(batch) /\ n - 1 < n
    BY <1>1, <1>2, <2>2
  <2>4. QED BY <1>3, <2>2, <2>3
<1>5. QED BY <1>1, <1>4

\* A step that resolves a transaction leaves the rows of the tables it does not
\* drop, whatever was committed since it described them.
THEOREM ResolvingKeepsRows == Spec => RowsSurvive
<1> DEFINE Kept(x, t) ==
        /\ state[x] = "committing" /\ state'[x] = "resolved" /\ database[t] # None
        /\ \A i \in DOMAIN statements[x] :
              statements[x][i][2].table = t =>
                  /\ statements[x][i][2].op # "drop"
                  /\ statements[x][i][2].op = "rebuild" => statements[x][i][2].copied # {}
        => database[t].rows \subseteq database'[t].rows
<1>1. ASSUME Inv, [Next]_vars, NEW x \in Trxs, NEW t \in Tables PROVE Kept(x, t)
  <2> SUFFICES ASSUME state[x] = "committing", state'[x] = "resolved", database[t] # None,
                      \A i \in DOMAIN statements[x] :
                          statements[x][i][2].table = t =>
                              /\ statements[x][i][2].op # "drop"
                              /\ statements[x][i][2].op = "rebuild" => statements[x][i][2].copied # {}
               PROVE  database[t].rows \subseteq database'[t].rows
    OBVIOUS
  <2>1. /\ database \in Database /\ statements[x] \in Seq(Nat \X Statement)
        /\ state \in [Trxs -> {"open", "committing", "rolled back", "resolved", "rejected"}]
    BY <1>1 DEF Inv, Typed
  <2>2. RunBatch(x)
    <3>1. PICK y \in Trxs : \/ Execute(y) \/ Commit(y) \/ Rollback(y) \/ RunBatch(y) \/ Refuse(y)
                            \/ \E n \in describing[y] : Describe(y, n)
      BY <1>1 DEF Next, vars
    <3>2. ASSUME NEW n \in describing[y] PROVE ~Describe(y, n)
      BY DEF Describe
    <3>3. ~Execute(y)
      BY DEF Execute
    <3>4. ~Commit(y) /\ ~Rollback(y) /\ ~Refuse(y)
      BY <2>1 DEF Commit, Rollback, Refuse
    <3>5. RunBatch(y)
      BY <3>1, <3>2, <3>3, <3>4
    <3>6. y = x
      BY <2>1, <3>5 DEF RunBatch
    <3>7. QED BY <3>5, <3>6
  <2>3. ~RunAll(x, statements[x], database).failed /\ database' = RunAll(x, statements[x], database).db
    BY <2>1, <2>2 DEF RunBatch
  <2>4. PICK d : Course(d, x, statements[x], database)
                 /\ RunAll(x, statements[x], database).db = d[Len(statements[x])]
    BY <2>1, <2>3, RunIs, Zenon
  <2>5. \A i \in DOMAIN statements[x] : Keeps(statements[x][i][2], t)
    BY DEF Keeps
  <2>6. database[t].rows \subseteq d[Len(statements[x])][t].rows
    BY <2>1, <2>4, <2>5, CourseKeepsRows, Zenon
  <2>7. QED BY <2>3, <2>4, <2>6
<1>2. ASSUME Inv, [Next]_vars
      PROVE  [\A x \in Trxs : \A t \in Tables :
          /\ state[x] = "committing" /\ state'[x] = "resolved"
          /\ database[t] # None
          /\ \A i \in DOMAIN statements[x] :
                statements[x][i][2].table = t =>
                    /\ statements[x][i][2].op # "drop"
                    /\ statements[x][i][2].op = "rebuild" => statements[x][i][2].copied # {}
          => database[t].rows \subseteq database'[t].rows]_vars
  BY <1>1, <1>2, Zenon
<1>3. QED BY <1>2, AlwaysInv, PTL DEF Spec, RowsSurvive
=============================================================================
