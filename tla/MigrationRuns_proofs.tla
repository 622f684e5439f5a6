------------------------ MODULE MigrationRuns_proofs ------------------------
(***************************************************************************)
(* The schema depends on the revision alone, rows fit the life cycle of    *)
(* revision 9, and only rows of older releases keep a container from       *)
(* starting: for every number of containers and consoles, every mix of     *)
(* releases, every crash and all rows an older release may have left.      *)
(*                                                                         *)
(* In this order:                                                          *)
(*   - what each statement (Change, AddColumns, ...) does to a database    *)
(*     whose tables are known, and what it leaves alone;                   *)
(*   - the schemas S0 to S10 of the eleven revisions, written out;         *)
(*   - Up1 to Up10 and Back1 to Back10: revision r leads from the schema   *)
(*     r - 1 to the schema r and back, with what it asks of the rows;      *)
(*   - Sound(d, r), "d is a database at revision r": UpgradeSound and      *)
(*     DowngradeSound sum up the revisions, FreshSchemas follows;          *)
(*   - LastServes: the tables of S10 are those the models declare;         *)
(*   - the inductive invariant Inv, kept by every action of MigrationRuns. *)
(***************************************************************************)
EXTENDS MigrationRuns, TLAPS

Checkpoints == DOMAIN CheckpointTables

\* A database is a record of its parts.
IsDb(d) ==
    /\ d = [tables |-> d.tables, checks |-> d.checks, filled |-> d.filled, ok |-> d.ok,
            session |-> d.session, enrolment |-> d.enrolment]
    /\ d.ok \in BOOLEAN

\* Unless a statement was refused, the tables are those of T and, maybe, the
\* LangGraph ones.
At(d, T) ==
    /\ IsDb(d)
    /\ d.ok => Own(d.tables) = T /\ d.filled \subseteq DOMAIN d.tables

\* What a statement on tables leaves alone; no LangGraph table comes with it.
Stay(d, e) ==
    /\ e.checks = d.checks /\ e.filled = d.filled
    /\ e.session = d.session /\ e.enrolment = d.enrolment
    /\ e.ok => d.ok
IsFun(T) == T = [t \in DOMAIN T |-> T[t]]
Leaner(d, e) ==
    e.ok => /\ d.ok
            /\ IsFun(d.tables) => IsFun(e.tables)
            /\ DOMAIN e.tables \cap Checkpoints \subseteq DOMAIN d.tables
Same(d, e) == Stay(d, e) /\ Leaner(d, e)

\* T with the table t replaced.
Put(T, t, table) == Override(T, [x \in {t} |-> table])

LEMMA ChangeFields ==
  ASSUME NEW d, IsDb(d), NEW cond \in BOOLEAN, NEW new, NEW r, r = Change(d, cond, new)
  PROVE  /\ IsDb(r) /\ Stay(d, r)
         /\ r.ok <=> d.ok /\ cond
         /\ r.ok => r.tables = Override(d.tables, new)
<1>1. CASE d.ok /\ cond
  <2>1. r = [tables |-> Override(d.tables, new), checks |-> d.checks, filled |-> d.filled,
             ok |-> d.ok, session |-> d.session, enrolment |-> d.enrolment]
    BY <1>1 DEF IsDb, Change, If
  <2>2. /\ r.tables = Override(d.tables, new) /\ r.checks = d.checks /\ r.filled = d.filled
        /\ r.ok = d.ok /\ r.session = d.session /\ r.enrolment = d.enrolment
    BY <2>1
  <2> QED
    BY <1>1, <2>1, <2>2, Zenon DEF IsDb, Stay
<1>2. CASE ~(d.ok /\ cond)
  <2>1. r = [tables |-> d.tables, checks |-> d.checks, filled |-> d.filled,
             ok |-> FALSE, session |-> d.session, enrolment |-> d.enrolment]
    BY <1>2 DEF IsDb, Change, If
  <2>2. /\ r.tables = d.tables /\ r.checks = d.checks /\ r.filled = d.filled
        /\ r.ok = FALSE /\ r.session = d.session /\ r.enrolment = d.enrolment
    BY <2>1
  <2> QED
    BY <1>2, <2>1, <2>2, Zenon DEF IsDb, Stay
<1> QED
  BY <1>1, <1>2

LEMMA OwnTables ==
  ASSUME NEW tables
  PROVE  /\ DOMAIN Own(tables) = DOMAIN tables \ Checkpoints
         /\ \A t \in DOMAIN tables \ Checkpoints : Own(tables)[t] = tables[t]
  BY DEF Own, Restrict, Checkpoints

LEMMA OwnOverride ==
  ASSUME NEW tables, NEW new, DOMAIN new \cap Checkpoints = {}
  PROVE  Own(Override(tables, new)) = Override(Own(tables), new)
<1> DEFINE A == DOMAIN tables \ Checkpoints
<1>1. DOMAIN Override(Own(tables), new) = A \cup DOMAIN new
      /\ DOMAIN Own(Override(tables, new)) = A \cup DOMAIN new
  BY DEF Own, Restrict, Checkpoints, Override
<1>2. \A t \in A \cup DOMAIN new : Own(Override(tables, new))[t] = Override(Own(tables), new)[t]
  BY DEF Own, Restrict, Checkpoints, Override
<1>3. Own(Override(tables, new)) = [t \in A \cup DOMAIN new |-> Own(Override(tables, new))[t]]
  BY <1>1 DEF Own, Restrict
<1>4. Override(Own(tables), new) = [t \in A \cup DOMAIN new |-> Override(Own(tables), new)[t]]
  BY <1>1 DEF Override
<1> QED
  BY <1>2, <1>3, <1>4

LEMMA ChangeAt ==
  ASSUME NEW d, NEW T, At(d, T), NEW cond \in BOOLEAN, NEW new, DOMAIN new \cap Checkpoints = {},
         NEW r, r = Change(d, cond, new)
  PROVE  At(r, Override(T, new)) /\ Same(d, r) /\ (r.ok <=> d.ok /\ cond)
<1>1. IsDb(d)
  BY DEF At
<1>2. /\ IsDb(r) /\ Stay(d, r)
      /\ r.ok <=> d.ok /\ cond
      /\ r.ok => r.tables = Override(d.tables, new)
  BY <1>1, ChangeFields
<1>3. ASSUME r.ok PROVE Own(r.tables) = Override(T, new) /\ r.filled \subseteq DOMAIN r.tables
  <2>1. /\ Own(d.tables) = T /\ d.filled \subseteq DOMAIN d.tables
        /\ r.tables = Override(d.tables, new)
    BY <1>2, <1>3 DEF At
  <2>2. r.filled = d.filled
    BY <1>2 DEF Stay
  <2>3. DOMAIN d.tables \subseteq DOMAIN r.tables
    BY <2>1 DEF Override
  <2> QED
    BY <2>1, <2>2, <2>3, OwnOverride
<1>4. Leaner(d, r)
  BY <1>2 DEF Leaner, IsFun, Override
<1> QED
  BY <1>2, <1>3, <1>4 DEF At, Same

\* In a database at T the tables of T are those stored.
LEMMA AtTables ==
  ASSUME NEW d, NEW T, At(d, T), d.ok
  PROVE  DOMAIN T = DOMAIN d.tables \ Checkpoints /\ \A t \in DOMAIN T : d.tables[t] = T[t]
  BY OwnTables DEF At

\* A statement on some tables of T, its condition and its outcome read off the
\* stored tables or off T.
LEMMA StatementAt ==
  ASSUME NEW d, NEW T, At(d, T), NEW r,
         NEW condD \in BOOLEAN, NEW condT \in BOOLEAN, NEW newD, NEW newT,
         DOMAIN newD = DOMAIN newT, DOMAIN newT \cap Checkpoints = {},
         d.ok => (condD <=> condT) /\ (condT => newD = newT),
         r = Change(d, condD, newD)
  PROVE  At(r, Override(T, newT)) /\ Same(d, r) /\ (r.ok <=> d.ok /\ condT)
<1>1. At(r, Override(T, newD)) /\ Same(d, r) /\ (r.ok <=> d.ok /\ condD)
  BY ChangeAt
<1>2. CASE r.ok
  BY <1>1, <1>2
<1>3. CASE ~r.ok
  BY <1>1, <1>3 DEF At
<1> QED
  BY <1>1, <1>2, <1>3

LEMMA AddAt ==
  ASSUME NEW d, NEW T, At(d, T), NEW names, names \cap Checkpoints = {}, NEW free, NEW must,
         NEW r, r = AddColumns(d, names, free, must)
  PROVE  /\ At(r, Override(T, [t \in names |-> With(T[t], free, must)])) /\ Same(d, r)
         /\ r.ok <=> /\ d.ok /\ names \subseteq DOMAIN T
                     /\ \A t \in names : (free \cup must) \cap Columns(T[t]) = {}
                     /\ must = {} \/ names \cap d.filled = {}
<1> DEFINE cond(tables) ==
             /\ names \subseteq DOMAIN tables
             /\ \A t \in names : (free \cup must) \cap Columns(tables[t]) = {}
             /\ must = {} \/ names \cap d.filled = {}
           new(tables) == [t \in names |-> With(tables[t], free, must)]
<1>1. r = Change(d, cond(d.tables), new(d.tables))
  BY DEF AddColumns
<1>2. /\ cond(d.tables) \in BOOLEAN /\ cond(T) \in BOOLEAN
      /\ DOMAIN new(d.tables) = names /\ DOMAIN new(T) = names
  OBVIOUS
<1>3. ASSUME d.ok PROVE (cond(d.tables) <=> cond(T)) /\ (cond(T) => new(d.tables) = new(T))
  <2>1. DOMAIN T = DOMAIN d.tables \ Checkpoints /\ \A t \in DOMAIN T : d.tables[t] = T[t]
    BY <1>3, AtTables
  <2>2. ASSUME cond(T) PROVE new(d.tables) = new(T)
    BY <2>1, <2>2
  <2> QED
    BY <2>1, <2>2
<1>4. At(r, Override(T, new(T))) /\ Same(d, r) /\ (r.ok <=> d.ok /\ cond(T))
  <2> HIDE DEF cond, new
  <2> QED
    BY <1>1, <1>2, <1>3, StatementAt
<1> QED
  BY <1>4

LEMMA DropAt ==
  ASSUME NEW d, NEW T, At(d, T), NEW names, names \cap Checkpoints = {}, NEW columns,
         NEW r, r = DropColumns(d, names, columns)
  PROVE  /\ At(r, Override(T, [t \in names |-> Without(T[t], columns)])) /\ Same(d, r)
         /\ r.ok <=> /\ d.ok /\ names \subseteq DOMAIN T
                     /\ \A t \in names : columns \subseteq Columns(T[t])
<1> DEFINE cond(tables) ==
             names \subseteq DOMAIN tables /\ \A t \in names : columns \subseteq Columns(tables[t])
           new(tables) == [t \in names |-> Without(tables[t], columns)]
<1>1. r = Change(d, cond(d.tables), new(d.tables))
  BY DEF DropColumns
<1>2. /\ cond(d.tables) \in BOOLEAN /\ cond(T) \in BOOLEAN
      /\ DOMAIN new(d.tables) = names /\ DOMAIN new(T) = names
  OBVIOUS
<1>3. ASSUME d.ok PROVE (cond(d.tables) <=> cond(T)) /\ (cond(T) => new(d.tables) = new(T))
  <2>1. DOMAIN T = DOMAIN d.tables \ Checkpoints /\ \A t \in DOMAIN T : d.tables[t] = T[t]
    BY <1>3, AtTables
  <2>2. ASSUME cond(T) PROVE new(d.tables) = new(T)
    BY <2>1, <2>2
  <2> QED
    BY <2>1, <2>2
<1>4. At(r, Override(T, new(T))) /\ Same(d, r) /\ (r.ok <=> d.ok /\ cond(T))
  <2> HIDE DEF cond, new
  <2> QED
    BY <1>1, <1>2, <1>3, StatementAt
<1> QED
  BY <1>4

\* T has the columns of some tables.
HasThem(T, columns) ==
    /\ DOMAIN columns \subseteq DOMAIN T
    /\ \A t \in DOMAIN columns : columns[t] \subseteq Columns(T[t])

LEMMA DefaultsAt ==
  ASSUME NEW d, NEW T, At(d, T), NEW columns, DOMAIN columns \cap Checkpoints = {}, NEW r
  PROVE  /\ r = DropDefaults(d, columns) =>
            /\ At(r, Override(T, [t \in DOMAIN columns |-> Bare(T[t], columns[t])]))
            /\ Same(d, r) /\ (r.ok <=> d.ok /\ HasThem(T, columns))
         /\ r = SetDefaults(d, columns) =>
            /\ At(r, Override(T, [t \in DOMAIN columns |-> Defaulted(T[t], columns[t])]))
            /\ Same(d, r) /\ (r.ok <=> d.ok /\ HasThem(T, columns))
<1> DEFINE cond(tables) == HasThem(tables, columns)
           bare(tables) == [t \in DOMAIN columns |-> Bare(tables[t], columns[t])]
           defaulted(tables) == [t \in DOMAIN columns |-> Defaulted(tables[t], columns[t])]
<1>1. HasColumns(d, columns) <=> cond(d.tables)
  BY DEF HasColumns, HasThem
<1>2. /\ cond(d.tables) \in BOOLEAN /\ cond(T) \in BOOLEAN
      /\ DOMAIN bare(d.tables) = DOMAIN columns /\ DOMAIN bare(T) = DOMAIN columns
      /\ DOMAIN defaulted(d.tables) = DOMAIN columns /\ DOMAIN defaulted(T) = DOMAIN columns
  BY DEF HasThem
<1>3. ASSUME d.ok
      PROVE  /\ cond(d.tables) <=> cond(T)
             /\ cond(T) => bare(d.tables) = bare(T) /\ defaulted(d.tables) = defaulted(T)
  <2>1. DOMAIN T = DOMAIN d.tables \ Checkpoints /\ \A t \in DOMAIN T : d.tables[t] = T[t]
    BY <1>3, AtTables
  <2>2. ASSUME cond(T) PROVE bare(d.tables) = bare(T) /\ defaulted(d.tables) = defaulted(T)
    BY <2>1, <2>2 DEF HasThem
  <2> QED
    BY <2>1, <2>2 DEF HasThem
<1>4. ASSUME r = DropDefaults(d, columns)
      PROVE  At(r, Override(T, bare(T))) /\ Same(d, r) /\ (r.ok <=> d.ok /\ cond(T))
  <2>1. r = Change(d, HasColumns(d, columns), bare(d.tables)) /\ HasColumns(d, columns) \in BOOLEAN
    BY <1>4 DEF DropDefaults, HasColumns
  <2> HIDE DEF cond, bare
  <2> QED
    BY <1>1, <1>2, <1>3, <2>1, StatementAt, SMTT(30)
<1>5. ASSUME r = SetDefaults(d, columns)
      PROVE  At(r, Override(T, defaulted(T))) /\ Same(d, r) /\ (r.ok <=> d.ok /\ cond(T))
  <2>1. /\ r = Change(d, HasColumns(d, columns), defaulted(d.tables))
        /\ HasColumns(d, columns) \in BOOLEAN
    BY <1>5 DEF SetDefaults, HasColumns
  <2> HIDE DEF cond, defaulted
  <2> QED
    BY <1>1, <1>2, <1>3, <2>1, StatementAt, SMTT(30)
<1> QED
  BY <1>4, <1>5

LEMMA CreateAt ==
  ASSUME NEW d, NEW T, At(d, T), NEW new, DOMAIN new \cap Checkpoints = {},
         NEW r, r = CreateTables(d, new)
  PROVE  /\ At(r, Override(T, new)) /\ Same(d, r)
         /\ r.ok <=> d.ok /\ DOMAIN new \cap DOMAIN T = {}
<1> DEFINE cond(tables) == DOMAIN new \cap DOMAIN tables = {}
<1>1. r = Change(d, cond(d.tables), new)
  BY DEF CreateTables
<1>2. d.ok => (cond(d.tables) <=> cond(T))
  <2>1. ASSUME d.ok PROVE DOMAIN T = DOMAIN d.tables \ Checkpoints
    BY <2>1, AtTables
  <2>2. ASSUME DOMAIN T = DOMAIN d.tables \ Checkpoints PROVE cond(d.tables) <=> cond(T)
    <3>1. ASSUME NEW x \in DOMAIN new PROVE x \in DOMAIN T <=> x \in DOMAIN d.tables
      BY <2>2
    <3> QED
      BY <3>1
  <2> QED
    BY <2>1, <2>2
<1>3. cond(d.tables) \in BOOLEAN /\ cond(T) \in BOOLEAN
  OBVIOUS
<1>4. At(r, Override(T, new)) /\ Same(d, r) /\ (r.ok <=> d.ok /\ cond(T))
  <2> HIDE DEF cond
  <2> QED
    BY <1>1, <1>2, <1>3, StatementAt, SMTT(30)
<1> QED
  BY <1>4

\* The columns are new to the table, or all there.
Fresh(columns, table) == columns \cap Columns(table) = {}
Has(columns, table) == columns \subseteq Columns(table)

Keeps(keys, refs, table) == keys \subseteq table.keys /\ refs \subseteq table.refs

\* A table that one statement after the other can tie to the session.
Ties(table, free, must, keys, refs, newKeys, newRefs) ==
    /\ must # {} /\ Fresh(free \cup must, table) /\ Keeps(keys, refs, table)
    /\ Over(newKeys, newRefs) \subseteq free \cup must

LEMMA PutThere ==
  ASSUME NEW T, NEW t, NEW v
  PROVE  Put(T, t, v)[t] = v /\ t \in DOMAIN Put(T, t, v)
  BY DEF Put, Override

LEMMA PutElsewhere ==
  ASSUME NEW T, NEW t, NEW v
  PROVE  /\ DOMAIN Put(T, t, v) = DOMAIN T \cup {t}
         /\ \A u \in DOMAIN T \ {t} : Put(T, t, v)[u] = T[u]
  BY DEF Put, Override

LEMMA PutAgain ==
  ASSUME NEW T, NEW t, NEW v, NEW w
  PROVE  Put(Put(T, t, v), t, w) = Put(T, t, w)
  BY DEF Put, Override

LEMMA PutBack ==
  ASSUME NEW T, T = [x \in DOMAIN T |-> T[x]], NEW t \in DOMAIN T, NEW v
  PROVE  Put(T, t, T[t]) = T /\ Put(Put(T, t, v), t, T[t]) = T
<1>1. Put(T, t, T[t]) = T
  BY DEF Put, Override
<1>2. Put(Put(T, t, v), t, T[t]) = Put(T, t, T[t])
  BY PutAgain
<1> QED
  BY <1>1, <1>2

\* What a statement does to one table.
LEMMA AddOne ==
  ASSUME NEW T, NEW t, t \notin Checkpoints, NEW table, NEW d, At(d, Put(T, t, table)),
         NEW free, NEW must, NEW r, r = AddColumns(d, {t}, free, must)
  PROVE  /\ At(r, Put(T, t, With(table, free, must))) /\ Same(d, r)
         /\ r.ok <=> d.ok /\ Fresh(free \cup must, table) /\ (must = {} \/ t \notin d.filled)
<1> DEFINE U == Put(T, t, table)
<1>0. At(d, U)
  OBVIOUS
<1> DEFINE names == {t}
<1>1. /\ At(r, Override(U, [x \in names |-> With(U[x], free, must)])) /\ Same(d, r)
      /\ r.ok <=> /\ d.ok /\ names \subseteq DOMAIN U
                  /\ \A x \in names : (free \cup must) \cap Columns(U[x]) = {}
                  /\ must = {} \/ names \cap d.filled = {}
  <2>1. names \cap Checkpoints = {} /\ r = AddColumns(d, names, free, must)
    OBVIOUS
  <2> HIDE DEF U, names
  <2> QED
    BY <1>0, <2>1, AddAt
<1>2. U[t] = table /\ t \in DOMAIN U
  BY PutThere
<1>3. [x \in {t} |-> With(U[x], free, must)] = [x \in {t} |-> With(table, free, must)]
  BY <1>2
<1>4. Override(U, [x \in {t} |-> With(U[x], free, must)]) = Put(T, t, With(table, free, must))
  <2>1. Override(U, [x \in {t} |-> With(table, free, must)]) = Put(U, t, With(table, free, must))
    BY DEF Put
  <2>2. Put(U, t, With(table, free, must)) = Put(T, t, With(table, free, must))
    BY PutAgain
  <2> QED
    BY <1>3, <2>1, <2>2
<1> HIDE DEF U
<1> QED
  BY <1>1, <1>2, <1>3, <1>4 DEF Fresh, Has

LEMMA DropOne ==
  ASSUME NEW T, NEW t, t \notin Checkpoints, NEW table, NEW d, At(d, Put(T, t, table)),
         NEW columns, NEW r, r = DropColumns(d, {t}, columns)
  PROVE  /\ At(r, Put(T, t, Without(table, columns))) /\ Same(d, r)
         /\ r.ok <=> d.ok /\ Has(columns, table)
<1> DEFINE U == Put(T, t, table)
<1>1. /\ At(r, Override(U, [x \in {t} |-> Without(U[x], columns)])) /\ Same(d, r)
      /\ r.ok <=> /\ d.ok /\ {t} \subseteq DOMAIN U
                  /\ \A x \in {t} : columns \subseteq Columns(U[x])
  <2>1. {t} \cap Checkpoints = {}
    OBVIOUS
  <2> HIDE DEF U
  <2> QED
    BY <2>1, DropAt DEF U
<1>2. U[t] = table /\ t \in DOMAIN U
  BY PutThere
<1>3. [x \in {t} |-> Without(U[x], columns)] = [x \in {t} |-> Without(table, columns)]
  BY <1>2
<1>4. Override(U, [x \in {t} |-> Without(U[x], columns)]) = Put(T, t, Without(table, columns))
  <2>1. Override(U, [x \in {t} |-> Without(table, columns)]) = Put(U, t, Without(table, columns))
    BY DEF Put
  <2>2. Put(U, t, Without(table, columns)) = Put(T, t, Without(table, columns))
    BY PutAgain
  <2> QED
    BY <1>3, <2>1, <2>2
<1> HIDE DEF U
<1> QED
  BY <1>1, <1>2, <1>3, <1>4 DEF Fresh, Has

LEMMA UnbindOne ==
  ASSUME NEW T, NEW t, t \notin Checkpoints, NEW table, NEW d, At(d, Put(T, t, table)),
         NEW keys, NEW refs, NEW r, r = DropConstraints(d, t, keys, refs)
  PROVE  /\ At(r, Put(T, t, Unbound(table, keys, refs))) /\ Same(d, r)
         /\ r.ok <=> d.ok /\ Keeps(keys, refs, table)
<1> DEFINE U == Put(T, t, table)
           cond(tables) == /\ t \in DOMAIN tables
                           /\ keys \subseteq tables[t].keys /\ refs \subseteq tables[t].refs
           new(tables) == [x \in {t} |-> Unbound(tables[x], keys, refs)]
<1>1. r = Change(d, cond(d.tables), new(d.tables))
  BY DEF DropConstraints
<1>2. U[t] = table /\ t \in DOMAIN U
  BY PutThere
<1>3. ASSUME d.ok PROVE (cond(d.tables) <=> cond(U)) /\ (cond(U) => new(d.tables) = new(U))
  <2>1. DOMAIN U = DOMAIN d.tables \ Checkpoints /\ \A x \in DOMAIN U : d.tables[x] = U[x]
    BY <1>3, AtTables
  <2> HIDE DEF U
  <2> QED
    BY <1>2, <2>1
<1>4. /\ cond(d.tables) \in BOOLEAN /\ cond(U) \in BOOLEAN
      /\ DOMAIN new(d.tables) = {t} /\ DOMAIN new(U) = {t}
  OBVIOUS
<1>5. At(r, Override(U, new(U))) /\ Same(d, r) /\ (r.ok <=> d.ok /\ cond(U))
  <2> HIDE DEF cond, new
  <2> QED
    BY <1>1, <1>3, <1>4, StatementAt, SMTT(30)
<1>6. new(U) = [x \in {t} |-> Unbound(table, keys, refs)]
  BY <1>2
<1>7. Override(U, new(U)) = Put(T, t, Unbound(table, keys, refs))
  <2>1. Override(U, [x \in {t} |-> Unbound(table, keys, refs)])
          = Put(U, t, Unbound(table, keys, refs))
    BY DEF Put
  <2>2. Put(U, t, Unbound(table, keys, refs)) = Put(T, t, Unbound(table, keys, refs))
    BY PutAgain
  <2> QED
    BY <1>6, <2>1, <2>2
<1> HIDE DEF U
<1> QED
  BY <1>2, <1>5, <1>6, <1>7 DEF Keeps

LEMMA BindOne ==
  ASSUME NEW T, NEW t, t \notin Checkpoints, NEW table, NEW d, At(d, Put(T, t, table)),
         NEW keys, NEW refs, NEW r, r = AddConstraints(d, t, keys, refs)
  PROVE  /\ At(r, Put(T, t, Bound(table, keys, refs))) /\ Same(d, r)
         /\ r.ok <=> d.ok /\ Has(Over(keys, refs), table)
<1> DEFINE U == Put(T, t, table)
           cond(tables) == /\ t \in DOMAIN tables
                           /\ Over(keys, refs) \subseteq Columns(tables[t])
           new(tables) == [x \in {t} |-> Bound(tables[x], keys, refs)]
<1>1. r = Change(d, cond(d.tables), new(d.tables))
  BY DEF AddConstraints
<1>2. U[t] = table /\ t \in DOMAIN U
  BY PutThere
<1>3. ASSUME d.ok PROVE (cond(d.tables) <=> cond(U)) /\ (cond(U) => new(d.tables) = new(U))
  <2>1. DOMAIN U = DOMAIN d.tables \ Checkpoints /\ \A x \in DOMAIN U : d.tables[x] = U[x]
    BY <1>3, AtTables
  <2> HIDE DEF U
  <2> QED
    BY <1>2, <2>1
<1>4. /\ cond(d.tables) \in BOOLEAN /\ cond(U) \in BOOLEAN
      /\ DOMAIN new(d.tables) = {t} /\ DOMAIN new(U) = {t}
  OBVIOUS
<1>5. At(r, Override(U, new(U))) /\ Same(d, r) /\ (r.ok <=> d.ok /\ cond(U))
  <2> HIDE DEF cond, new
  <2> QED
    BY <1>1, <1>3, <1>4, StatementAt, SMTT(30)
<1>6. new(U) = [x \in {t} |-> Bound(table, keys, refs)]
  BY <1>2
<1>7. Override(U, new(U)) = Put(T, t, Bound(table, keys, refs))
  <2>1. Override(U, [x \in {t} |-> Bound(table, keys, refs)]) = Put(U, t, Bound(table, keys, refs))
    BY DEF Put
  <2>2. Put(U, t, Bound(table, keys, refs)) = Put(T, t, Bound(table, keys, refs))
    BY PutAgain
  <2> QED
    BY <1>6, <2>1, <2>2
<1> HIDE DEF U
<1> QED
  BY <1>2, <1>5, <1>6, <1>7 DEF Has

LEMMA RenameOne ==
  ASSUME NEW T, NEW table, NEW d, At(d, Put(T, "interview_sessions", table)),
         NEW old, NEW new, NEW r, r = Renamed(d, old, new)
  PROVE  /\ At(r, Put(T, "interview_sessions", RenamedIn(table, old, new))) /\ Same(d, r)
         /\ r.ok <=> d.ok /\ old \in table.free /\ new \notin Columns(table)
<1> DEFINE t == "interview_sessions"
           U == Put(T, t, table)
           cond(tables) == /\ t \in DOMAIN tables
                           /\ old \in tables[t].free /\ new \notin Columns(tables[t])
           changed(tables) == [x \in {t} |-> RenamedIn(tables[x], old, new)]
<1>0. At(d, U)
  OBVIOUS
<1>1. r = Change(d, cond(d.tables), changed(d.tables))
  BY DEF Renamed
<1>2. U[t] = table /\ t \in DOMAIN U
  BY PutThere
<1>3. ASSUME d.ok PROVE (cond(d.tables) <=> cond(U)) /\ (cond(U) => changed(d.tables) = changed(U))
  <2>1. DOMAIN U = DOMAIN d.tables \ Checkpoints /\ \A x \in DOMAIN U : d.tables[x] = U[x]
    BY <1>3, AtTables
  <2> HIDE DEF U, t
  <2> QED
    BY <1>2, <2>1
<1>4. /\ cond(d.tables) \in BOOLEAN /\ cond(U) \in BOOLEAN
      /\ DOMAIN changed(d.tables) = {t} /\ DOMAIN changed(U) = {t}
  OBVIOUS
<1>5. t \notin Checkpoints
  BY DEF Checkpoints, CheckpointTables
<1>6. At(r, Override(U, changed(U))) /\ Same(d, r) /\ (r.ok <=> d.ok /\ cond(U))
  <2> HIDE DEF cond, changed, t, U
  <2> QED
    BY <1>0, <1>1, <1>3, <1>4, <1>5, StatementAt
<1>7. changed(U) = [x \in {t} |-> RenamedIn(table, old, new)]
  BY <1>2
<1>8. Override(U, changed(U)) = Put(T, t, RenamedIn(table, old, new))
  <2>1. Override(U, [x \in {t} |-> RenamedIn(table, old, new)])
          = Put(U, t, RenamedIn(table, old, new))
    BY DEF Put
  <2>2. Put(U, t, RenamedIn(table, old, new)) = Put(T, t, RenamedIn(table, old, new))
    BY PutAgain
  <2> QED
    BY <1>7, <2>1, <2>2
<1> HIDE DEF U
<1> QED
  BY <1>2, <1>6, <1>7, <1>8

\* What dropping tables leaves alone.
Shrunk(d, e, names) ==
    /\ e.checks = d.checks /\ e.filled \subseteq d.filled /\ d.filled \ names \subseteq e.filled
    /\ e.session \in {d.session, EmptyDb.session}
    /\ Leaner(d, e)
    /\ "interview_sessions" \notin names => e.session = d.session
    /\ e.enrolment \in {d.enrolment, EmptyDb.enrolment}
    /\ "candidate_assessments" \notin names => e.enrolment = d.enrolment

\* T without some tables.
Less(T, names) == Restrict(T, DOMAIN T \ names)

LEMMA OwnLess ==
  ASSUME NEW tables, NEW names
  PROVE  Own(Less(tables, names)) = Less(Own(tables), names)
<1> DEFINE A == (DOMAIN tables \ Checkpoints) \ names
<1>1. Own(Less(tables, names)) = [t \in A |-> tables[t]]
  BY DEF Own, Less, Restrict, Checkpoints
<1>2. Less(Own(tables), names) = [t \in A |-> tables[t]]
  BY DEF Own, Less, Restrict, Checkpoints
<1> QED
  BY <1>1, <1>2

LEMMA DropTablesAt ==
  ASSUME NEW d, NEW T, At(d, T), NEW names, NEW r, r = DropTables(d, names)
  PROVE  /\ At(r, Less(T, names)) /\ Shrunk(d, r, names)
         /\ r.ok <=> d.ok /\ names \subseteq DOMAIN d.tables
<1>1. IsDb(d)
  BY DEF At
<1> DEFINE left == IF "interview_sessions" \in names THEN EmptyDb.session ELSE d.session
           stays == IF "candidate_assessments" \in names THEN EmptyDb.enrolment ELSE d.enrolment
<1>2. CASE d.ok /\ names \subseteq DOMAIN d.tables
  <2>1. r = [tables |-> Less(d.tables, names), checks |-> d.checks, filled |-> d.filled \ names,
             ok |-> d.ok, session |-> left, enrolment |-> stays]
    BY <1>1, <1>2 DEF IsDb, DropTables, If, Less
  <2> HIDE DEF left, stays
  <2>2. /\ r.tables = Less(d.tables, names) /\ r.checks = d.checks
        /\ r.filled = d.filled \ names
        /\ r.ok = d.ok /\ r.session = left /\ r.enrolment = stays
    BY <2>1
  <2>3. IsDb(r) /\ r.ok
    BY <1>1, <1>2, <2>1, <2>2, Zenon DEF IsDb
  <2>4. Own(d.tables) = T /\ d.filled \subseteq DOMAIN d.tables
    BY <1>2 DEF At
  <2>5. Own(r.tables) = Less(T, names)
    BY <2>2, <2>4, OwnLess
  <2>6. r.filled \subseteq DOMAIN r.tables
    BY <2>2, <2>4 DEF Less, Restrict
  <2>7. Shrunk(d, r, names)
    BY <1>2, <2>2 DEF Shrunk, Leaner, IsFun, Less, Restrict, left, stays
  <2> QED
    BY <1>2, <2>3, <2>5, <2>6, <2>7 DEF At
<1>3. CASE ~(d.ok /\ names \subseteq DOMAIN d.tables)
  <2>1. r = [tables |-> d.tables, checks |-> d.checks, filled |-> d.filled,
             ok |-> FALSE, session |-> d.session, enrolment |-> d.enrolment]
    BY <1>1, <1>3 DEF IsDb, DropTables, If
  <2>2. /\ r.tables = d.tables /\ r.checks = d.checks /\ r.filled = d.filled
        /\ r.ok = FALSE /\ r.session = d.session /\ r.enrolment = d.enrolment
    BY <2>1
  <2>3. IsDb(r)
    BY <2>1, <2>2, Zenon DEF IsDb
  <2>4. Shrunk(d, r, names)
    BY <2>2 DEF Shrunk, Leaner
  <2> QED
    BY <1>3, <2>2, <2>3, <2>4 DEF At
<1> QED
  BY <1>2, <1>3

\* The LangGraph tables may come and go.
LEMMA CheckpointsGo ==
  ASSUME NEW d, NEW T, At(d, T), T = [t \in DOMAIN T |-> T[t]],
         NEW r, r = DropTablesIfExist(d, Checkpoints)
  PROVE  At(r, T) /\ Shrunk(d, r, Checkpoints) /\ (r.ok <=> d.ok)
<1> DEFINE names == Checkpoints \cap DOMAIN d.tables
<1>1. r = DropTables(d, names)
  BY DEF DropTablesIfExist
<1>2. /\ At(r, Less(T, names)) /\ Shrunk(d, r, names)
      /\ r.ok <=> d.ok /\ names \subseteq DOMAIN d.tables
  <2> HIDE DEF names
  <2> QED
    BY <1>1, DropTablesAt
<1>3. ASSUME d.ok PROVE Less(T, names) = T
  <2>1. DOMAIN T = DOMAIN d.tables \ Checkpoints
    BY <1>3, AtTables
  <2>2. DOMAIN T \ names = DOMAIN T
    BY <2>1
  <2> QED
    BY <2>2 DEF Less, Restrict
<1>4. r.ok <=> d.ok
  BY <1>2
<1>5. At(r, T)
  BY <1>2, <1>3, <1>4 DEF At
<1>6. "interview_sessions" \notin Checkpoints /\ "candidate_assessments" \notin Checkpoints
  BY DEF Checkpoints, CheckpointTables
<1>7. Shrunk(d, r, Checkpoints)
  BY <1>2, <1>6 DEF Shrunk
<1> QED
  BY <1>4, <1>5, <1>7

LEMMA CheckpointsCome ==
  ASSUME NEW d, NEW T, At(d, T), NEW r, r = CheckpointsBack(d)
  PROVE  At(r, T) /\ Stay(d, r)
<1> DEFINE cond == DOMAIN CheckpointTables \cap DOMAIN d.tables = {}
<1>1. r = Change(d, cond, CheckpointTables)
  BY DEF CheckpointsBack, CreateTables
<1>2. IsDb(d) /\ cond \in BOOLEAN
  BY DEF At
<1>3. IsDb(r) /\ Stay(d, r) /\ (r.ok <=> d.ok /\ cond)
      /\ (r.ok => r.tables = Override(d.tables, CheckpointTables))
  <2> HIDE DEF cond
  <2> QED
    BY <1>1, <1>2, ChangeFields
<1>4. ASSUME r.ok PROVE Own(r.tables) = T /\ r.filled \subseteq DOMAIN r.tables
  <2>1. /\ r.tables = Override(d.tables, CheckpointTables) /\ r.filled = d.filled
        /\ Own(d.tables) = T /\ d.filled \subseteq DOMAIN d.tables
    BY <1>3, <1>4 DEF At, Stay
  <2>2. Own(r.tables) = Own(d.tables)
    BY <2>1 DEF Own, Restrict, Override
  <2>3. r.filled \subseteq DOMAIN r.tables
    BY <2>1 DEF Override
  <2> QED
    BY <2>1, <2>2, <2>3
<1> QED
  BY <1>3, <1>4 DEF At

-----------------------------------------------------------------------------
(* The schemas.  Sr are the tables at revision r.                          *)

S0 == EmptyTables
S1 == Override(Override(Override(S0, PeopleTables), AssessmentTables), LogTables)
S2 == Override(Override(S1, ConversationTables),
               [answer_evaluations |-> AnswerTable, interview_evaluations |-> EvaluationTable])
S3 == Override(S2, [recruiter_tokens |-> TokenTable])

Answers4 == Bound(Unbound(With(AnswerTable, {}, AnswerCourse), TurnKey, OfEnrolment), {}, OfSession)
Evaluations4 ==
    Bound(Unbound(With(EvaluationTable, EvaluationCourse, {"session_id"}), {}, OfEnrolment),
          {{"session_id"}}, OfSession)
Sessions4 ==
    Unbound(Bare(With(ConversationTables["interview_sessions"], SessionCourse, SessionCounters),
                 SessionDefaults), {}, OfEnrolment)
Turns4 ==
    Bound(Unbound(With(ConversationTables["transcript_turns"], TurnCourse, {"session_id"}),
                  TurnKey, OfEnrolment), {}, OfSession)
S4 == Put(Put(Put(Put(S3, "answer_evaluations", Answers4),
                  "interview_evaluations", Evaluations4),
              "interview_sessions", Sessions4), "transcript_turns", Turns4)

Evaluations5 == Without(With(Evaluations4, {}, Scores), Skills \cup SkillsRequired)
Sessions5 == Without(With(Sessions4, {"transcript"}, {}), Course \cup CourseRequired)
S5 == Put(Put(Less(S4, {"answer_evaluations", "transcript_turns"}),
              "interview_evaluations", Evaluations5), "interview_sessions", Sessions5)

Evaluations6 ==
    Without(With(Evaluations5, Sections, SectionsRequired), Narrative \cup NarrativeRequired)
S6 == Put(Override(S5, [t \in DOMAIN BareDefaults |-> Bare(S5[t], BareDefaults[t])]),
          "interview_evaluations", Evaluations6)

Evaluations7 == With(Evaluations6, Lineage, {})
S7 == Put(S6, "interview_evaluations", Evaluations7)

S8 == Less(Override(Override(S7, [t \in MixinTables |-> With(S7[t], {"deleted_at"}, {})]),
                    [event_logs |-> EventLogTable]), {"csv_upload_logs", "audit_logs"})

Enrolments9 == With(S8["candidate_assessments"], InviteColumns, {})
Renamed9 == RenamedIn(Sessions5, "grace_period_expires_at", "reconnect_deadline")
Sessions9 == Bound(With(Renamed9, ReconnectColumns, {}), {{"session_token"}}, {})
S9 == Put(Put(S8, "candidate_assessments", Enrolments9), "interview_sessions", Sessions9)

Evaluations10 == With(Evaluations7, {"question_evaluations"}, {})
S10 == Put(S9, "interview_evaluations", Evaluations10)

\* The tables of the schemas, and where two schemas agree.
Names1 == {"recruiters", "candidates", "assessments", "candidate_assessments",
           "csv_upload_logs", "notification_logs", "audit_logs"}
Interviews == {"interview_sessions", "interview_evaluations"}
Names5 == Names1 \cup Interviews \cup {"recruiter_tokens"}
Names8 == (Names5 \ {"csv_upload_logs", "audit_logs"}) \cup {"event_logs"}
Talk == {"answer_evaluations", "transcript_turns"}
Else(T, U, names) == \A t \in DOMAIN T \ names : t \in DOMAIN U => T[t] = U[t]

LEMMA OwnNames == (Names5 \cup Talk \cup {"event_logs"}) \cap Checkpoints = {}
  BY DEF Names5, Names1, Interviews, Talk, Checkpoints, CheckpointTables

LEMMA Schema1 ==
  /\ IsFun(S1) /\ DOMAIN S1 = Names1
  /\ \A t \in DOMAIN PeopleTables : S1[t] = PeopleTables[t]
  /\ \A t \in DOMAIN AssessmentTables : S1[t] = AssessmentTables[t]
  /\ \A t \in DOMAIN LogTables : S1[t] = LogTables[t]
<1>1. /\ DOMAIN PeopleTables = {"recruiters", "candidates"}
      /\ DOMAIN AssessmentTables = {"assessments", "candidate_assessments"}
      /\ DOMAIN LogTables = {"csv_upload_logs", "notification_logs", "audit_logs"}
      /\ DOMAIN S0 = {}
  BY DEF PeopleTables, AssessmentTables, LogTables, S0, EmptyTables
<1> QED
  BY <1>1 DEF S1, Override, IsFun, Names1

LEMMA Schema2 ==
  /\ IsFun(S2) /\ DOMAIN S2 = Names1 \cup Interviews \cup Talk /\ Else(S2, S1, {})
  /\ S2["interview_sessions"] = ConversationTables["interview_sessions"]
  /\ S2["transcript_turns"] = ConversationTables["transcript_turns"]
  /\ S2["answer_evaluations"] = AnswerTable /\ S2["interview_evaluations"] = EvaluationTable
<1>1. DOMAIN ConversationTables = {"interview_sessions", "transcript_turns"}
  BY DEF ConversationTables
<1> QED
  BY <1>1, Schema1 DEF S2, Override, IsFun, Names1, Interviews, Talk, Else

LEMMA Schema3 ==
  /\ IsFun(S3) /\ DOMAIN S3 = Names5 \cup Talk /\ Else(S3, S2, {})
  /\ \A t \in Interviews \cup Talk : S3[t] = S2[t]
  BY Schema2 DEF S3, Override, IsFun, Names1, Names5, Interviews, Talk, Else

LEMMA Schema4 ==
  /\ IsFun(S4) /\ DOMAIN S4 = Names5 \cup Talk /\ Else(S4, S3, Interviews \cup Talk)
  /\ S4["interview_sessions"] = Sessions4 /\ S4["interview_evaluations"] = Evaluations4
  /\ S4["answer_evaluations"] = Answers4 /\ S4["transcript_turns"] = Turns4
  BY Schema3 DEF S4, Put, Override, IsFun, Names5, Interviews, Talk, Else

LEMMA Schema5 ==
  /\ IsFun(S5) /\ DOMAIN S5 = Names5 /\ Else(S5, S4, Interviews)
  /\ S5["interview_sessions"] = Sessions5 /\ S5["interview_evaluations"] = Evaluations5
  BY Schema4 DEF S5, Less, Restrict, Put, Override, IsFun, Names5, Names1, Interviews, Talk, Else

LEMMA Schema6 ==
  /\ IsFun(S6) /\ DOMAIN S6 = Names5
  /\ Else(S6, S5, DOMAIN BareDefaults \cup {"interview_evaluations"})
  /\ \A t \in DOMAIN BareDefaults : S6[t] = Bare(S5[t], BareDefaults[t])
  /\ S6["interview_evaluations"] = Evaluations6
  /\ DOMAIN BareDefaults \subseteq Names1
<1>1. DOMAIN BareDefaults = {"assessments", "candidate_assessments", "csv_upload_logs",
                             "notification_logs", "recruiters"}
  BY DEF BareDefaults
<1> QED
  BY <1>1, Schema5 DEF S6, Put, Override, IsFun, Names5, Names1, Interviews, Else

LEMMA Schema7 ==
  /\ IsFun(S7) /\ DOMAIN S7 = Names5 /\ Else(S7, S6, {"interview_evaluations"})
  /\ S7["interview_evaluations"] = Evaluations7
  BY Schema6 DEF S7, Put, Override, IsFun, Names5, Interviews, Else

LEMMA Schema8 ==
  /\ IsFun(S8) /\ DOMAIN S8 = Names8 /\ Else(S8, S7, MixinTables)
  /\ \A t \in MixinTables : S8[t] = With(S7[t], {"deleted_at"}, {})
  BY Schema7
  DEF S8, Less, Restrict, Override, IsFun, Names8, Names5, Names1, Interviews, Else, MixinTables

LEMMA Schema9 ==
  /\ IsFun(S9) /\ DOMAIN S9 = Names8
  /\ Else(S9, S8, {"candidate_assessments", "interview_sessions"})
  /\ S9["candidate_assessments"] = Enrolments9 /\ S9["interview_sessions"] = Sessions9
  BY Schema8 DEF S9, Put, Override, IsFun, Names8, Names5, Names1, Interviews, Else

LEMMA Schema10 ==
  /\ IsFun(S10) /\ DOMAIN S10 = Names8 /\ Else(S10, S9, {"interview_evaluations"})
  /\ S10["interview_evaluations"] = Evaluations10
  BY Schema9 DEF S10, Put, Override, IsFun, Names8, Names5, Interviews, Else

-----------------------------------------------------------------------------
(* The upgrades.                                                           *)

LEMMA SameTransitive ==
  ASSUME NEW c, NEW d, NEW e, Same(c, d), Same(d, e)
  PROVE  Same(c, e)
  BY DEF Same, Stay, Leaner

LEMMA Up1 ==
  ASSUME NEW d, At(d, S0), NEW e, e = InitialSchemaUp(d)
  PROVE  At(e, S1) /\ Same(d, e) /\ (e.ok <=> d.ok)
<1> DEFINE T1 == Override(S0, PeopleTables)
           T2 == Override(T1, AssessmentTables)
           d1 == CreateTables(d, PeopleTables)
           d2 == CreateTables(d1, AssessmentTables)
<1>1. /\ DOMAIN PeopleTables = {"recruiters", "candidates"}
      /\ DOMAIN AssessmentTables = {"assessments", "candidate_assessments"}
      /\ DOMAIN LogTables = {"csv_upload_logs", "notification_logs", "audit_logs"}
      /\ DOMAIN S0 = {}
  BY DEF PeopleTables, AssessmentTables, LogTables, S0, EmptyTables
<1>2. /\ DOMAIN PeopleTables \cap Checkpoints = {} /\ DOMAIN AssessmentTables \cap Checkpoints = {}
      /\ DOMAIN LogTables \cap Checkpoints = {}
  BY <1>1, OwnNames DEF Names5, Names1
<1>3. DOMAIN T1 = {"recruiters", "candidates"}
      /\ DOMAIN T2 = {"recruiters", "candidates", "assessments", "candidate_assessments"}
  BY <1>1 DEF Override
<1>4. e = CreateTables(d2, LogTables)
  BY DEF InitialSchemaUp
<1> HIDE DEF T1, T2, d1, d2
<1>5. At(d1, T1) /\ Same(d, d1) /\ (d1.ok <=> d.ok)
  BY <1>1, <1>2, CreateAt DEF d1, T1
<1>6. At(d2, T2) /\ Same(d1, d2) /\ (d2.ok <=> d1.ok)
  BY <1>1, <1>2, <1>3, <1>5, CreateAt DEF d2, T2
<1>7. At(e, S1) /\ Same(d2, e) /\ (e.ok <=> d2.ok)
  BY <1>1, <1>2, <1>3, <1>4, <1>6, CreateAt DEF S1, T1, T2
<1> QED
  BY <1>5, <1>6, <1>7, SameTransitive

LEMMA Up2 ==
  ASSUME NEW d, At(d, S1), NEW e, e = InterviewTablesUp(d)
  PROVE  At(e, S2) /\ Same(d, e) /\ (e.ok <=> d.ok)
<1> DEFINE new == [answer_evaluations |-> AnswerTable, interview_evaluations |-> EvaluationTable]
           T == Override(S1, ConversationTables)
           d1 == CreateTables(d, ConversationTables)
<1>1. /\ DOMAIN ConversationTables = {"interview_sessions", "transcript_turns"}
      /\ DOMAIN new = {"answer_evaluations", "interview_evaluations"}
  BY DEF ConversationTables
<1>2. DOMAIN ConversationTables \cap Checkpoints = {} /\ DOMAIN new \cap Checkpoints = {}
  BY <1>1, OwnNames DEF Names5, Interviews, Talk
<1>3. DOMAIN T = Names1 \cup {"interview_sessions", "transcript_turns"}
  BY <1>1, Schema1 DEF Override
<1>4. e = CreateTables(d1, new) /\ S2 = Override(T, new)
  BY DEF InterviewTablesUp, S2
<1>5. DOMAIN ConversationTables \cap DOMAIN S1 = {} /\ DOMAIN new \cap DOMAIN T = {}
  BY <1>1, <1>3, Schema1 DEF Names1
<1> HIDE DEF T, d1, new
<1>6. At(d1, T) /\ Same(d, d1) /\ (d1.ok <=> d.ok)
  BY <1>2, <1>5, CreateAt DEF d1, T
<1>7. At(e, S2) /\ Same(d1, e) /\ (e.ok <=> d1.ok)
  BY <1>2, <1>4, <1>5, <1>6, CreateAt
<1> QED
  BY <1>6, <1>7, SameTransitive

LEMMA Up3 ==
  ASSUME NEW d, At(d, S2), NEW e, e = RecruiterTokensUp(d)
  PROVE  At(e, S3) /\ Same(d, e) /\ (e.ok <=> d.ok)
<1> DEFINE new == [recruiter_tokens |-> TokenTable]
<1>1. DOMAIN new = {"recruiter_tokens"} /\ e = CreateTables(d, new) /\ S3 = Override(S2, new)
  BY DEF RecruiterTokensUp, S3
<1>2. DOMAIN new \cap Checkpoints = {} /\ DOMAIN new \cap DOMAIN S2 = {}
  BY <1>1, OwnNames, Schema2 DEF Names1, Names5, Interviews, Talk
<1> HIDE DEF new
<1> QED
  BY <1>1, <1>2, CreateAt

(* The tables of an interview: what a revision adds is not there yet.      *)

LEMMA AnswerFacts ==
  /\ AnswerCourse \cap Columns(AnswerTable) = {} /\ TurnKey \subseteq AnswerTable.keys
  /\ OfEnrolment = AnswerTable.refs
  /\ Over({}, OfSession) \subseteq AnswerCourse
  BY DEF Over, AnswerCourse, Columns, AnswerTable, Table, TurnKey, OfEnrolment, OfSession

\* The three statements that tie a table to the session.
LEMMA TieUp ==
  ASSUME NEW T, NEW t, t \notin Checkpoints, NEW table, NEW d, At(d, Put(T, t, table)),
         NEW free, NEW must, NEW keys, NEW refs, NEW newKeys, NEW newRefs,
         Ties(table, free, must, keys, refs, newKeys, newRefs),
         NEW d1, d1 = AddColumns(d, {t}, free, must),
         NEW d2, d2 = DropConstraints(d1, t, keys, refs),
         NEW e, e = AddConstraints(d2, t, newKeys, newRefs)
  PROVE  /\ At(e, Put(T, t, Bound(Unbound(With(table, free, must), keys, refs),
                                  newKeys, newRefs)))
         /\ Same(d, e)
         /\ e.ok <=> d.ok /\ t \notin d.filled
<1> DEFINE v1 == With(table, free, must)
           v2 == Unbound(v1, keys, refs)
<1>1. Keeps(keys, refs, v1)
  BY DEF Ties, Keeps, With, Table
<1>2. Has(Over(newKeys, newRefs), v2)
  BY DEF Ties, Has, With, Unbound, Table, Columns
<1>3. At(d1, Put(T, t, v1)) /\ Same(d, d1) /\ (d1.ok <=> d.ok /\ t \notin d.filled)
  BY AddOne DEF Ties
<1> HIDE DEF v1
<1>4. At(d2, Put(T, t, v2)) /\ Same(d1, d2) /\ (d2.ok <=> d1.ok)
  BY <1>1, <1>3, UnbindOne
<1> HIDE DEF v2
<1>5. At(e, Put(T, t, Bound(v2, newKeys, newRefs))) /\ Same(d2, e) /\ (e.ok <=> d2.ok)
  BY <1>2, <1>4, BindOne
<1> QED
  BY <1>3, <1>4, <1>5, SameTransitive DEF v1, v2

\* Columns come and others go.
LEMMA SwapUp ==
  ASSUME NEW T, NEW t, t \notin Checkpoints, NEW table, NEW d, At(d, Put(T, t, table)),
         NEW free, NEW must, Fresh(free \cup must, table),
         NEW columns, Has(columns, table),
         NEW d1, d1 = AddColumns(d, {t}, free, must),
         NEW e, e = DropColumns(d1, {t}, columns)
  PROVE  /\ At(e, Put(T, t, Without(With(table, free, must), columns)))
         /\ Same(d, e)
         /\ e.ok <=> d.ok /\ (must = {} \/ t \notin d.filled)
<1> DEFINE v1 == With(table, free, must)
<1>1. Has(columns, v1)
  BY DEF Has, With, Table, Columns
<1>2. At(d1, Put(T, t, v1)) /\ Same(d, d1) /\ (d1.ok <=> d.ok /\ (must = {} \/ t \notin d.filled))
  BY AddOne
<1> HIDE DEF v1
<1>3. At(e, Put(T, t, Without(v1, columns))) /\ Same(d1, e) /\ (e.ok <=> d1.ok)
  BY <1>1, <1>2, DropOne
<1> QED
  BY <1>2, <1>3, SameTransitive DEF v1

LEMMA AnswersUp ==
  ASSUME NEW T, NEW d, At(d, Put(T, "answer_evaluations", AnswerTable)),
         NEW e, e = AnswersOfSession(d)
  PROVE  /\ At(e, Put(T, "answer_evaluations", Answers4)) /\ Same(d, e)
         /\ e.ok <=> d.ok /\ "answer_evaluations" \notin d.filled
<1>1. "answer_evaluations" \notin Checkpoints
  BY OwnNames DEF Talk
<1>2. Ties(AnswerTable, {}, AnswerCourse, TurnKey, OfEnrolment, {}, OfSession)
  BY AnswerFacts DEF Ties, Fresh, Keeps, AnswerCourse
<1> QED
  BY <1>1, <1>2, TieUp DEF AnswersOfSession, Answers4

LEMMA EvaluationFacts ==
  /\ Fresh(EvaluationCourse \cup {"session_id"}, EvaluationTable)
  /\ OfEnrolment = EvaluationTable.refs
  /\ Over({{"session_id"}}, OfSession) \subseteq {"session_id"}
  BY DEF Fresh, Over, EvaluationCourse, Columns, EvaluationTable, Table, OfEnrolment, OfSession

LEMMA EvaluationsUp ==
  ASSUME NEW T, NEW d, At(d, Put(T, "interview_evaluations", EvaluationTable)),
         NEW e, e = EvaluationsOfSession(d)
  PROVE  /\ At(e, Put(T, "interview_evaluations", Evaluations4)) /\ Same(d, e)
         /\ e.ok <=> d.ok /\ "interview_evaluations" \notin d.filled
<1>1. "interview_evaluations" \notin Checkpoints
  BY OwnNames DEF Names5, Interviews
<1>2. Ties(EvaluationTable, EvaluationCourse, {"session_id"}, {}, OfEnrolment,
           {{"session_id"}}, OfSession)
  BY EvaluationFacts DEF Ties, Keeps
<1> QED
  BY <1>1, <1>2, TieUp DEF EvaluationsOfSession, Evaluations4

LEMMA TurnFacts ==
  LET table == ConversationTables["transcript_turns"]
  IN  /\ Fresh(TurnCourse \cup {"session_id"}, table)
      /\ TurnKey \subseteq table.keys /\ OfEnrolment = table.refs
      /\ Over({}, OfSession) \subseteq TurnCourse \cup {"session_id"}
  BY DEF Fresh, Over, TurnCourse, Columns, ConversationTables, Table, TurnKey, OfEnrolment,
         OfSession

LEMMA TurnsUp ==
  ASSUME NEW T, NEW d, At(d, Put(T, "transcript_turns", ConversationTables["transcript_turns"])),
         NEW e, e = TurnsOfSession(d)
  PROVE  /\ At(e, Put(T, "transcript_turns", Turns4)) /\ Same(d, e)
         /\ e.ok <=> d.ok /\ "transcript_turns" \notin d.filled
<1>1. "transcript_turns" \notin Checkpoints
  BY OwnNames DEF Talk
<1>2. Ties(ConversationTables["transcript_turns"], TurnCourse, {"session_id"}, TurnKey,
           OfEnrolment, {}, OfSession)
  BY TurnFacts DEF Ties, Keeps
<1> QED
  BY <1>1, <1>2, TieUp DEF TurnsOfSession, Turns4

LEMMA SessionFacts ==
  LET table == ConversationTables["interview_sessions"]
  IN  /\ Fresh(SessionCourse \cup SessionCounters, table)
      /\ SessionDefaults \subseteq table.free /\ OfEnrolment = table.refs
      /\ SessionCounters # {}
  BY DEF Fresh, SessionCourse, SessionCounters, SessionDefaults, Columns, ConversationTables, Table,
         OfEnrolment

LEMMA SessionsUp ==
  ASSUME NEW T,
         NEW d, At(d, Put(T, "interview_sessions", ConversationTables["interview_sessions"])),
         NEW e, e = CourseOfSession(d)
  PROVE  /\ At(e, Put(T, "interview_sessions", Sessions4)) /\ Same(d, e)
         /\ e.ok <=> d.ok /\ "interview_sessions" \notin d.filled
<1> DEFINE t == "interview_sessions"
           table == ConversationTables[t]
           v1 == With(table, SessionCourse, SessionCounters)
           v2 == Bare(v1, SessionDefaults)
           d1 == AddColumns(d, {t}, SessionCourse, SessionCounters)
           columns == [interview_sessions |-> SessionDefaults]
           d2 == DropDefaults(d1, columns)
           U == Put(T, t, v1)
<1>1. e = DropConstraints(d2, t, {}, OfEnrolment) /\ Sessions4 = Unbound(v2, {}, OfEnrolment)
  BY DEF CourseOfSession, Sessions4
<1>2. t \notin Checkpoints
  BY OwnNames DEF Names5, Interviews
<1>3. SessionDefaults \subseteq Columns(v1) /\ Keeps({}, OfEnrolment, v2)
  BY SessionFacts DEF With, Bare, Table, Columns, Keeps
<1>4. At(d1, U) /\ Same(d, d1) /\ (d1.ok <=> d.ok /\ t \notin d.filled)
  BY <1>2, SessionFacts, AddOne
<1>5. DOMAIN columns = {t} /\ columns[t] = SessionDefaults
  OBVIOUS
<1>6. U[t] = v1 /\ t \in DOMAIN U
  BY PutThere
<1> HIDE DEF v1, v2, U, d1, d2, columns
<1>7. /\ At(d2, Override(U, [x \in DOMAIN columns |-> Bare(U[x], columns[x])])) /\ Same(d1, d2)
      /\ d2.ok <=> d1.ok /\ HasThem(U, columns)
  BY <1>2, <1>4, <1>5, DefaultsAt DEF d2
<1>8. HasThem(U, columns)
  BY <1>3, <1>5, <1>6 DEF HasThem
<1>9. [x \in DOMAIN columns |-> Bare(U[x], columns[x])] = [x \in {t} |-> v2]
  BY <1>5, <1>6 DEF v2
<1>10. At(d2, Put(T, t, v2))
  <2>1. Override(U, [x \in {t} |-> v2]) = Put(U, t, v2)
    BY DEF Put
  <2>2. Put(U, t, v2) = Put(T, t, v2)
    BY PutAgain DEF U
  <2> QED
    BY <1>7, <1>9, <2>1, <2>2
<1>11. At(e, Put(T, t, Sessions4)) /\ Same(d2, e) /\ (e.ok <=> d2.ok)
  BY <1>1, <1>2, <1>3, <1>10, UnbindOne
<1> QED
  BY <1>4, <1>7, <1>8, <1>11, SameTransitive

LEMMA PutIsFun ==
  ASSUME NEW T, NEW t, NEW v
  PROVE  IsFun(Put(T, t, v))
  BY DEF IsFun, Put, Override

\* The table u when another one is replaced.
LEMMA PutOther ==
  ASSUME NEW T, NEW t, NEW v, NEW u \in DOMAIN T, u # t, NEW U, U = Put(T, t, v)
  PROVE  u \in DOMAIN U /\ U[u] = T[u]
  BY DEF Put, Override

\* A database that has the table as it is.
LEMMA AsItIs ==
  ASSUME NEW T, IsFun(T), NEW t \in DOMAIN T, NEW d, At(d, T)
  PROVE  At(d, Put(T, t, T[t]))
  BY PutBack DEF IsFun

LEMMA Up4 ==
  ASSUME NEW d, At(d, S3), NEW e, e = ModelUpdatesUp(d)
  PROVE  At(e, S4) /\ Same(d, e) /\ (e.ok <=> d.ok /\ (Interviews \cup Talk) \cap d.filled = {})
<1> DEFINE d1 == AnswersOfSession(d)
           d2 == EvaluationsOfSession(d1)
           d3 == CourseOfSession(d2)
           T1 == Put(S3, "answer_evaluations", Answers4)
           T2 == Put(T1, "interview_evaluations", Evaluations4)
           T3 == Put(T2, "interview_sessions", Sessions4)
<1>1. e = TurnsOfSession(d3) /\ S4 = Put(T3, "transcript_turns", Turns4)
  BY DEF ModelUpdatesUp, S4
<1>2. /\ DOMAIN S3 = Names5 \cup Talk /\ IsFun(S3)
      /\ S3["interview_sessions"] = ConversationTables["interview_sessions"]
      /\ S3["transcript_turns"] = ConversationTables["transcript_turns"]
      /\ S3["answer_evaluations"] = AnswerTable /\ S3["interview_evaluations"] = EvaluationTable
  BY Schema2, Schema3 DEF Interviews, Talk
<1>3. /\ "answer_evaluations" \in DOMAIN S3 /\ "interview_evaluations" \in DOMAIN S3
      /\ "interview_sessions" \in DOMAIN S3 /\ "transcript_turns" \in DOMAIN S3
  BY <1>2 DEF Names5, Interviews, Talk
<1>4. /\ IsFun(T1) /\ "interview_evaluations" \in DOMAIN T1
      /\ "interview_sessions" \in DOMAIN T1 /\ "transcript_turns" \in DOMAIN T1
      /\ T1["interview_evaluations"] = EvaluationTable
      /\ T1["interview_sessions"] = ConversationTables["interview_sessions"]
      /\ T1["transcript_turns"] = ConversationTables["transcript_turns"]
  BY <1>2, <1>3, PutIsFun, PutOther
<1> HIDE DEF T1
<1>5. /\ IsFun(T2) /\ "interview_sessions" \in DOMAIN T2 /\ "transcript_turns" \in DOMAIN T2
      /\ T2["interview_sessions"] = ConversationTables["interview_sessions"]
      /\ T2["transcript_turns"] = ConversationTables["transcript_turns"]
  BY <1>3, <1>4, PutIsFun, PutOther
<1> HIDE DEF T2
<1>6. /\ IsFun(T3) /\ "transcript_turns" \in DOMAIN T3
      /\ T3["transcript_turns"] = ConversationTables["transcript_turns"]
  BY <1>3, <1>5, PutIsFun, PutOther
<1> HIDE DEF T3, d1, d2, d3
<1>7. At(d1, T1) /\ Same(d, d1) /\ (d1.ok <=> d.ok /\ "answer_evaluations" \notin d.filled)
  BY <1>2, <1>3, AsItIs, AnswersUp DEF d1, T1
<1>8. At(d2, T2) /\ Same(d1, d2) /\ (d2.ok <=> d1.ok /\ "interview_evaluations" \notin d1.filled)
  BY <1>3, <1>4, <1>7, AsItIs, EvaluationsUp DEF d2, T2
<1>9. At(d3, T3) /\ Same(d2, d3) /\ (d3.ok <=> d2.ok /\ "interview_sessions" \notin d2.filled)
  BY <1>3, <1>5, <1>8, AsItIs, SessionsUp DEF d3, T3
<1>10. At(e, S4) /\ Same(d3, e) /\ (e.ok <=> d3.ok /\ "transcript_turns" \notin d3.filled)
  BY <1>1, <1>6, <1>9, AsItIs, TurnsUp
<1>11. Same(d, d2) /\ Same(d, d3) /\ Same(d, e)
  BY <1>7, <1>8, <1>9, <1>10, SameTransitive
<1>12. d1.filled = d.filled /\ d2.filled = d.filled /\ d3.filled = d.filled
  BY <1>7, <1>11 DEF Same, Stay
<1> QED
  BY <1>7, <1>8, <1>9, <1>10, <1>11, <1>12 DEF Interviews, Talk

\* The rows and the checks stay, or some tables lose their rows.
Kept(d, e) ==
    /\ e.checks = d.checks /\ e.filled \subseteq d.filled
    /\ e.session = d.session /\ e.enrolment = d.enrolment
    /\ Leaner(d, e)

LEMMA KeptTransitive ==
  ASSUME NEW c, NEW d, NEW e
  PROVE  /\ Same(d, e) => Kept(d, e)
         /\ Kept(c, d) /\ Kept(d, e) => Kept(c, e)
  BY DEF Same, Stay, Kept, Leaner

LEMMA ShrunkKept ==
  ASSUME NEW d, NEW e, NEW names, Shrunk(d, e, names),
         "interview_sessions" \notin names, "candidate_assessments" \notin names
  PROVE  Kept(d, e) /\ d.filled \ names \subseteq e.filled
  BY DEF Shrunk, Kept

\* Tables of T that are there can be dropped.
LEMMA DropNamesAt ==
  ASSUME NEW d, NEW T, At(d, T), NEW names, names \subseteq DOMAIN T,
         NEW r, r = DropTables(d, names)
  PROVE  At(r, Less(T, names)) /\ Shrunk(d, r, names) /\ (r.ok <=> d.ok)
<1>1. ASSUME d.ok PROVE names \subseteq DOMAIN d.tables
  <2>1. DOMAIN T = DOMAIN d.tables \ Checkpoints
    BY <1>1, AtTables
  <2> QED
    BY <2>1
<1> QED
  BY <1>1, DropTablesAt

LEMMA Swap5 ==
  /\ Fresh({} \cup Scores, Evaluations4) /\ Has(Skills \cup SkillsRequired, Evaluations4)
  /\ Fresh({"transcript"} \cup {}, Sessions4) /\ Has(Course \cup CourseRequired, Sessions4)
  /\ Scores # {}
<1>1. Columns(Evaluations4) = EvaluationTable.free \cup EvaluationTable.must
                                \cup EvaluationCourse \cup {"session_id"}
  BY DEF Evaluations4, Bound, Unbound, With, Columns, Table
<1>2. Fresh(Scores, Evaluations4) /\ Has(Skills \cup SkillsRequired, Evaluations4)
  BY <1>1 DEF Fresh, Has, Scores, Skills, SkillsRequired, EvaluationTable, Table, EvaluationCourse
<1>3. LET table == ConversationTables["interview_sessions"]
      IN  Columns(Sessions4) = table.free \cup table.must \cup SessionCourse \cup SessionCounters
  BY SessionFacts DEF Sessions4, Unbound, Bare, With, Columns, Table
<1>4. Fresh({"transcript"}, Sessions4) /\ Has(Course \cup CourseRequired, Sessions4)
  BY <1>3 DEF Fresh, Has, Course, CourseRequired, ConversationTables, Table, SessionCourse,
             SessionCounters
<1> QED
  BY <1>2, <1>4 DEF Scores

LEMMA Up5 ==
  ASSUME NEW d, At(d, S4), NEW e, e = TranscriptInSessionUp(d)
  PROVE  /\ At(e, S5) /\ Kept(d, e)
         /\ e.ok <=> d.ok /\ "interview_evaluations" \notin d.filled
<1> DEFINE d1 == DropTables(d, Talk)
           d2 == DropColumns(AddColumns(d1, {"interview_evaluations"}, {}, Scores),
                             {"interview_evaluations"}, Skills \cup SkillsRequired)
           T1 == Less(S4, Talk)
           T2 == Put(T1, "interview_evaluations", Evaluations5)
<1>1. /\ e = DropColumns(AddColumns(d2, {"interview_sessions"}, {"transcript"}, {}),
                         {"interview_sessions"}, Course \cup CourseRequired)
      /\ S5 = Put(T2, "interview_sessions", Sessions5)
  BY DEF TranscriptInSessionUp, S5, Talk
<1>2. /\ IsFun(T1) /\ DOMAIN T1 = Names5 /\ Talk \subseteq DOMAIN S4
      /\ T1["interview_evaluations"] = Evaluations4 /\ T1["interview_sessions"] = Sessions4
  BY Schema4 DEF Less, Restrict, IsFun, Names5, Names1, Interviews, Talk
<1>3. /\ "interview_evaluations" \in Names5 \ Talk /\ "interview_sessions" \in Names5 \ Talk
      /\ "candidate_assessments" \notin Talk
  BY DEF Names5, Interviews, Talk
<1> HIDE DEF T1
<1>4. /\ IsFun(T2) /\ "interview_sessions" \in DOMAIN T2 /\ T2["interview_sessions"] = Sessions4
  BY <1>2, <1>3, PutIsFun, PutOther
<1> HIDE DEF T2, d1, d2
<1>5. At(d1, T1) /\ Shrunk(d, d1, Talk) /\ (d1.ok <=> d.ok)
  BY <1>2, DropNamesAt DEF T1, d1
<1>6. /\ Kept(d, d1)
      /\ "interview_evaluations" \in d1.filled <=> "interview_evaluations" \in d.filled
  <2>1. Kept(d, d1) /\ d.filled \ Talk \subseteq d1.filled
    BY <1>3, <1>5, ShrunkKept
  <2> QED
    BY <1>3, <2>1 DEF Kept
<1>7. At(d2, T2) /\ Same(d1, d2) /\ (d2.ok <=> d1.ok /\ "interview_evaluations" \notin d1.filled)
  <2>1. At(d1, Put(T1, "interview_evaluations", Evaluations4))
    BY <1>2, <1>3, <1>5, AsItIs
  <2> QED
    BY <1>3, <2>1, OwnNames, Swap5, SwapUp DEF d2, T2, Evaluations5
<1>8. At(e, S5) /\ Same(d2, e) /\ (e.ok <=> d2.ok)
  <2>1. At(d2, Put(T2, "interview_sessions", Sessions4))
    BY <1>4, <1>7, AsItIs
  <2> QED
    BY <1>1, <1>3, <2>1, OwnNames, Swap5, SwapUp DEF Sessions5
<1> QED
  BY <1>5, <1>6, <1>7, <1>8, KeptTransitive

LEMMA EvaluationColumns ==
  /\ Columns(Evaluations5) = (Columns(Evaluations4) \cup Scores) \ (Skills \cup SkillsRequired)
  /\ Columns(Evaluations6) = (Columns(Evaluations5) \cup Sections \cup SectionsRequired)
                               \ (Narrative \cup NarrativeRequired)
  /\ Columns(Evaluations7) = Columns(Evaluations6) \cup Lineage
  /\ Columns(Evaluations4) = EvaluationTable.free \cup EvaluationTable.must
                                \cup EvaluationCourse \cup {"session_id"}
<1>1. Columns(Evaluations5) = (Columns(Evaluations4) \cup Scores) \ (Skills \cup SkillsRequired)
  BY DEF Evaluations5, Without, With, Columns, Table
<1>2. Columns(Evaluations6) = (Columns(Evaluations5) \cup Sections \cup SectionsRequired)
                               \ (Narrative \cup NarrativeRequired)
  BY DEF Evaluations6, Without, With, Columns, Table
<1>3. Columns(Evaluations7) = Columns(Evaluations6) \cup Lineage
  BY DEF Evaluations7, With, Columns, Table
<1>4. Columns(Evaluations4) = EvaluationTable.free \cup EvaluationTable.must
                                \cup EvaluationCourse \cup {"session_id"}
  BY DEF Evaluations4, Bound, Unbound, With, Columns, Table
<1> QED
  BY <1>1, <1>2, <1>3, <1>4

LEMMA Swap6 ==
  /\ Fresh(Sections \cup SectionsRequired, Evaluations5)
  /\ Has(Narrative \cup NarrativeRequired, Evaluations5)
  /\ SectionsRequired # {}
<1>1. Columns(Evaluations5) =
        ((EvaluationTable.free \cup EvaluationTable.must \cup EvaluationCourse \cup {"session_id"})
          \cup Scores) \ (Skills \cup SkillsRequired)
  BY EvaluationColumns
<1>2. Fresh(Sections \cup SectionsRequired, Evaluations5)
  BY <1>1 DEF Fresh, Sections, SectionsRequired, Scores, Skills, SkillsRequired, EvaluationTable,
              Table, EvaluationCourse
<1>3. Has(Narrative \cup NarrativeRequired, Evaluations5)
  BY <1>1 DEF Has, Narrative, NarrativeRequired, Scores, Skills, SkillsRequired, EvaluationTable,
              Table, EvaluationCourse
<1> QED
  BY <1>2, <1>3 DEF SectionsRequired

LEMMA LineageIsNew ==
  /\ Fresh(Lineage \cup {}, Evaluations6) /\ Fresh({"question_evaluations"} \cup {}, Evaluations7)
<1>1. Columns(Evaluations6) =
        ((((EvaluationTable.free \cup EvaluationTable.must \cup EvaluationCourse
              \cup {"session_id"}) \cup Scores) \ (Skills \cup SkillsRequired))
          \cup Sections \cup SectionsRequired) \ (Narrative \cup NarrativeRequired)
  BY EvaluationColumns
<1>2. Lineage \cap Columns(Evaluations6) = {}
  BY <1>1 DEF Lineage, Sections, SectionsRequired, Scores, Skills, SkillsRequired, EvaluationTable,
              Table, EvaluationCourse
<1>3. "question_evaluations" \notin Columns(Evaluations6) \cup Lineage
  BY <1>1 DEF Lineage, Sections, SectionsRequired, Scores, Skills, SkillsRequired, EvaluationTable,
              Table, EvaluationCourse
<1> QED
  BY <1>2, <1>3, EvaluationColumns DEF Fresh

\* Every column whose default goes, or comes back, is there.
LEMMA DefaultsThere == HasThem(S5, BareDefaults)
<1>1. /\ DOMAIN BareDefaults = {"assessments", "candidate_assessments", "csv_upload_logs",
                             "notification_logs", "recruiters"}
      /\ DOMAIN AssessmentTables = {"assessments", "candidate_assessments"}
      /\ DOMAIN LogTables = {"csv_upload_logs", "notification_logs", "audit_logs"}
      /\ DOMAIN PeopleTables = {"recruiters", "candidates"}
  BY DEF BareDefaults, AssessmentTables, LogTables, PeopleTables
<1>2. \A t \in DOMAIN BareDefaults : S5[t] = S1[t] /\ t \in DOMAIN S5
  BY <1>1, Schema1, Schema2, Schema3, Schema4, Schema5
  DEF Else, Names1, Names5, Interviews, Talk
<1>3. /\ S1["assessments"] = AssessmentTables["assessments"]
      /\ S1["candidate_assessments"] = AssessmentTables["candidate_assessments"]
      /\ S1["csv_upload_logs"] = LogTables["csv_upload_logs"]
      /\ S1["notification_logs"] = LogTables["notification_logs"]
      /\ S1["recruiters"] = PeopleTables["recruiters"]
  BY <1>1, Schema1
<1>4. /\ BareDefaults["assessments"] \subseteq AssessmentTables["assessments"].free
      /\ BareDefaults["candidate_assessments"]
           \subseteq AssessmentTables["candidate_assessments"].free
      /\ BareDefaults["csv_upload_logs"] \subseteq LogTables["csv_upload_logs"].free
      /\ BareDefaults["notification_logs"] \subseteq LogTables["notification_logs"].free
      /\ BareDefaults["recruiters"] \subseteq PeopleTables["recruiters"].free
  BY DEF BareDefaults, AssessmentTables, LogTables, PeopleTables, Table
<1>5. \A t \in DOMAIN BareDefaults : BareDefaults[t] \subseteq S5[t].free
  BY <1>1, <1>2, <1>3, <1>4
<1> QED
  BY <1>2, <1>5 DEF HasThem, Columns

LEMMA Up6 ==
  ASSUME NEW d, At(d, S5), NEW e, e = SectionsUp(d)
  PROVE  /\ At(e, S6) /\ Kept(d, e)
         /\ e.ok <=> d.ok /\ "interview_evaluations" \notin d.filled
<1> DEFINE t == "interview_evaluations"
           d1 == DropTablesIfExist(d, Checkpoints)
           d2 == DropDefaults(d1, BareDefaults)
           T2 == Override(S5, [x \in DOMAIN BareDefaults |-> Bare(S5[x], BareDefaults[x])])
<1>1. /\ e = DropColumns(AddColumns(d2, {t}, Sections, SectionsRequired), {t},
                         Narrative \cup NarrativeRequired)
      /\ S6 = Put(T2, t, Evaluations6)
  BY DEF SectionsUp, EvaluationSectionsUp, BareTables, S6, Checkpoints
<1>2. t \notin Checkpoints /\ t \in Names5 /\ DOMAIN BareDefaults \cap Checkpoints = {}
      /\ t \notin DOMAIN BareDefaults
  BY OwnNames, Schema6 DEF Names5, Names1, Interviews
<1>3. /\ IsFun(S5) /\ IsFun(T2) /\ t \in DOMAIN T2 /\ T2[t] = Evaluations5
  BY <1>2, Schema5 DEF IsFun, Override
<1>4. At(d1, S5) /\ Shrunk(d, d1, Checkpoints) /\ (d1.ok <=> d.ok)
  BY <1>3, CheckpointsGo DEF IsFun
<1> HIDE DEF d1
<1>5. At(d2, T2) /\ Same(d1, d2) /\ (d2.ok <=> d1.ok)
  BY <1>2, <1>4, DefaultsThere, DefaultsAt
<1> HIDE DEF d2, T2
<1>6. At(e, S6) /\ Same(d2, e) /\ (e.ok <=> d2.ok /\ t \notin d2.filled)
  <2>1. At(d2, Put(T2, t, Evaluations5))
    BY <1>3, <1>5, AsItIs
  <2> QED
    BY <1>1, <1>2, <2>1, Swap6, SwapUp DEF Evaluations6
<1>7. Kept(d, d1) /\ (t \in d1.filled <=> t \in d.filled)
  <2>1. "interview_sessions" \notin Checkpoints /\ "candidate_assessments" \notin Checkpoints
    BY DEF Checkpoints, CheckpointTables
  <2>2. Kept(d, d1) /\ d.filled \ Checkpoints \subseteq d1.filled
    BY <1>4, <2>1, ShrunkKept
  <2> QED
    BY <1>2, <2>2 DEF Kept
<1>8. d2.filled = d1.filled
  BY <1>5 DEF Same, Stay
<1> QED
  BY <1>4, <1>5, <1>6, <1>7, <1>8, KeptTransitive

LEMMA Up7 ==
  ASSUME NEW d, At(d, S6), NEW e, e = LineageUp(d)
  PROVE  At(e, S7) /\ Kept(d, e) /\ (e.ok <=> d.ok)
<1>1. At(d, Put(S6, "interview_evaluations", Evaluations6))
  BY Schema6, AsItIs DEF Names5, Interviews
<1> QED
  BY <1>1, OwnNames, LineageIsNew, AddOne, KeptTransitive
  DEF LineageUp, S7, Evaluations7, Names5, Interviews

LEMMA MixinNames ==
  /\ MixinTables \subseteq Names5 /\ MixinTables \subseteq Names1
  /\ DOMAIN BareDefaults = {"assessments", "candidate_assessments", "csv_upload_logs",
                            "notification_logs", "recruiters"}
  /\ DOMAIN AssessmentTables = {"assessments", "candidate_assessments"}
  /\ DOMAIN PeopleTables = {"recruiters", "candidates"}
  /\ DOMAIN LogTables = {"csv_upload_logs", "notification_logs", "audit_logs"}
  BY DEF MixinTables, Names5, Names1, BareDefaults, AssessmentTables, PeopleTables, LogTables

LEMMA BareColumns ==
  ASSUME NEW table, NEW columns, columns \subseteq Columns(table)
  PROVE  Columns(Bare(table, columns)) = Columns(table)
  BY DEF Bare, Columns, Table

\* Soft deletion is new to the tables of people and assessments.
LEMMA MixinColumns ==
  /\ \A t \in MixinTables : Columns(S7[t]) = Columns(S1[t])
  /\ \A t \in MixinTables : "deleted_at" \notin Columns(S7[t])
  /\ Columns(S1["candidate_assessments"]) = Columns(AssessmentTables["candidate_assessments"])
<1>1. \A t \in MixinTables : S5[t] = S1[t] /\ S7[t] = S6[t] /\ t \in DOMAIN S5
  BY MixinNames, Schema1, Schema2, Schema3, Schema4, Schema5, Schema6, Schema7
  DEF Else, Names1, Names5, Interviews, Talk
<1>2. ASSUME NEW t \in MixinTables PROVE Columns(S7[t]) = Columns(S1[t])
  <2>1. CASE t \in DOMAIN BareDefaults
    <3>1. S6[t] = Bare(S5[t], BareDefaults[t]) /\ BareDefaults[t] \subseteq Columns(S5[t])
      BY <2>1, Schema6, DefaultsThere DEF HasThem
    <3> QED
      BY <1>1, <3>1, BareColumns
  <2>2. CASE t \notin DOMAIN BareDefaults
    <3>1. S6[t] = S5[t]
      BY <1>1, <2>2, Schema5, Schema6, MixinNames DEF Else, Interviews, MixinTables
    <3> QED
      BY <1>1, <3>1
  <2> QED
    BY <2>1, <2>2
<1>3. /\ S1["assessments"] = AssessmentTables["assessments"]
      /\ S1["candidate_assessments"] = AssessmentTables["candidate_assessments"]
      /\ S1["recruiters"] = PeopleTables["recruiters"]
      /\ S1["candidates"] = PeopleTables["candidates"]
  BY MixinNames, Schema1
<1>4. /\ "deleted_at" \notin Columns(AssessmentTables["assessments"])
      /\ "deleted_at" \notin Columns(AssessmentTables["candidate_assessments"])
      /\ "deleted_at" \notin Columns(PeopleTables["recruiters"])
      /\ "deleted_at" \notin Columns(PeopleTables["candidates"])
  BY DEF AssessmentTables, PeopleTables, Table, Columns
<1>5. \A t \in MixinTables : "deleted_at" \notin Columns(S1[t])
  BY <1>3, <1>4 DEF MixinTables
<1> QED
  BY <1>2, <1>3, <1>5

LEMMA Up8 ==
  ASSUME NEW d, At(d, S7), NEW e, e = EventLogUp(d)
  PROVE  At(e, S8) /\ Kept(d, e) /\ (e.ok <=> d.ok)
<1> DEFINE logs == {"csv_upload_logs", "audit_logs"}
           new == [event_logs |-> EventLogTable]
           d1 == AddColumns(d, MixinTables, {"deleted_at"}, {})
           d2 == CreateTables(d1, new)
           T1 == Override(S7, [t \in MixinTables |-> With(S7[t], {"deleted_at"}, {})])
           T2 == Override(T1, new)
<1>1. e = DropTables(d2, logs) /\ S8 = Less(T2, logs)
  BY DEF EventLogUp, S8
<1>2. MixinTables \subseteq DOMAIN S7 /\ MixinTables \cap Checkpoints = {}
  BY OwnNames, MixinNames, Schema7
<1>3. \A t \in MixinTables : ({"deleted_at"} \cup {}) \cap Columns(S7[t]) = {}
  BY MixinColumns
<1>4. At(d1, T1) /\ Same(d, d1) /\ (d1.ok <=> d.ok)
  BY <1>2, <1>3, AddAt
<1>5. DOMAIN T1 = Names5
  BY <1>2, Schema7 DEF Override
<1>6. /\ DOMAIN new = {"event_logs"} /\ DOMAIN new \cap Checkpoints = {}
      /\ DOMAIN new \cap DOMAIN T1 = {}
  BY <1>5, OwnNames DEF Names5, Names1, Interviews
<1> HIDE DEF d1, T1, new
<1>7. At(d2, T2) /\ Same(d1, d2) /\ (d2.ok <=> d1.ok)
  BY <1>4, <1>6, CreateAt
<1>8. /\ logs \subseteq DOMAIN T2 /\ "interview_sessions" \notin logs
      /\ "candidate_assessments" \notin logs
  BY <1>5 DEF Override, Names5, Names1
<1> HIDE DEF d2, T2, logs
<1>9. At(e, S8) /\ Shrunk(d2, e, logs) /\ (e.ok <=> d2.ok)
  BY <1>1, <1>7, <1>8, DropNamesAt
<1>10. Kept(d2, e)
  BY <1>8, <1>9, ShrunkKept
<1> QED
  BY <1>4, <1>7, <1>9, <1>10, KeptTransitive

\* The rows after revision 9.
Fitted(session) ==
    [session EXCEPT !.status = IF @ = "PAUSED" THEN "DISCONNECTED" ELSE @]
Consumed(enrolment) ==
    [enrolment EXCEPT !.consumed = @ \/ enrolment.status \in Started]

LEMMA RowsUp ==
  ASSUME NEW d, NEW T, At(d, T), NEW e, e = RowsToReconnect(d)
  PROVE  /\ At(e, T) /\ e.ok = d.ok /\ e.checks = d.checks /\ e.filled = d.filled
         /\ Leaner(d, e)
         /\ e.session = Fitted(d.session) /\ e.enrolment = Consumed(d.enrolment)
<1>1. e = [tables |-> d.tables, checks |-> d.checks, filled |-> d.filled, ok |-> d.ok,
           session |-> Fitted(d.session), enrolment |-> Consumed(d.enrolment)]
  BY DEF At, IsDb, RowsToReconnect, Fitted, Consumed
<1>2. /\ e.tables = d.tables /\ e.checks = d.checks /\ e.filled = d.filled /\ e.ok = d.ok
      /\ e.session = Fitted(d.session) /\ e.enrolment = Consumed(d.enrolment)
  BY <1>1
<1>3. IsDb(e)
  BY <1>1, <1>2, Zenon DEF At, IsDb
<1> QED
  BY <1>2, <1>3 DEF At, Leaner

LEMMA SessionColumns ==
  /\ Columns(Sessions5) =
       (ConversationTables["interview_sessions"].free
          \cup ConversationTables["interview_sessions"].must
          \cup SessionCourse \cup SessionCounters \cup {"transcript"})
         \ (Course \cup CourseRequired)
  /\ "grace_period_expires_at" \in Sessions5.free
  /\ "reconnect_deadline" \notin Columns(Sessions5)
  /\ ReconnectColumns \cap Columns(Sessions5) = {}
<1>1. Columns(Sessions4) = ConversationTables["interview_sessions"].free
          \cup ConversationTables["interview_sessions"].must
          \cup SessionCourse \cup SessionCounters
  BY SessionFacts DEF Sessions4, Unbound, Bare, With, Columns, Table
<1>2. Columns(Sessions5) = (Columns(Sessions4) \cup {"transcript"}) \ (Course \cup CourseRequired)
  BY DEF Sessions5, Without, With, Columns, Table
<1>3. "grace_period_expires_at" \in Sessions4.free
  BY DEF Sessions4, Unbound, Bare, With, Table, ConversationTables, SessionDefaults
<1>4. "grace_period_expires_at" \in Sessions5.free
  BY <1>3 DEF Sessions5, Without, With, Table, Course, CourseRequired
<1>5. /\ "reconnect_deadline" \notin Columns(Sessions4) \cup {"transcript"}
      /\ ReconnectColumns \cap (Columns(Sessions4) \cup {"transcript"}) = {}
  BY <1>1 DEF ConversationTables, Table, SessionCourse, SessionCounters, ReconnectColumns
<1> QED
  BY <1>1, <1>2, <1>4, <1>5

LEMMA ReconnectFits ==
  /\ Fresh(InviteColumns \cup {}, S8["candidate_assessments"])
  /\ Fresh(ReconnectColumns \cup {}, Renamed9)
  /\ Has(Over({{"session_token"}}, {}), With(Renamed9, ReconnectColumns, {}))
  /\ S8["interview_sessions"] = Sessions5
<1>1. Columns(S8["candidate_assessments"]) =
        Columns(AssessmentTables["candidate_assessments"]) \cup {"deleted_at"}
  BY MixinColumns, Schema8 DEF MixinTables, With, Columns, Table
<1>2. InviteColumns
        \cap (Columns(AssessmentTables["candidate_assessments"]) \cup {"deleted_at"}) = {}
  BY DEF InviteColumns, Columns, AssessmentTables, Table
<1>3. Columns(Renamed9) \subseteq Columns(Sessions5) \cup {"reconnect_deadline"}
  BY DEF Renamed9, RenamedIn, Columns, Table
<1>4. "reconnect_deadline" \notin ReconnectColumns /\ "session_token" \in ReconnectColumns
  BY DEF ReconnectColumns
<1>5. Over({{"session_token"}}, {}) = {"session_token"}
  BY DEF Over
<1>6. S8["interview_sessions"] = Sessions5
  BY Schema5, Schema6, Schema7, Schema8
  DEF Else, Names1, Names5, Names8, Interviews, MixinTables
<1>7. Fresh(InviteColumns \cup {}, S8["candidate_assessments"])
  BY <1>1, <1>2 DEF Fresh
<1>8. Fresh(ReconnectColumns \cup {}, Renamed9)
  BY <1>3, <1>4, SessionColumns DEF Fresh
<1>9. Has(Over({{"session_token"}}, {}), With(Renamed9, ReconnectColumns, {}))
  BY <1>4, <1>5 DEF Has, With, Columns, Table
<1> QED
  BY <1>6, <1>7, <1>8, <1>9

LEMMA ChecksUp ==
  ASSUME NEW T, NEW table, Has(Over({{"session_token"}}, {}), table),
         NEW d, At(d, Put(T, "interview_sessions", table)), NEW e, e = ReconnectChecksUp(d)
  PROVE  /\ At(e, Put(T, "interview_sessions", Bound(table, {{"session_token"}}, {})))
         /\ e.ok <=> d.ok /\ DeadlineFits(d.session)
         /\ e.ok => e.checks = d.checks \cup ReconnectChecks
         /\ e.filled = d.filled /\ e.session = d.session /\ e.enrolment = d.enrolment
         /\ Leaner(d, e)
<1> DEFINE U == Put(T, "interview_sessions", Bound(table, {{"session_token"}}, {}))
           k == AddConstraints(d, "interview_sessions", {{"session_token"}}, {})
<1>1. e = If(k, DeadlineFits(d.session), [k EXCEPT !.checks = @ \cup ReconnectChecks])
  BY DEF ReconnectChecksUp
<1>2. "interview_sessions" \notin Checkpoints
  BY OwnNames DEF Names5, Interviews
<1> HIDE DEF k
<1>3. At(k, U) /\ Same(d, k) /\ (k.ok <=> d.ok)
  BY <1>2, BindOne DEF k
<1>4. IsDb(k)
  BY <1>3 DEF At
<1> HIDE DEF U
<1>5. CASE k.ok /\ DeadlineFits(d.session)
  <2>1. e = [tables |-> k.tables, checks |-> k.checks \cup ReconnectChecks, filled |-> k.filled,
             ok |-> k.ok, session |-> k.session, enrolment |-> k.enrolment]
    BY <1>1, <1>4, <1>5 DEF IsDb, If
  <2>2. /\ e.tables = k.tables /\ e.checks = k.checks \cup ReconnectChecks /\ e.filled = k.filled
        /\ e.ok = k.ok /\ e.session = k.session /\ e.enrolment = k.enrolment
    BY <2>1
  <2>3. IsDb(e)
    BY <1>4, <2>1, <2>2, Zenon DEF IsDb
  <2> QED
    BY <1>3, <1>5, <2>2, <2>3 DEF At, Same, Stay, Leaner, U
<1>6. CASE ~(k.ok /\ DeadlineFits(d.session))
  <2>1. e = [tables |-> k.tables, checks |-> k.checks, filled |-> k.filled,
             ok |-> FALSE, session |-> k.session, enrolment |-> k.enrolment]
    BY <1>1, <1>4, <1>6 DEF IsDb, If
  <2>2. /\ e.tables = k.tables /\ e.checks = k.checks /\ e.filled = k.filled
        /\ e.ok = FALSE /\ e.session = k.session /\ e.enrolment = k.enrolment
    BY <2>1
  <2>3. IsDb(e)
    BY <1>4, <2>1, <2>2, Zenon DEF IsDb
  <2> QED
    BY <1>3, <1>6, <2>2, <2>3 DEF At, Same, Stay, Leaner, U
<1> QED
  BY <1>5, <1>6

LEMMA FittedFits ==
  ASSUME NEW session
  PROVE  DeadlineFits(Fitted(session)) <=> DeadlineFits(session)
  BY DEF Fitted, DeadlineFits

LEMMA Up9 ==
  ASSUME NEW d, At(d, S8), d.session \in [status : SessionStates, deadline : BOOLEAN],
         NEW e, e = ReconnectUp(d)
  PROVE  /\ At(e, S9)
         /\ e.ok <=> d.ok /\ DeadlineFits(d.session)
         /\ e.ok => e.checks = d.checks \cup ReconnectChecks
         /\ e.filled = d.filled
         /\ e.session = Fitted(d.session) /\ e.enrolment = Consumed(d.enrolment)
         /\ Leaner(d, e)
<1> DEFINE t == "interview_sessions"
           old == "grace_period_expires_at"
           new == "reconnect_deadline"
           v == With(Renamed9, ReconnectColumns, {})
           T1 == Put(S8, "candidate_assessments", Enrolments9)
           d1 == AddColumns(d, {"candidate_assessments"}, InviteColumns, {})
           d2 == Renamed(d1, old, new)
           d3 == AddColumns(d2, {t}, ReconnectColumns, {})
           d4 == RowsToReconnect(d3)
<1>1. e = ReconnectChecksUp(d4) /\ S9 = Put(T1, t, Sessions9)
      /\ Sessions9 = Bound(v, {{"session_token"}}, {})
  BY DEF ReconnectUp, ReconnectColumnsUp, S9, Sessions9
<1>2. /\ IsFun(S8) /\ "candidate_assessments" \in DOMAIN S8 /\ t \in DOMAIN S8
      /\ "candidate_assessments" \notin Checkpoints /\ t \notin Checkpoints
      /\ t # "candidate_assessments"
  BY Schema8, OwnNames DEF Names8, Names5, Names1, Interviews
<1>3. IsFun(T1) /\ t \in DOMAIN T1 /\ T1[t] = Sessions5
  BY <1>2, ReconnectFits, PutIsFun, PutOther
<1> HIDE DEF t, T1, v, d1, d2, d3, d4, old, new
<1>4. At(d1, T1) /\ Same(d, d1) /\ (d1.ok <=> d.ok)
  <2>1. At(d, Put(S8, "candidate_assessments", S8["candidate_assessments"]))
    BY <1>2, AsItIs
  <2> QED
    <3>1. Fresh(InviteColumns \cup {}, S8["candidate_assessments"])
      BY ReconnectFits
    <3>2. T1 = Put(S8, "candidate_assessments",
                   With(S8["candidate_assessments"], InviteColumns, {}))
      BY DEF T1, Enrolments9
    <3>3. d1 = AddColumns(d, {"candidate_assessments"}, InviteColumns, {})
      BY DEF d1
    <3> QED
      BY <1>2, <2>1, <3>1, <3>2, <3>3, AddOne
<1>5. At(d1, Put(T1, t, Sessions5))
  BY <1>3, <1>4, AsItIs
<1>6. At(d2, Put(T1, t, Renamed9)) /\ Same(d1, d2) /\ (d2.ok <=> d1.ok)
  <2>1. old \in Sessions5.free /\ new \notin Columns(Sessions5)
    BY SessionColumns DEF old, new
  <2>2. Renamed9 = RenamedIn(Sessions5, old, new)
    BY DEF Renamed9, old, new
  <2> QED
    BY <1>5, <2>1, <2>2, RenameOne DEF d2, t
<1>7. At(d3, Put(T1, t, v)) /\ Same(d2, d3) /\ (d3.ok <=> d2.ok)
  BY <1>2, <1>6, ReconnectFits, AddOne DEF d3, v
<1>8. /\ At(d4, Put(T1, t, v)) /\ d4.ok = d3.ok /\ d4.checks = d3.checks
      /\ d4.filled = d3.filled /\ d4.session = Fitted(d3.session)
      /\ d4.enrolment = Consumed(d3.enrolment) /\ Leaner(d3, d4)
  BY <1>7, RowsUp DEF d4
<1>9. /\ At(e, S9) /\ (e.ok <=> d4.ok /\ DeadlineFits(d4.session))
      /\ e.ok => e.checks = d4.checks \cup ReconnectChecks
      /\ e.filled = d4.filled /\ e.session = d4.session /\ e.enrolment = d4.enrolment
      /\ Leaner(d4, e)
  BY <1>1, <1>8, ReconnectFits, ChecksUp DEF v, t
<1>10. /\ d3.checks = d.checks /\ d3.filled = d.filled /\ d3.session = d.session
       /\ d3.enrolment = d.enrolment
  BY <1>4, <1>6, <1>7 DEF Same, Stay
<1>11. Leaner(d, e)
  BY <1>4, <1>6, <1>7, <1>8, <1>9 DEF Leaner, Same
<1> QED
  BY <1>4, <1>6, <1>7, <1>8, <1>9, <1>10, <1>11, FittedFits

LEMMA Up10 ==
  ASSUME NEW d, At(d, S9), NEW e, e = QuestionsUp(d)
  PROVE  At(e, S10) /\ Same(d, e) /\ (e.ok <=> d.ok)
<1>1. "interview_evaluations" \in DOMAIN S9 /\ S9["interview_evaluations"] = Evaluations7
      /\ IsFun(S9)
  BY Schema7, Schema8, Schema9
  DEF Else, Names1, Names5, Names8, Interviews, MixinTables
<1>2. At(d, Put(S9, "interview_evaluations", Evaluations7))
  BY <1>1, AsItIs
<1>3. "interview_evaluations" \notin Checkpoints
  BY OwnNames DEF Names5, Interviews
<1> QED
  BY <1>2, <1>3, LineageIsNew, AddOne DEF QuestionsUp, S10, Evaluations10

-----------------------------------------------------------------------------
(* The downgrades.                                                         *)

IsTable(table) == table = Table(table.free, table.must, table.keys, table.refs)

\* No key and no reference of the table is over the columns.
Unlinked(table, columns) ==
    /\ \A k \in table.keys : k \cap columns = {}
    /\ \A p \in table.refs : p[1] \notin columns

\* What it takes for the columns free and must to replace lost and lostMust in
\* a table, and back.
Swaps(table, free, must, lost, lostMust) ==
    /\ Fresh(free \cup must, table)
    /\ lost \subseteq table.free /\ lost \cap table.must = {}
    /\ lostMust \subseteq table.must /\ lostMust \cap table.free = {}
    /\ Unlinked(table, free \cup must) /\ Unlinked(table, lost \cup lostMust)

LEMMA TablesAreTables ==
  ASSUME NEW table, NEW a, NEW b
  PROVE  /\ IsTable(With(table, a, b)) /\ IsTable(Without(table, a)) /\ IsTable(Bare(table, a))
         /\ IsTable(Bound(table, a, b)) /\ IsTable(Unbound(table, a, b))
         /\ IsTable(RenamedIn(table, a, b))
  BY DEF IsTable, With, Without, Bare, Bound, Unbound, RenamedIn, Table

LEMMA DropTheAdded ==
  ASSUME NEW table, IsTable(table), NEW free, NEW must, Fresh(free \cup must, table),
         Unlinked(table, free \cup must)
  PROVE  Without(With(table, free, must), free \cup must) = table
<1> DEFINE w == With(table, free, must)
           b == Without(w, free \cup must)
<1>1. /\ w.free = table.free \cup free /\ w.must = table.must \cup must
      /\ w.keys = table.keys /\ w.refs = table.refs
  BY DEF With, Table
<1> HIDE DEF w
<1>2. b = Table(w.free \ (free \cup must), w.must \ (free \cup must),
                {k \in w.keys : k \cap (free \cup must) = {}},
                {p \in w.refs : p[1] \notin free \cup must})
  BY DEF Without
<1>3. w.free \ (free \cup must) = table.free
  BY <1>1 DEF Fresh, Columns
<1>4. w.must \ (free \cup must) = table.must
  BY <1>1 DEF Fresh, Columns
<1>5. {k \in w.keys : k \cap (free \cup must) = {}} = table.keys
  BY <1>1 DEF Unlinked
<1>6. {p \in w.refs : p[1] \notin free \cup must} = table.refs
  BY <1>1 DEF Unlinked
<1> QED
  BY <1>2, <1>3, <1>4, <1>5, <1>6, Zenon DEF IsTable, w

LEMMA SwapBack ==
  ASSUME NEW table, IsTable(table), NEW free, NEW must, NEW lost, NEW lostMust,
         Swaps(table, free, must, lost, lostMust),
         NEW swapped, swapped = Without(With(table, free, must), lost \cup lostMust)
  PROVE  Without(With(swapped, lost, lostMust), free \cup must) = table
<1> DEFINE w == With(swapped, lost, lostMust)
           b == Without(w, free \cup must)
<1>1. /\ swapped.free = (table.free \cup free) \ (lost \cup lostMust)
      /\ swapped.must = (table.must \cup must) \ (lost \cup lostMust)
      /\ swapped.keys = {k \in table.keys : k \cap (lost \cup lostMust) = {}}
      /\ swapped.refs = {p \in table.refs : p[1] \notin lost \cup lostMust}
  BY DEF With, Without, Table
<1>2. swapped.keys = table.keys /\ swapped.refs = table.refs
  <2>1. {k \in table.keys : k \cap (lost \cup lostMust) = {}} = table.keys
    BY DEF Swaps, Unlinked
  <2>2. {p \in table.refs : p[1] \notin lost \cup lostMust} = table.refs
    BY DEF Swaps, Unlinked
  <2> QED
    BY <1>1, <2>1, <2>2
<1>3. /\ w.free = swapped.free \cup lost /\ w.must = swapped.must \cup lostMust
      /\ w.keys = table.keys /\ w.refs = table.refs
  BY <1>2 DEF With, Table
<1> HIDE DEF w
<1>4. b = Table(w.free \ (free \cup must), w.must \ (free \cup must),
                {k \in w.keys : k \cap (free \cup must) = {}},
                {p \in w.refs : p[1] \notin free \cup must})
  BY DEF Without
<1>5. w.free \ (free \cup must) = table.free
  BY <1>1, <1>3 DEF Swaps, Fresh, Columns
<1>6. w.must \ (free \cup must) = table.must
  BY <1>1, <1>3 DEF Swaps, Fresh, Columns
<1>7. {k \in w.keys : k \cap (free \cup must) = {}} = table.keys
  BY <1>3 DEF Swaps, Unlinked
<1>8. {p \in w.refs : p[1] \notin free \cup must} = table.refs
  BY <1>3 DEF Swaps, Unlinked
<1> QED
  BY <1>4, <1>5, <1>6, <1>7, <1>8, Zenon DEF IsTable, w

LEMMA DefaultBack ==
  ASSUME NEW table, IsTable(table), NEW columns, columns \subseteq table.free,
         columns \cap table.must = {}
  PROVE  Defaulted(Bare(table, columns), columns) = table
<1> DEFINE b == Bare(table, columns)
<1>1. /\ b.free = table.free \ columns /\ b.must = table.must \cup columns
      /\ b.keys = table.keys /\ b.refs = table.refs
  BY DEF Bare, Table
<1> HIDE DEF b
<1>2. Defaulted(b, columns) = Table(b.free \cup columns, b.must \ columns, b.keys, b.refs)
  BY DEF Defaulted
<1>3. b.free \cup columns = table.free
  BY <1>1
<1>4. b.must \ columns = table.must
  BY <1>1
<1> QED
  BY <1>1, <1>2, <1>3, <1>4, Zenon DEF IsTable, b

LEMMA RenamedBack ==
  ASSUME NEW table, IsTable(table), NEW old \in table.free, NEW new, new \notin table.free
  PROVE  RenamedIn(RenamedIn(table, old, new), new, old) = table
<1> DEFINE b == RenamedIn(table, old, new)
<1>1. /\ b.free = (table.free \ {old}) \cup {new} /\ b.must = table.must
      /\ b.keys = table.keys /\ b.refs = table.refs
  BY DEF RenamedIn, Table
<1> HIDE DEF b
<1>2. RenamedIn(b, new, old) = Table((b.free \ {new}) \cup {old}, b.must, b.keys, b.refs)
  BY DEF RenamedIn
<1>3. (b.free \ {new}) \cup {old} = table.free
  BY <1>1
<1> QED
  BY <1>1, <1>2, <1>3, Zenon DEF IsTable, b

LEMMA KeyBack ==
  ASSUME NEW table, IsTable(table), NEW keys, keys \cap table.keys = {}
  PROVE  Unbound(Bound(table, keys, {}), keys, {}) = table
<1> DEFINE b == Bound(table, keys, {})
<1>1. /\ b.free = table.free /\ b.must = table.must
      /\ b.keys = table.keys \cup keys /\ b.refs = table.refs \cup {}
  BY DEF Bound, Table
<1> HIDE DEF b
<1>2. Unbound(b, keys, {}) = Table(b.free, b.must, b.keys \ keys, b.refs \ {})
  BY DEF Unbound
<1>3. b.keys \ keys = table.keys
  BY <1>1
<1>4. b.refs \ {} = table.refs
  BY <1>1
<1> QED
  BY <1>1, <1>2, <1>3, <1>4, Zenon DEF IsTable, b

\* What the columns of each table are at each revision.
LEMMA EvaluationParts ==
  /\ IsTable(Evaluations4) /\ IsTable(Evaluations5) /\ IsTable(Evaluations6)
  /\ IsTable(Evaluations7)
  /\ Evaluations4.free = EvaluationTable.free \cup EvaluationCourse
  /\ Evaluations4.must = EvaluationTable.must \cup {"session_id"}
  /\ Evaluations5.free = (EvaluationTable.free \cup EvaluationCourse) \ (Skills \cup SkillsRequired)
  /\ Evaluations5.must = (EvaluationTable.must \cup {"session_id"} \cup Scores)
                           \ (Skills \cup SkillsRequired)
<1>1. /\ IsTable(Evaluations4) /\ IsTable(Evaluations5) /\ IsTable(Evaluations6)
      /\ IsTable(Evaluations7)
  BY TablesAreTables DEF Evaluations4, Evaluations5, Evaluations6, Evaluations7
<1>2. /\ Evaluations4.free = EvaluationTable.free \cup EvaluationCourse
      /\ Evaluations4.must = EvaluationTable.must \cup {"session_id"}
  BY DEF Evaluations4, Bound, Unbound, With, Table
<1>3. /\ Evaluations5.free = (Evaluations4.free \cup {}) \ (Skills \cup SkillsRequired)
      /\ Evaluations5.must = (Evaluations4.must \cup Scores) \ (Skills \cup SkillsRequired)
  BY DEF Evaluations5, Without, With, Table
<1> QED
  BY <1>1, <1>2, <1>3

\* The keys and the references of an evaluation, from revision 4 on.
EvaluationLinks(table) ==
    table.keys = {{"candidate_assessment_id"}, {"session_id"}} /\ table.refs = OfSession

LEMMA LinksStay ==
  ASSUME NEW table, EvaluationLinks(table), NEW free, NEW must, NEW columns,
         "candidate_assessment_id" \notin columns, "session_id" \notin columns
  PROVE  /\ EvaluationLinks(With(table, free, must)) /\ EvaluationLinks(Without(table, columns))
         /\ Unlinked(table, columns)
<1>1. {"candidate_assessment_id"} \cap columns = {} /\ {"session_id"} \cap columns = {}
  OBVIOUS
<1>2. \A p \in OfSession : p[1] \notin columns
  BY DEF OfSession
<1>3. Unlinked(table, columns)
  BY <1>1, <1>2 DEF EvaluationLinks, Unlinked
<1>4. {k \in table.keys : k \cap columns = {}} = table.keys
  BY <1>3 DEF Unlinked
<1>5. {p \in table.refs : p[1] \notin columns} = table.refs
  BY <1>3 DEF Unlinked
<1>6. Without(table, columns).keys = table.keys /\ Without(table, columns).refs = table.refs
  BY <1>4, <1>5 DEF Without, Table
<1>7. With(table, free, must).keys = table.keys /\ With(table, free, must).refs = table.refs
  BY DEF With, Table
<1> QED
  BY <1>3, <1>6, <1>7, Zenon DEF EvaluationLinks

LEMMA EvaluationsLinked ==
  /\ EvaluationLinks(Evaluations4) /\ EvaluationLinks(Evaluations5)
  /\ EvaluationLinks(Evaluations6) /\ EvaluationLinks(Evaluations7)
<1>1. EvaluationTable.keys = {{"candidate_assessment_id"}} /\ EvaluationTable.refs = OfEnrolment
  BY DEF EvaluationTable, Table
<1>2. Evaluations4.keys = (EvaluationTable.keys \ {}) \cup {{"session_id"}}
      /\ Evaluations4.refs = (EvaluationTable.refs \ OfEnrolment) \cup OfSession
  BY DEF Evaluations4, Bound, Unbound, With, Table
<1>3. EvaluationLinks(Evaluations4)
  BY <1>1, <1>2 DEF EvaluationLinks
<1>4. "candidate_assessment_id" \notin Skills \cup SkillsRequired
      /\ "session_id" \notin Skills \cup SkillsRequired
  BY DEF Skills, SkillsRequired
<1>5. EvaluationLinks(Evaluations5)
  BY <1>3, <1>4, LinksStay DEF Evaluations5
<1>6. "candidate_assessment_id" \notin Narrative \cup NarrativeRequired
      /\ "session_id" \notin Narrative \cup NarrativeRequired
  BY DEF Narrative, NarrativeRequired
<1>7. EvaluationLinks(Evaluations6)
  BY <1>5, <1>6, LinksStay DEF Evaluations6
<1>8. EvaluationLinks(Evaluations7)
  BY <1>4, <1>7, LinksStay DEF Evaluations7
<1> QED
  BY <1>3, <1>5, <1>7, <1>8

LEMMA EvaluationSwaps ==
  /\ Swaps(Evaluations4, {}, Scores, Skills, SkillsRequired)
  /\ Swaps(Evaluations5, Sections, SectionsRequired, Narrative, NarrativeRequired)
<1>1. /\ "candidate_assessment_id" \notin {} \cup Scores /\ "session_id" \notin {} \cup Scores
      /\ "candidate_assessment_id" \notin Skills \cup SkillsRequired
      /\ "session_id" \notin Skills \cup SkillsRequired
  BY DEF Scores, Skills, SkillsRequired
<1>2. Unlinked(Evaluations4, {} \cup Scores) /\ Unlinked(Evaluations4, Skills \cup SkillsRequired)
  BY <1>1, EvaluationsLinked, LinksStay
<1>3. /\ Skills \subseteq Evaluations4.free /\ Skills \cap Evaluations4.must = {}
      /\ SkillsRequired \subseteq Evaluations4.must /\ SkillsRequired \cap Evaluations4.free = {}
  BY EvaluationParts DEF Skills, SkillsRequired, EvaluationTable, Table, EvaluationCourse
<1>4. Swaps(Evaluations4, {}, Scores, Skills, SkillsRequired)
  BY <1>2, <1>3, Swap5 DEF Swaps
<1>5. /\ "candidate_assessment_id" \notin Sections \cup SectionsRequired
      /\ "session_id" \notin Sections \cup SectionsRequired
      /\ "candidate_assessment_id" \notin Narrative \cup NarrativeRequired
      /\ "session_id" \notin Narrative \cup NarrativeRequired
  BY DEF Sections, SectionsRequired, Narrative, NarrativeRequired
<1>6. /\ Unlinked(Evaluations5, Sections \cup SectionsRequired)
      /\ Unlinked(Evaluations5, Narrative \cup NarrativeRequired)
  BY <1>5, EvaluationsLinked, LinksStay
<1>7. /\ Narrative \subseteq Evaluations5.free /\ Narrative \cap Evaluations5.must = {}
      /\ NarrativeRequired \subseteq Evaluations5.must
      /\ NarrativeRequired \cap Evaluations5.free = {}
  BY EvaluationParts DEF Narrative, NarrativeRequired, Skills, SkillsRequired, Scores,
                         EvaluationTable, Table, EvaluationCourse
<1>8. Swaps(Evaluations5, Sections, SectionsRequired, Narrative, NarrativeRequired)
  BY <1>6, <1>7, Swap6 DEF Swaps
<1> QED
  BY <1>4, <1>8

LEMMA SessionParts ==
  /\ IsTable(Sessions4) /\ IsTable(Sessions5)
  /\ Sessions4.free = (ConversationTables["interview_sessions"].free \cup SessionCourse)
                        \ SessionDefaults
  /\ Sessions4.must = ConversationTables["interview_sessions"].must \cup SessionCounters
                        \cup SessionDefaults
  /\ Sessions4.keys = {{"candidate_assessment_id"}} /\ Sessions4.refs = {}
  /\ Sessions5.keys = {{"candidate_assessment_id"}} /\ Sessions5.refs = {}
<1> DEFINE table == ConversationTables["interview_sessions"]
<1>1. IsTable(Sessions4) /\ IsTable(Sessions5)
  BY TablesAreTables DEF Sessions4, Sessions5
<1>2. /\ Sessions4.free = (table.free \cup SessionCourse) \ SessionDefaults
      /\ Sessions4.must = table.must \cup SessionCounters \cup SessionDefaults
      /\ Sessions4.keys = table.keys \ {} /\ Sessions4.refs = table.refs \ OfEnrolment
  BY DEF Sessions4, Unbound, Bare, With, Table
<1>3. table.keys = {{"candidate_assessment_id"}} /\ table.refs = OfEnrolment
  BY DEF ConversationTables, Table
<1>4. Sessions4.keys = {{"candidate_assessment_id"}} /\ Sessions4.refs = {}
  BY <1>2, <1>3
<1>5. /\ Sessions5.keys = {k \in Sessions4.keys : k \cap (Course \cup CourseRequired) = {}}
      /\ Sessions5.refs = {p \in Sessions4.refs : p[1] \notin Course \cup CourseRequired}
  BY DEF Sessions5, Without, With, Table
<1>6. "candidate_assessment_id" \notin Course \cup CourseRequired
  BY DEF Course, CourseRequired
<1>7. {"candidate_assessment_id"} \cap (Course \cup CourseRequired) = {}
  BY <1>6
<1>8. Sessions5.keys = {{"candidate_assessment_id"}} /\ Sessions5.refs = {}
  BY <1>4, <1>5, <1>7
<1> QED
  BY <1>1, <1>2, <1>4, <1>8

LEMMA SessionSwaps == Swaps(Sessions4, {"transcript"}, {}, Course, CourseRequired)
<1>1. /\ Course \subseteq Sessions4.free /\ Course \cap Sessions4.must = {}
      /\ CourseRequired \subseteq Sessions4.must /\ CourseRequired \cap Sessions4.free = {}
  BY SessionParts DEF Course, CourseRequired, ConversationTables, Table, SessionCourse,
                      SessionCounters, SessionDefaults
<1>2. "candidate_assessment_id" \notin {"transcript"} \cup {}
      /\ "candidate_assessment_id" \notin Course \cup CourseRequired
  BY DEF Course, CourseRequired
<1>3. {"candidate_assessment_id"} \cap ({"transcript"} \cup {}) = {}
      /\ {"candidate_assessment_id"} \cap (Course \cup CourseRequired) = {}
  BY <1>2
<1>4. Unlinked(Sessions4, {"transcript"} \cup {}) /\ Unlinked(Sessions4, Course \cup CourseRequired)
  BY <1>3, SessionParts DEF Unlinked
<1> QED
  BY <1>1, <1>4, Swap5 DEF Swaps

\* Dropping what was added, with or without bringing back what was dropped.
LEMMA DropDown ==
  ASSUME NEW T, NEW t, t \notin Checkpoints, NEW table, IsTable(table), NEW free,
         Fresh(free \cup {}, table), Unlinked(table, free \cup {}),
         NEW d, At(d, Put(T, t, With(table, free, {}))), NEW e, e = DropColumns(d, {t}, free)
  PROVE  At(e, Put(T, t, table)) /\ Same(d, e)
<1>1. At(e, Put(T, t, Without(With(table, free, {}), free))) /\ Same(d, e)
  BY DropOne
<1>2. free \cup {} = free
  OBVIOUS
<1>3. Without(With(table, free, {}), free) = table
  BY <1>2, DropTheAdded
<1> QED
  BY <1>1, <1>3

LEMMA SwapDown ==
  ASSUME NEW T, NEW t, t \notin Checkpoints, NEW table, IsTable(table), NEW free, NEW must,
         NEW lost, NEW lostMust, Swaps(table, free, must, lost, lostMust),
         NEW swapped, swapped = Without(With(table, free, must), lost \cup lostMust),
         NEW d, At(d, Put(T, t, swapped)),
         NEW d1, d1 = AddColumns(d, {t}, lost, lostMust),
         NEW added, added = free \cup must,
         NEW e, e = DropColumns(d1, {t}, added)
  PROVE  At(e, Put(T, t, table)) /\ Same(d, e)
<1> DEFINE w == With(swapped, lost, lostMust)
<1>1. At(d1, Put(T, t, w)) /\ Same(d, d1)
  BY AddOne
<1>2. Without(w, added) = table
  BY SwapBack
<1> HIDE DEF w
<1>3. At(e, Put(T, t, Without(w, added))) /\ Same(d1, e)
  BY <1>1, DropOne
<1> QED
  BY <1>1, <1>2, <1>3, SameTransitive

\* Dropped tables take their rows along, and nothing else changes.
Dropped(d, e) ==
    /\ e.ok => d.ok
    /\ e.checks = d.checks /\ e.filled \subseteq d.filled
    /\ e.session \in {d.session, EmptyDb.session}
    /\ e.enrolment \in {d.enrolment, EmptyDb.enrolment}

LEMMA DroppedFacts ==
  ASSUME NEW c, NEW d, NEW e, NEW names
  PROVE  /\ Same(d, e) => Dropped(d, e)
         /\ Stay(d, e) => Dropped(d, e)
         /\ Shrunk(d, e, names) => Dropped(d, e)
         /\ Dropped(c, d) /\ Dropped(d, e) => Dropped(c, e)
  BY DEF Same, Stay, Shrunk, Leaner, Dropped

LEMMA Back1 ==
  ASSUME NEW d, At(d, S1), NEW e, e = InitialSchemaDown(d)
  PROVE  At(e, S0) /\ Dropped(d, e)
<1> DEFINE names == DOMAIN PeopleTables \cup DOMAIN AssessmentTables \cup DOMAIN LogTables
<1>1. names = DOMAIN S1
  BY Schema1, MixinNames DEF Names1
<1>2. e = DropTables(d, names)
  BY DEF InitialSchemaDown
<1> HIDE DEF names
<1>3. At(e, Less(S1, names)) /\ Shrunk(d, e, names)
  BY <1>2, DropTablesAt
<1>4. Less(S1, names) = S0
  BY <1>1 DEF Less, Restrict, S0, EmptyTables
<1> QED
  BY <1>3, <1>4, DroppedFacts

LEMMA Back2 ==
  ASSUME NEW d, At(d, S2), NEW e, e = InterviewTablesDown(d)
  PROVE  At(e, S1) /\ Dropped(d, e)
<1> DEFINE names == Interviews \cup Talk
<1>1. e = DropTables(d, names)
  <2>1. names = {"interview_evaluations", "answer_evaluations", "transcript_turns",
                 "interview_sessions"}
    BY DEF Interviews, Talk
  <2> QED
    BY <2>1 DEF InterviewTablesDown
<1> HIDE DEF names
<1>2. At(e, Less(S2, names)) /\ Shrunk(d, e, names)
  BY <1>1, DropTablesAt
<1>3. Less(S2, names) = S1
  <2>1. DOMAIN S2 \ names = DOMAIN S1
    BY Schema1, Schema2 DEF names, Names1, Interviews, Talk
  <2>2. \A t \in DOMAIN S1 : S2[t] = S1[t]
    BY <2>1, Schema2 DEF Else
  <2> QED
    BY <2>1, <2>2, Schema1 DEF Less, Restrict, IsFun
<1> QED
  BY <1>2, <1>3, DroppedFacts

LEMMA Back3 ==
  ASSUME NEW d, At(d, S3), NEW e, e = RecruiterTokensDown(d)
  PROVE  At(e, S2) /\ Dropped(d, e)
<1> DEFINE names == {"recruiter_tokens"}
<1>1. e = DropTables(d, names)
  BY DEF RecruiterTokensDown
<1>2. At(e, Less(S3, names)) /\ Shrunk(d, e, names)
  <2> HIDE DEF names
  <2> QED
    BY <1>1, DropTablesAt
<1>3. Less(S3, names) = S2
  <2>1. DOMAIN S3 \ names = DOMAIN S2
    BY Schema2, Schema3 DEF Names5, Names1, Interviews, Talk
  <2>2. \A t \in DOMAIN S2 : S3[t] = S2[t]
    BY <2>1, Schema3 DEF Else
  <2> QED
    BY <2>1, <2>2, Schema2 DEF Less, Restrict, IsFun
<1> QED
  BY <1>2, <1>3, DroppedFacts

\* Revision 4 has no way back: the statement it starts with is refused.
LEMMA Back4 ==
  ASSUME NEW d, NEW T, NEW U, At(d, T), NEW e, e = ModelUpdatesDown(d)
  PROVE  At(e, U) /\ Dropped(d, e) /\ ~e.ok
<1>1. e = [tables |-> d.tables, checks |-> d.checks, filled |-> d.filled, ok |-> FALSE,
           session |-> d.session, enrolment |-> d.enrolment]
  BY DEF At, IsDb, ModelUpdatesDown
<1>2. /\ e.tables = d.tables /\ e.checks = d.checks /\ e.filled = d.filled /\ e.ok = FALSE
      /\ e.session = d.session /\ e.enrolment = d.enrolment
  BY <1>1
<1>3. IsDb(e)
  BY <1>1, <1>2, Zenon DEF IsDb
<1> QED
  BY <1>2, <1>3 DEF At, Dropped

LEMMA TalkBack ==
  /\ TurnsTableBack = Turns4 /\ AnswersTableBack = Answers4
<1>1. /\ Turns4.free = ConversationTables["transcript_turns"].free \cup TurnCourse
      /\ Turns4.must = ConversationTables["transcript_turns"].must \cup {"session_id"}
      /\ Turns4.keys = (ConversationTables["transcript_turns"].keys \ TurnKey) \cup {}
      /\ Turns4.refs = (ConversationTables["transcript_turns"].refs \ OfEnrolment) \cup OfSession
  BY DEF Turns4, Bound, Unbound, With, Table
<1>2. /\ Answers4.free = AnswerTable.free \cup {}
      /\ Answers4.must = AnswerTable.must \cup AnswerCourse
      /\ Answers4.keys = (AnswerTable.keys \ TurnKey) \cup {}
      /\ Answers4.refs = (AnswerTable.refs \ OfEnrolment) \cup OfSession
  BY DEF Answers4, Bound, Unbound, With, Table
<1>3. IsTable(Turns4) /\ IsTable(Answers4)
  BY TablesAreTables DEF Turns4, Answers4
<1>4. IsTable(TurnsTableBack) /\ IsTable(AnswersTableBack)
  BY DEF IsTable, TurnsTableBack, AnswersTableBack, Table
<1>5. TurnsTableBack.free = Turns4.free
  BY <1>1 DEF TurnsTableBack, Table, ConversationTables, TurnCourse
<1>6. TurnsTableBack.must = Turns4.must
  BY <1>1 DEF TurnsTableBack, Table, ConversationTables
<1>7. TurnsTableBack.keys = Turns4.keys
  BY <1>1 DEF TurnsTableBack, Table, ConversationTables, TurnKey
<1>8. TurnsTableBack.refs = Turns4.refs
  BY <1>1 DEF TurnsTableBack, Table, ConversationTables, OfEnrolment, OfSession
<1>9. AnswersTableBack.free = Answers4.free
  BY <1>2 DEF AnswersTableBack, Table, AnswerTable
<1>10. AnswersTableBack.must = Answers4.must
  BY <1>2 DEF AnswersTableBack, Table, AnswerTable, AnswerCourse
<1>11. AnswersTableBack.keys = Answers4.keys
  BY <1>2 DEF AnswersTableBack, Table, AnswerTable, TurnKey
<1>12. AnswersTableBack.refs = Answers4.refs
  BY <1>2 DEF AnswersTableBack, Table, AnswerTable, OfEnrolment, OfSession
<1> QED
  BY <1>3, <1>4, <1>5, <1>6, <1>7, <1>8, <1>9, <1>10, <1>11, <1>12, Zenon DEF IsTable

\* The defaults that revision 6 takes away come back.
LEMMA DefaultsReturn ==
  \A t \in DOMAIN BareDefaults : Defaulted(Bare(S5[t], BareDefaults[t]), BareDefaults[t]) = S5[t]
<1>1. \A t \in DOMAIN BareDefaults : S5[t] = S1[t]
  BY MixinNames, Schema1, Schema2, Schema3, Schema4, Schema5
  DEF Else, Names1, Names5, Interviews, Talk
<1>2. /\ S1["assessments"] = AssessmentTables["assessments"]
      /\ S1["candidate_assessments"] = AssessmentTables["candidate_assessments"]
      /\ S1["csv_upload_logs"] = LogTables["csv_upload_logs"]
      /\ S1["notification_logs"] = LogTables["notification_logs"]
      /\ S1["recruiters"] = PeopleTables["recruiters"]
  BY MixinNames, Schema1
<1> DEFINE Returns(table, columns) ==
             IsTable(table) /\ columns \subseteq table.free /\ columns \cap table.must = {}
<1>3. Returns(AssessmentTables["assessments"], BareDefaults["assessments"])
  BY DEF AssessmentTables, BareDefaults, IsTable, Table
<1>4. Returns(AssessmentTables["candidate_assessments"], BareDefaults["candidate_assessments"])
  BY DEF AssessmentTables, BareDefaults, IsTable, Table
<1>5. Returns(LogTables["csv_upload_logs"], BareDefaults["csv_upload_logs"])
  BY DEF LogTables, BareDefaults, IsTable, Table
<1>6. Returns(LogTables["notification_logs"], BareDefaults["notification_logs"])
  BY DEF LogTables, BareDefaults, IsTable, Table
<1>7. Returns(PeopleTables["recruiters"], BareDefaults["recruiters"])
  BY DEF PeopleTables, BareDefaults, IsTable, Table
<1>8. ASSUME NEW t \in DOMAIN BareDefaults PROVE Returns(S5[t], BareDefaults[t])
  <2> HIDE DEF Returns
  <2> QED
    BY <1>1, <1>2, <1>3, <1>4, <1>5, <1>6, <1>7, MixinNames
<1> QED
  BY <1>8, DefaultBack

LEMMA Back5 ==
  ASSUME NEW d, At(d, S5), NEW e, e = TranscriptInSessionDown(d)
  PROVE  At(e, S4) /\ Dropped(d, e)
<1> DEFINE new == [transcript_turns |-> TurnsTableBack, answer_evaluations |-> AnswersTableBack]
           d1 == SessionColumnsBack(d)
           d2 == SkillColumnsBack(d1)
           T1 == Less(S4, Talk)
           T2 == Put(T1, "interview_evaluations", Evaluations5)
<1>1. /\ e = CreateTables(d2, new) /\ S5 = Put(T2, "interview_sessions", Sessions5)
      /\ DOMAIN new = Talk
      /\ new["transcript_turns"] = Turns4 /\ new["answer_evaluations"] = Answers4
  BY TalkBack DEF TranscriptInSessionDown, S5, Talk
<1>2. /\ IsFun(T1) /\ DOMAIN T1 = Names5 /\ \A t \in Names5 : T1[t] = S4[t]
      /\ T1["interview_evaluations"] = Evaluations4 /\ T1["interview_sessions"] = Sessions4
  BY Schema4 DEF Less, Restrict, IsFun, Names5, Names1, Interviews, Talk
<1>3. /\ "interview_evaluations" \in Names5 /\ "interview_sessions" \in Names5
      /\ "interview_evaluations" \notin Checkpoints /\ "interview_sessions" \notin Checkpoints
  BY OwnNames DEF Names5, Interviews
<1> HIDE DEF T1
<1>4. IsFun(T2) /\ "interview_sessions" \in DOMAIN T2 /\ T2["interview_sessions"] = Sessions4
  BY <1>2, <1>3, PutIsFun, PutOther
<1> HIDE DEF T2, d1, d2, new
<1>5. At(d1, T2) /\ Same(d, d1)
  <2>1. At(d1, Put(T2, "interview_sessions", Sessions4)) /\ Same(d, d1)
    <3>1. {"transcript"} = {"transcript"} \cup {}
      OBVIOUS
    <3> QED
      BY <1>1, <1>3, <3>1, SessionParts, SessionSwaps, SwapDown
      DEF d1, SessionColumnsBack, Sessions5
  <2> QED
    BY <1>4, <2>1, PutBack DEF IsFun
<1>6. At(d2, T1) /\ Same(d1, d2)
  <2>1. At(d2, Put(T1, "interview_evaluations", Evaluations4)) /\ Same(d1, d2)
    <3>1. Scores = {} \cup Scores
      OBVIOUS
    <3> QED
      BY <1>3, <1>5, <3>1, EvaluationParts, EvaluationSwaps, SwapDown
      DEF d2, T2, SkillColumnsBack, Evaluations5
  <2> QED
    BY <1>2, <1>3, <2>1, PutBack DEF IsFun
<1>7. At(e, Override(T1, new)) /\ Same(d2, e)
  <2>1. DOMAIN new \cap Checkpoints = {}
    BY <1>1, OwnNames
  <2> QED
    BY <1>1, <1>6, <2>1, CreateAt
<1>8. Override(T1, new) = S4
  <2>1. DOMAIN T1 \cup DOMAIN new = DOMAIN S4
    BY <1>1, <1>2, Schema4
  <2>2. \A t \in DOMAIN S4 : S4[t] = IF t \in DOMAIN new THEN new[t] ELSE T1[t]
    BY <1>1, <1>2, Schema4 DEF Talk
  <2> QED
    BY <2>1, <2>2, Schema4 DEF Override, IsFun
<1> QED
  BY <1>5, <1>6, <1>7, <1>8, SameTransitive, DroppedFacts

LEMMA Back6 ==
  ASSUME NEW d, At(d, S6), NEW e, e = SectionsDown(d)
  PROVE  At(e, S5) /\ Dropped(d, e)
<1> DEFINE t == "interview_evaluations"
           d1 == NarrativeBack(d)
           d2 == DefaultsBack(d1)
           T2 == Override(S5, [x \in DOMAIN BareDefaults |-> Bare(S5[x], BareDefaults[x])])
           back == [x \in DOMAIN BareDefaults |-> Defaulted(T2[x], BareDefaults[x])]
<1>1. e = CheckpointsBack(d2) /\ S6 = Put(T2, t, Evaluations6)
  BY DEF SectionsDown, S6
<1>2. t \notin Checkpoints /\ t \in Names5 /\ DOMAIN BareDefaults \cap Checkpoints = {}
      /\ t \notin DOMAIN BareDefaults
  BY OwnNames, Schema6 DEF Names5, Names1, Interviews
<1>3. /\ IsFun(S5) /\ IsFun(T2) /\ t \in DOMAIN T2 /\ T2[t] = Evaluations5
      /\ DOMAIN T2 = DOMAIN S5 /\ DOMAIN BareDefaults \subseteq DOMAIN S5
      /\ \A x \in DOMAIN BareDefaults : T2[x] = Bare(S5[x], BareDefaults[x])
      /\ \A x \in DOMAIN S5 \ DOMAIN BareDefaults : T2[x] = S5[x]
  BY <1>2, Schema5, DefaultsThere DEF IsFun, Override, HasThem
<1>4. At(d1, T2) /\ Same(d, d1)
  <2>1. At(d1, Put(T2, t, Evaluations5)) /\ Same(d, d1)
    <3> HIDE DEF T2
    <3> QED
      BY <1>1, <1>2, EvaluationParts, EvaluationSwaps, SwapDown DEF NarrativeBack, Evaluations6
  <2> QED
    BY <1>3, <2>1, PutBack DEF IsFun
<1> HIDE DEF d1, T2
<1>5. At(d2, Override(T2, back)) /\ Same(d1, d2)
  BY <1>2, <1>4, DefaultsAt DEF DefaultsBack
<1>6. Override(T2, back) = S5
  <2>1. \A x \in DOMAIN BareDefaults : back[x] = S5[x]
    BY <1>3, DefaultsReturn
  <2>2. DOMAIN T2 \cup DOMAIN back = DOMAIN S5
    BY <1>3
  <2>3. DOMAIN back = DOMAIN BareDefaults
    OBVIOUS
  <2> HIDE DEF back
  <2>4. \A x \in DOMAIN S5 : S5[x] = IF x \in DOMAIN back THEN back[x] ELSE T2[x]
    BY <1>3, <2>1, <2>3
  <2> QED
    BY <1>3, <2>2, <2>4 DEF Override, IsFun
<1>7. At(e, S5) /\ Stay(d2, e)
  <2> HIDE DEF d2, back
  <2> QED
    BY <1>1, <1>5, <1>6, CheckpointsCome
<1> QED
  BY <1>4, <1>5, <1>7, SameTransitive, DroppedFacts

LEMMA Back7 ==
  ASSUME NEW d, At(d, S7), NEW e, e = LineageDown(d)
  PROVE  At(e, S6) /\ Dropped(d, e)
<1> DEFINE t == "interview_evaluations"
<1>1. /\ t \in DOMAIN S6 /\ S6[t] = Evaluations6 /\ IsFun(S6) /\ t \notin Checkpoints
      /\ S7 = Put(S6, t, With(Evaluations6, Lineage, {}))
  BY Schema6, OwnNames DEF Names5, Interviews, S7, Evaluations7
<1>2. "candidate_assessment_id" \notin Lineage \cup {} /\ "session_id" \notin Lineage \cup {}
  BY DEF Lineage
<1>3. Unlinked(Evaluations6, Lineage \cup {})
  BY <1>2, EvaluationsLinked, LinksStay
<1>4. At(e, Put(S6, t, Evaluations6)) /\ Same(d, e)
  <2> HIDE DEF t
  <2> QED
    BY <1>1, <1>3, EvaluationParts, LineageIsNew, DropDown DEF LineageDown, t
<1> QED
  BY <1>1, <1>4, PutBack, DroppedFacts DEF IsFun

LEMMA Back10 ==
  ASSUME NEW d, At(d, S10), NEW e, e = QuestionsDown(d)
  PROVE  At(e, S9) /\ Same(d, e)
<1> DEFINE t == "interview_evaluations"
           new == {"question_evaluations"}
<1>1. /\ t \in DOMAIN S9 /\ S9[t] = Evaluations7 /\ IsFun(S9) /\ t \notin Checkpoints
      /\ S10 = Put(S9, t, With(Evaluations7, new, {}))
  BY Schema7, Schema8, Schema9, OwnNames
  DEF Else, Names1, Names5, Names8, Interviews, MixinTables, S10, Evaluations10
<1>2. "candidate_assessment_id" \notin new \cup {} /\ "session_id" \notin new \cup {}
  OBVIOUS
<1>3. Unlinked(Evaluations7, new \cup {})
  BY <1>2, EvaluationsLinked, LinksStay
<1>4. At(e, Put(S9, t, Evaluations7)) /\ Same(d, e)
  <2>1. e = DropColumns(d, {t}, new) /\ Fresh(new \cup {}, Evaluations7)
    BY LineageIsNew DEF QuestionsDown
  <2> HIDE DEF t, new
  <2> QED
    BY <1>1, <1>3, <2>1, EvaluationParts, DropDown
<1> QED
  BY <1>1, <1>4, PutBack DEF IsFun

\* The tables that become soft-deletable, as revision 7 has them.
LEMMA MixinParts ==
  \A t \in MixinTables : IsTable(S7[t]) /\ Unlinked(S7[t], {"deleted_at"} \cup {})
<1> DEFINE P(table) == IsTable(table) /\ Unlinked(table, {"deleted_at"})
<1>1. ASSUME NEW table, NEW columns, P(table) PROVE P(Bare(table, columns))
  <2>1. Bare(table, columns).keys = table.keys /\ Bare(table, columns).refs = table.refs
    BY DEF Bare, Table
  <2> QED
    BY <1>1, <2>1, TablesAreTables DEF Unlinked
<1>2. /\ P(AssessmentTables["assessments"]) /\ P(AssessmentTables["candidate_assessments"])
      /\ P(PeopleTables["recruiters"]) /\ P(PeopleTables["candidates"])
  <2>1. /\ IsTable(AssessmentTables["assessments"])
        /\ IsTable(AssessmentTables["candidate_assessments"])
        /\ IsTable(PeopleTables["recruiters"]) /\ IsTable(PeopleTables["candidates"])
    BY DEF IsTable, AssessmentTables, PeopleTables, Table
  <2>2. Unlinked(AssessmentTables["assessments"], {"deleted_at"})
    BY DEF Unlinked, AssessmentTables, Table
  <2>3. Unlinked(AssessmentTables["candidate_assessments"], {"deleted_at"})
    BY DEF Unlinked, AssessmentTables, Table
  <2>4. Unlinked(PeopleTables["recruiters"], {"deleted_at"})
    BY DEF Unlinked, PeopleTables, Table
  <2>5. Unlinked(PeopleTables["candidates"], {"deleted_at"})
    BY DEF Unlinked, PeopleTables, Table
  <2> QED
    BY <2>1, <2>2, <2>3, <2>4, <2>5
<1> HIDE DEF P
<1>3. /\ S1["assessments"] = AssessmentTables["assessments"]
      /\ S1["candidate_assessments"] = AssessmentTables["candidate_assessments"]
      /\ S1["recruiters"] = PeopleTables["recruiters"]
      /\ S1["candidates"] = PeopleTables["candidates"]
  BY MixinNames, Schema1
<1>4. \A t \in MixinTables : S5[t] = S1[t] /\ S7[t] = S6[t] /\ t \in DOMAIN S6
  BY MixinNames, Schema1, Schema2, Schema3, Schema4, Schema5, Schema6, Schema7
  DEF Else, Names1, Names5, Interviews, Talk
<1>5. ASSUME NEW t \in MixinTables PROVE P(S7[t])
  <2>1. P(S5[t])
    BY <1>2, <1>3, <1>4 DEF MixinTables
  <2>2. CASE t \in DOMAIN BareDefaults
    BY <1>1, <1>4, <2>1, <2>2, Schema6
  <2>3. CASE t \notin DOMAIN BareDefaults
    <3>1. S6[t] = S5[t]
      BY <1>4, <2>3, Schema5, Schema6, MixinNames DEF Else, Interviews, MixinTables
    <3> QED
      BY <1>4, <2>1, <3>1
  <2> QED
    BY <2>2, <2>3
<1>6. {"deleted_at"} \cup {} = {"deleted_at"}
  OBVIOUS
<1> QED
  BY <1>5, <1>6 DEF P

\* The two logs as the way down makes them are those of revision 7.
LEMMA LogsBack ==
  /\ DOMAIN LogTablesBack = {"csv_upload_logs", "audit_logs"}
  /\ LogTablesBack["csv_upload_logs"] = S7["csv_upload_logs"]
  /\ LogTablesBack["audit_logs"] = S7["audit_logs"]
<1> DEFINE csv == LogTables["csv_upload_logs"]
           new == LogTablesBack["csv_upload_logs"]
           columns == BareDefaults["csv_upload_logs"]
<1>1. S1["csv_upload_logs"] = csv /\ S1["audit_logs"] = LogTables["audit_logs"]
  BY MixinNames, Schema1
<1>2. /\ S5["csv_upload_logs"] = csv /\ S7["csv_upload_logs"] = S6["csv_upload_logs"]
      /\ S6["csv_upload_logs"] = Bare(S5["csv_upload_logs"], columns)
      /\ S7["audit_logs"] = LogTables["audit_logs"]
  BY <1>1, MixinNames, Schema1, Schema2, Schema3, Schema4, Schema5, Schema6, Schema7
  DEF Else, Names1, Names5, Interviews, Talk
<1>3. S7["csv_upload_logs"] = Table(csv.free \ columns, csv.must \cup columns, csv.keys, csv.refs)
  BY <1>2 DEF Bare
<1>4. new = Table(new.free, new.must, new.keys, new.refs)
  BY DEF LogTablesBack, Table
<1>5. new.free = csv.free \ columns
  BY DEF LogTablesBack, LogTables, BareDefaults, Table
<1>6. new.must = csv.must \cup columns
  BY DEF LogTablesBack, LogTables, BareDefaults, Table
<1>7. new.keys = csv.keys
  BY DEF LogTablesBack, LogTables, BareDefaults, Table
<1>8. new.refs = csv.refs
  BY DEF LogTablesBack, LogTables, BareDefaults, Table
<1>9. LogTablesBack["audit_logs"] = LogTables["audit_logs"]
  BY DEF LogTablesBack, LogTables, Table
<1>10. DOMAIN LogTablesBack = {"csv_upload_logs", "audit_logs"}
  BY DEF LogTablesBack
<1>11. new = S7["csv_upload_logs"]
  <2> HIDE DEF new, csv, columns
  <2> QED
    BY <1>3, <1>4, <1>5, <1>6, <1>7, <1>8, Zenon
<1> QED
  BY <1>2, <1>9, <1>10, <1>11

LEMMA Back8 ==
  ASSUME NEW d, At(d, S8), NEW e, e = EventLogDown(d)
  PROVE  At(e, S7) /\ Dropped(d, e)
<1> DEFINE log == {"event_logs"}
           columns == {"deleted_at"}
           d1 == CreateTables(d, LogTablesBack)
           d2 == DropTables(d1, log)
           T1 == Override(S8, LogTablesBack)
           T2 == Less(T1, log)
           new == [t \in MixinTables |-> Without(T2[t], columns)]
<1>1. e = DropColumns(d2, MixinTables, columns)
  BY DEF EventLogDown
<1>2. /\ DOMAIN S8 = Names8 /\ DOMAIN T1 = Names8 \cup {"csv_upload_logs", "audit_logs"}
      /\ DOMAIN T2 = Names5 /\ DOMAIN LogTablesBack \cap Checkpoints = {}
      /\ MixinTables \cap Checkpoints = {} /\ MixinTables \subseteq Names5
      /\ MixinTables \cap {"csv_upload_logs", "audit_logs"} = {}
  BY Schema8, LogsBack, OwnNames, MixinNames
  DEF Override, Less, Restrict, Names8, Names5, Names1, Interviews, MixinTables
<1>3. /\ \A t \in {"csv_upload_logs", "audit_logs"} : T2[t] = S7[t]
      /\ \A t \in MixinTables : T2[t] = With(S7[t], columns, {})
      /\ \A t \in Names5 \ (MixinTables \cup {"csv_upload_logs", "audit_logs"}) : T2[t] = S7[t]
  BY <1>2, Schema7, Schema8, LogsBack
  DEF Override, Less, Restrict, Names8, Names5, Names1, Interviews, Else, MixinTables
<1>4. ASSUME NEW t \in MixinTables PROVE Without(T2[t], columns) = S7[t]
  <2>1. columns \cup {} = columns
    OBVIOUS
  <2>2. Fresh(columns \cup {}, S7[t])
    BY MixinColumns DEF Fresh
  <2>3. IsTable(S7[t]) /\ Unlinked(S7[t], columns \cup {})
    BY MixinParts
  <2> HIDE DEF columns, T2
  <2>4. Without(With(S7[t], columns, {}), columns \cup {}) = S7[t]
    BY <2>2, <2>3, DropTheAdded
  <2> QED
    BY <1>3, <2>1, <2>4
<1> HIDE DEF T1, d1, log, columns
<1>5. At(d1, T1) /\ Same(d, d1)
  BY <1>2, CreateAt DEF d1, T1
<1>6. At(d2, T2) /\ Shrunk(d1, d2, log)
  BY <1>5, DropTablesAt
<1> HIDE DEF d2, T2
<1>7. At(e, Override(T2, new)) /\ Same(d2, e)
  BY <1>1, <1>2, <1>6, DropAt
<1>8. Override(T2, new) = S7
  <2>1. DOMAIN new = MixinTables /\ DOMAIN T2 \cup DOMAIN new = DOMAIN S7
    BY <1>2, Schema7
  <2>2. \A t \in MixinTables : new[t] = S7[t]
    BY <1>4
  <2> HIDE DEF new
  <2>3. \A t \in DOMAIN S7 : S7[t] = IF t \in DOMAIN new THEN new[t] ELSE T2[t]
    BY <1>2, <1>3, <2>1, <2>2, Schema7
  <2> QED
    BY <2>1, <2>3, Schema7 DEF Override, IsFun
<1> HIDE DEF new
<1> QED
  BY <1>5, <1>6, <1>7, <1>8, DroppedFacts

\* The rows on the way back from revision 9.
Paused(session) ==
    [session EXCEPT !.status = IF @ = "DISCONNECTED" THEN "PAUSED" ELSE @]

\* A database with other rows and checks.
LEMMA RowsAlone ==
  ASSUME NEW d, NEW T, At(d, T), NEW checks, NEW session, NEW enrolment, NEW e,
         e = [tables |-> d.tables, checks |-> checks, filled |-> d.filled, ok |-> d.ok,
              session |-> session, enrolment |-> enrolment]
  PROVE  /\ At(e, T) /\ e.ok = d.ok /\ e.filled = d.filled /\ e.checks = checks
         /\ e.session = session /\ e.enrolment = enrolment
<1>1. /\ e.tables = d.tables /\ e.checks = checks /\ e.filled = d.filled /\ e.ok = d.ok
      /\ e.session = session /\ e.enrolment = enrolment
  OBVIOUS
<1>2. IsDb(e)
  BY <1>1, Zenon DEF At, IsDb
<1> QED
  BY <1>1, <1>2 DEF At

LEMMA SessionLinks ==
  /\ Fresh(ReconnectColumns \cup {}, Renamed9) /\ Unlinked(Renamed9, ReconnectColumns \cup {})
  /\ IsTable(Renamed9) /\ {{"session_token"}} \cap With(Renamed9, ReconnectColumns, {}).keys = {}
  /\ RenamedIn(Renamed9, "reconnect_deadline", "grace_period_expires_at") = Sessions5
<1>1. Renamed9.keys = Sessions5.keys /\ Renamed9.refs = Sessions5.refs
  BY DEF Renamed9, RenamedIn, Table
<1>2. "candidate_assessment_id" \notin ReconnectColumns \cup {}
  BY DEF ReconnectColumns
<1>3. {"candidate_assessment_id"} \cap (ReconnectColumns \cup {}) = {}
  BY <1>2
<1>4. Unlinked(Renamed9, ReconnectColumns \cup {})
  BY <1>1, <1>3, SessionParts DEF Unlinked
<1>5. With(Renamed9, ReconnectColumns, {}).keys = Renamed9.keys
  BY DEF With, Table
<1>6. {"session_token"} # {"candidate_assessment_id"}
  OBVIOUS
<1>7. {{"session_token"}} \cap With(Renamed9, ReconnectColumns, {}).keys = {}
  BY <1>1, <1>5, <1>6, SessionParts
<1>8. IsTable(Renamed9)
  BY TablesAreTables DEF Renamed9
<1>9. RenamedIn(Renamed9, "reconnect_deadline", "grace_period_expires_at") = Sessions5
  <2>1. "reconnect_deadline" \notin Sessions5.free
    BY SessionColumns DEF Columns
  <2> QED
    BY <2>1, SessionColumns, SessionParts, RenamedBack DEF Renamed9
<1> QED
  BY <1>4, <1>7, <1>8, <1>9, ReconnectFits

LEMMA EnrolmentLinks ==
  /\ IsTable(S8["candidate_assessments"])
  /\ Unlinked(S8["candidate_assessments"], InviteColumns \cup {})
<1> DEFINE table == AssessmentTables["candidate_assessments"]
<1>1. /\ S8["candidate_assessments"] = With(S7["candidate_assessments"], {"deleted_at"}, {})
      /\ S7["candidate_assessments"] = S6["candidate_assessments"]
      /\ S6["candidate_assessments"]
           = Bare(S5["candidate_assessments"], BareDefaults["candidate_assessments"])
      /\ S5["candidate_assessments"] = table
  BY MixinNames, Schema1, Schema2, Schema3, Schema4, Schema5, Schema6, Schema7, Schema8
  DEF Else, Names1, Names5, Interviews, Talk, MixinTables
<1>2. /\ S8["candidate_assessments"].keys = table.keys
      /\ S8["candidate_assessments"].refs = table.refs
  BY <1>1 DEF With, Bare, Table
<1>3. Unlinked(table, InviteColumns \cup {})
  BY DEF Unlinked, AssessmentTables, Table, InviteColumns
<1>4. Unlinked(S8["candidate_assessments"], InviteColumns \cup {})
  <2> HIDE DEF table
  <2> QED
    BY <1>2, <1>3 DEF Unlinked
<1> QED
  BY <1>1, <1>4, TablesAreTables

LEMMA Back9 ==
  ASSUME NEW d, At(d, S9), NEW e, e = ReconnectDown(d)
  PROVE  /\ At(e, S8) /\ e.checks = d.checks \ ReconnectChecks /\ e.filled = d.filled
         /\ e.session = Paused(d.session)
         /\ e.enrolment = [d.enrolment EXCEPT !.consumed = FALSE]
         /\ e.ok => d.ok
<1> DEFINE t == "interview_sessions"
           c == "candidate_assessments"
           old == "grace_period_expires_at"
           new == "reconnect_deadline"
           key == {{"session_token"}}
           v == With(Renamed9, ReconnectColumns, {})
           T1 == Put(S8, c, Enrolments9)
           d1 == [d EXCEPT !.checks = @ \ ReconnectChecks]
           d2 == DropConstraints(d1, t, key, {})
           d3 == [d2 EXCEPT !.session.status = IF @ = "DISCONNECTED" THEN "PAUSED" ELSE @]
           d4 == DropColumns(d3, {t}, ReconnectColumns)
           d5 == Renamed(d4, new, old)
           d6 == DropColumns(d5, {c}, InviteColumns)
<1>1. /\ e = [d6 EXCEPT !.enrolment.consumed = FALSE]
      /\ S9 = Put(T1, t, Bound(v, key, {}))
      /\ Enrolments9 = With(S8[c], InviteColumns, {})
  BY DEF ReconnectDown, S9, Sessions9, Enrolments9
<1>2. /\ IsFun(S8) /\ c \in DOMAIN S8 /\ t \in DOMAIN S8 /\ S8[t] = Sessions5
      /\ c \notin Checkpoints /\ t \notin Checkpoints /\ t # c
  BY Schema8, OwnNames, ReconnectFits DEF Names8, Names5, Names1, Interviews
<1>3. IsFun(T1) /\ t \in DOMAIN T1 /\ T1[t] = Sessions5
  BY <1>2, PutIsFun, PutOther
<1>4. /\ d1 = [tables |-> d.tables, checks |-> d.checks \ ReconnectChecks, filled |-> d.filled,
               ok |-> d.ok, session |-> d.session, enrolment |-> d.enrolment]
  BY DEF At, IsDb
<1> HIDE DEF t, c, old, new, key, v, T1, d1
<1>5. /\ At(d1, S9) /\ d1.filled = d.filled /\ d1.checks = d.checks \ ReconnectChecks
      /\ d1.session = d.session /\ d1.enrolment = d.enrolment /\ d1.ok = d.ok
  BY <1>4, RowsAlone
<1> HIDE DEF d2
<1>6. At(d2, Put(T1, t, v)) /\ Same(d1, d2)
  <2>1. Unbound(Bound(v, key, {}), key, {}) = v
    BY SessionLinks, TablesAreTables, KeyBack DEF v, key
  <2> QED
    BY <1>1, <1>2, <1>5, <2>1, UnbindOne DEF d2
<1>7. /\ d3 = [tables |-> d2.tables, checks |-> d2.checks, filled |-> d2.filled,
               ok |-> d2.ok, session |-> Paused(d2.session), enrolment |-> d2.enrolment]
  BY <1>6 DEF At, IsDb, Paused
<1> HIDE DEF d3
<1>8. /\ At(d3, Put(T1, t, v)) /\ d3.filled = d2.filled /\ d3.checks = d2.checks
      /\ d3.session = Paused(d2.session) /\ d3.enrolment = d2.enrolment /\ d3.ok = d2.ok
  BY <1>6, <1>7, RowsAlone
<1> HIDE DEF d4
<1>9. At(d4, Put(T1, t, Renamed9)) /\ Same(d3, d4)
  BY <1>2, <1>8, SessionLinks, DropDown DEF v, d4
<1> HIDE DEF d5
<1>10. At(d5, T1) /\ Same(d4, d5)
  <2>1. At(d5, Put(T1, t, Sessions5)) /\ Same(d4, d5)
    BY <1>9, SessionLinks, RenameOne DEF t, d5, new, old
  <2> QED
    BY <1>3, <2>1, PutBack DEF IsFun
<1> HIDE DEF d6
<1>11. At(d6, S8) /\ Same(d5, d6)
  <2>1. Fresh(InviteColumns \cup {}, S8[c])
    BY ReconnectFits DEF c
  <2>2. IsTable(S8[c]) /\ Unlinked(S8[c], InviteColumns \cup {})
    BY EnrolmentLinks DEF c
  <2>3. At(d5, Put(S8, c, With(S8[c], InviteColumns, {})))
    BY <1>1, <1>10 DEF T1
  <2>4. At(d6, Put(S8, c, S8[c])) /\ Same(d5, d6)
    BY <1>2, <2>1, <2>2, <2>3, DropDown DEF d6
  <2> QED
    BY <1>2, <2>4, PutBack DEF IsFun
<1>12. e = [tables |-> d6.tables, checks |-> d6.checks, filled |-> d6.filled, ok |-> d6.ok,
            session |-> d6.session, enrolment |-> [d6.enrolment EXCEPT !.consumed = FALSE]]
  BY <1>1, <1>11 DEF At, IsDb
<1>13. /\ At(e, S8) /\ e.filled = d6.filled /\ e.checks = d6.checks
       /\ e.session = d6.session /\ e.enrolment = [d6.enrolment EXCEPT !.consumed = FALSE]
       /\ e.ok = d6.ok
  BY <1>11, <1>12, RowsAlone
<1>14. /\ d6.filled = d.filled /\ d6.checks = d.checks \ ReconnectChecks
       /\ d6.session = Paused(d.session) /\ d6.enrolment = d.enrolment
       /\ d6.ok => d.ok
  BY <1>5, <1>6, <1>8, <1>9, <1>10, <1>11 DEF Same, Stay
<1> QED
  BY <1>13, <1>14

-----------------------------------------------------------------------------
(* The chain of upgrades.                                                  *)

\* A database at every revision from a to b, each from the one before.
IsChain(f, a, b, d) ==
    f = [r \in a..b |-> IF r = a THEN d ELSE Upgrade(r, f[r - 1])]

LEMMA ChainGrows ==
  ASSUME NEW a \in Nat, NEW b \in Nat, a <= b, NEW d, \E f : IsChain(f, a, b, d)
  PROVE  \E f : IsChain(f, a, b + 1, d)
<1>1. PICK f : IsChain(f, a, b, d)
  OBVIOUS
<1> DEFINE g == [r \in a..(b + 1) |-> IF r = b + 1 THEN Upgrade(b + 1, f[b]) ELSE f[r]]
<1>2. ASSUME NEW r \in a..(b + 1)
      PROVE  g[r] = IF r = a THEN d ELSE Upgrade(r, g[r - 1])
  <2>1. CASE r = b + 1
    <3>1. r # a /\ r - 1 = b /\ b \in a..(b + 1) /\ b # b + 1
      BY <2>1
    <3> QED
      BY <2>1, <3>1
  <2>2. CASE r # b + 1 /\ r = a
    <3>1. r \in a..b
      BY <2>2
    <3>2. f[r] = d
      BY <1>1, <2>2, <3>1 DEF IsChain
    <3> QED
      BY <2>2, <3>2
  <2>3. CASE r # b + 1 /\ r # a
    <3>1. r \in a..b /\ r - 1 \in a..(b + 1) /\ r - 1 # b + 1
      BY <2>3
    <3>2. f[r] = Upgrade(r, f[r - 1])
      BY <1>1, <2>3, <3>1 DEF IsChain
    <3> QED
      BY <2>3, <3>1, <3>2
  <2> QED
    BY <2>1, <2>2, <2>3
<1>3. IsChain(g, a, b + 1, d)
  BY <1>2 DEF IsChain
<1> QED
  BY <1>3

LEMMA ChainExists ==
  ASSUME NEW a \in 0..Latest, NEW b \in a..Latest, NEW d
  PROVE  \E f : IsChain(f, a, b, d)
<1> DEFINE E(n) == \E f : IsChain(f, a, n, d)
<1>1. E(a)
  <2> DEFINE g == [r \in a..a |-> d]
  <2>1. IsChain(g, a, a, d)
    BY DEF IsChain
  <2> QED
    BY <2>1
<1>2. ASSUME NEW n \in Nat, a <= n, E(n) PROVE E(n + 1)
  BY <1>2, ChainGrows DEF Latest
<1> HIDE DEF E
<1>3. a \in Nat /\ E(a + 1)
  BY <1>1, <1>2 DEF Latest
<1>4. E(a + 2)
  BY <1>2, <1>3
<1>5. E(a + 3)
  BY <1>2, <1>3, <1>4
<1>6. E(a + 4)
  BY <1>2, <1>3, <1>5
<1>7. E(a + 5)
  BY <1>2, <1>3, <1>6
<1>8. E(a + 6)
  BY <1>2, <1>3, <1>7
<1>9. E(a + 7)
  BY <1>2, <1>3, <1>8
<1>10. E(a + 8)
  BY <1>2, <1>3, <1>9
<1>11. E(a + 9)
  BY <1>2, <1>3, <1>10
<1>12. E(a + 10)
  BY <1>2, <1>3, <1>11
<1>13. b \in {a, a + 1, a + 2, a + 3, a + 4, a + 5, a + 6, a + 7, a + 8, a + 9, a + 10}
  BY DEF Latest
<1>14. E(b)
  BY <1>1, <1>3, <1>4, <1>5, <1>6, <1>7, <1>8, <1>9, <1>10, <1>11, <1>12, <1>13
<1> QED
  BY <1>14 DEF E

LEMMA FreshChain == IsChain(FreshAt, 0, Latest, EmptyDb)
<1>1. \E f : IsChain(f, 0, Latest, EmptyDb)
  BY ChainExists DEF Latest
<1>2. \E f : f = [r \in 0..Latest |-> IF r = 0 THEN EmptyDb ELSE Upgrade(r, f[r - 1])]
  BY <1>1 DEF IsChain
<1> QED
  BY <1>2 DEF IsChain, FreshAt

LEMMA UpgradedChain ==
  ASSUME NEW g \in rev..Latest, rev \in 0..Latest
  PROVE  \E f : IsChain(f, rev, g, db) /\ Upgraded(g) = f[g]
<1>1. \E f : IsChain(f, rev, g, db)
  BY ChainExists
<1> DEFINE u == CHOOSE f : f = [r \in rev..g |-> IF r = rev THEN db ELSE Upgrade(r, f[r - 1])]
<1>2. \E f : f = [r \in rev..g |-> IF r = rev THEN db ELSE Upgrade(r, f[r - 1])]
  BY <1>1 DEF IsChain
<1>3. IsChain(u, rev, g, db)
  BY <1>2 DEF IsChain
<1>4. Upgraded(g) = u[g]
  BY DEF Upgraded
<1> QED
  BY <1>3, <1>4

-----------------------------------------------------------------------------
(* A database at a revision: its schema, its checks and what its rows obey. *)

Schema(r) ==
    CASE r = 0 -> S0 [] r = 1 -> S1 [] r = 2 -> S2 [] r = 3 -> S3 [] r = 4 -> S4 [] r = 5 -> S5
      [] r = 6 -> S6 [] r = 7 -> S7 [] r = 8 -> S8 [] r = 9 -> S9 [] r = 10 -> S10

ChecksAt(r) == IF r >= 9 THEN ReconnectChecks ELSE {}

SessionRows == [status : SessionStates, deadline : BOOLEAN]
EnrolmentRows == [status : EnrolmentStates, consumed : BOOLEAN]

\* The life cycle of revision 9.
Fits(session, enrolment) ==
    /\ session.status # "PAUSED" /\ DeadlineFits(session)
    /\ enrolment.status \in {"IN_PROGRESS", "COMPLETED"} => enrolment.consumed

Sound(d, r) ==
    /\ At(d, Schema(r))
    /\ d.session \in SessionRows /\ d.enrolment \in EnrolmentRows
    /\ d.ok => d.checks = ChecksAt(r) /\ (r >= 9 => Fits(d.session, d.enrolment))

\* The rows that refuse revision r.
Blocks(d, r) ==
    \/ r = 4 /\ (Interviews \cup Talk) \cap d.filled # {}
    \/ r \in {5, 6} /\ "interview_evaluations" \in d.filled
    \/ r = 9 /\ ~DeadlineFits(d.session)

\* An upgrade from d to e as the runs see it.
Upgrades(d, e, r) ==
    /\ Sound(e, r) /\ Leaner(d, e) /\ e.filled \subseteq d.filled
    /\ DeadlineFits(e.session) <=> DeadlineFits(d.session)
    /\ e.ok <=> d.ok /\ ~Blocks(d, r)

LEMMA KeptUpgrades ==
  ASSUME NEW r \in 1..Latest, r # 9, NEW d, Sound(d, r - 1), NEW e, At(e, Schema(r)),
         Kept(d, e), e.ok <=> d.ok /\ ~Blocks(d, r)
  PROVE  Upgrades(d, e, r)
<1>1. /\ e.checks = d.checks /\ e.filled \subseteq d.filled /\ e.session = d.session
      /\ e.enrolment = d.enrolment /\ Leaner(d, e)
  BY DEF Kept
<1>2. ChecksAt(r) = ChecksAt(r - 1) /\ (r >= 9 => r - 1 >= 9)
  BY DEF ChecksAt, Latest
<1>3. Sound(e, r)
  BY <1>1, <1>2 DEF Sound
<1> QED
  BY <1>1, <1>3 DEF Upgrades

LEMMA RowsFitted ==
  ASSUME NEW session \in SessionRows, NEW enrolment \in EnrolmentRows
  PROVE  /\ Fitted(session) \in SessionRows /\ Consumed(enrolment) \in EnrolmentRows
         /\ DeadlineFits(session) => Fits(Fitted(session), Consumed(enrolment))
<1>1. Fitted(session) \in SessionRows
  BY DEF Fitted, SessionRows, SessionStates
<1>2. Consumed(enrolment) \in EnrolmentRows
  BY DEF Consumed, EnrolmentRows, Started
<1>3. Fitted(session).status # "PAUSED"
  BY DEF Fitted, SessionRows
<1>4. Consumed(enrolment).status \in {"IN_PROGRESS", "COMPLETED"} => Consumed(enrolment).consumed
  BY DEF Consumed, EnrolmentRows, Started
<1> QED
  BY <1>1, <1>2, <1>3, <1>4, FittedFits DEF Fits

LEMMA UpgradeSound ==
  ASSUME NEW r \in 1..Latest, NEW d, Sound(d, r - 1), NEW e, e = Upgrade(r, d)
  PROVE  Upgrades(d, e, r)
<1>0. At(d, Schema(r - 1))
  BY DEF Sound
<1>1. CASE r = 1
  BY <1>0, <1>1, Up1, KeptTransitive, KeptUpgrades DEF Schema, Upgrade, Blocks
<1>2. CASE r = 2
  BY <1>0, <1>2, Up2, KeptTransitive, KeptUpgrades DEF Schema, Upgrade, Blocks
<1>3. CASE r = 3
  BY <1>0, <1>3, Up3, KeptTransitive, KeptUpgrades DEF Schema, Upgrade, Blocks
<1>4. CASE r = 4
  BY <1>0, <1>4, Up4, KeptTransitive, KeptUpgrades DEF Schema, Upgrade, Blocks
<1>5. CASE r = 5
  BY <1>0, <1>5, Up5, KeptUpgrades DEF Schema, Upgrade, Blocks
<1>6. CASE r = 6
  BY <1>0, <1>6, Up6, KeptUpgrades DEF Schema, Upgrade, Blocks
<1>7. CASE r = 7
  BY <1>0, <1>7, Up7, KeptUpgrades DEF Schema, Upgrade, Blocks
<1>8. CASE r = 8
  BY <1>0, <1>8, Up8, KeptUpgrades DEF Schema, Upgrade, Blocks
<1>9. CASE r = 9
  <2>1. At(d, S8) /\ d.session \in SessionRows /\ d.enrolment \in EnrolmentRows
        /\ (d.ok => d.checks = {})
    BY <1>9 DEF Sound, Schema, ChecksAt
  <2>2. e = ReconnectUp(d)
    BY <1>9 DEF Upgrade
  <2>3. /\ At(e, S9)
        /\ e.ok <=> d.ok /\ DeadlineFits(d.session)
        /\ e.ok => e.checks = d.checks \cup ReconnectChecks
        /\ e.filled = d.filled
        /\ e.session = Fitted(d.session) /\ e.enrolment = Consumed(d.enrolment)
        /\ Leaner(d, e)
    BY <2>1, <2>2, Up9 DEF SessionRows
  <2>4. e.ok => e.checks = ChecksAt(9)
    <3>1. ASSUME e.ok PROVE d.checks = {} /\ e.checks = d.checks \cup ReconnectChecks
      BY <2>1, <2>3, <3>1
    <3>2. {} \cup ReconnectChecks = ChecksAt(9)
      BY DEF ChecksAt
    <3> QED
      BY <3>1, <3>2
  <2>5. Sound(e, 9)
    BY <2>1, <2>3, <2>4, RowsFitted DEF Sound, Schema
  <2> QED
    BY <1>9, <2>3, <2>5, FittedFits DEF Upgrades, Blocks
<1>10. CASE r = 10
  BY <1>0, <1>10, Up10, KeptTransitive, KeptUpgrades DEF Schema, Upgrade, Blocks
<1> QED
  BY <1>1, <1>2, <1>3, <1>4, <1>5, <1>6, <1>7, <1>8, <1>9, <1>10 DEF Latest

LEMMA DroppedSound ==
  ASSUME NEW r \in 1..Latest, r <= 8, NEW d, Sound(d, r), NEW e, At(e, Schema(r - 1)),
         Dropped(d, e)
  PROVE  Sound(e, r - 1)
<1>1. EmptyDb.session \in SessionRows /\ EmptyDb.enrolment \in EnrolmentRows
  BY DEF EmptyDb, SessionRows, EnrolmentRows, SessionStates, EnrolmentStates
<1>2. e.session \in SessionRows /\ e.enrolment \in EnrolmentRows
  BY <1>1 DEF Sound, Dropped
<1>3. e.ok => e.checks = ChecksAt(r - 1)
  BY DEF Sound, Dropped, ChecksAt, Latest
<1> QED
  BY <1>2, <1>3 DEF Sound, Latest

LEMMA DowngradeSound ==
  ASSUME NEW r \in 1..Latest, NEW d, Sound(d, r), NEW e, e = Downgrade(r, d)
  PROVE  Sound(e, r - 1)
<1>0. At(d, Schema(r))
  BY DEF Sound
<1>1. CASE r = 1
  BY <1>0, <1>1, Back1, DroppedSound DEF Schema, Downgrade
<1>2. CASE r = 2
  BY <1>0, <1>2, Back2, DroppedSound DEF Schema, Downgrade
<1>3. CASE r = 3
  BY <1>0, <1>3, Back3, DroppedSound DEF Schema, Downgrade
<1>4. CASE r = 4
  BY <1>0, <1>4, Back4, DroppedSound DEF Schema, Downgrade
<1>5. CASE r = 5
  BY <1>0, <1>5, Back5, DroppedSound DEF Schema, Downgrade
<1>6. CASE r = 6
  BY <1>0, <1>6, Back6, DroppedSound DEF Schema, Downgrade
<1>7. CASE r = 7
  BY <1>0, <1>7, Back7, DroppedSound DEF Schema, Downgrade
<1>8. CASE r = 8
  BY <1>0, <1>8, Back8, DroppedSound DEF Schema, Downgrade
<1>9. CASE r = 9
  <2>1. At(d, S9) /\ e = ReconnectDown(d)
    BY <1>0, <1>9 DEF Schema, Downgrade
  <2>2. /\ At(e, S8) /\ e.checks = d.checks \ ReconnectChecks
        /\ e.session = Paused(d.session)
        /\ e.enrolment = [d.enrolment EXCEPT !.consumed = FALSE]
        /\ e.ok => d.ok
    BY <2>1, Back9
  <2>3. e.ok => e.checks = {}
    BY <1>9, <2>2 DEF Sound, ChecksAt
  <2>4. e.session \in SessionRows /\ e.enrolment \in EnrolmentRows
    BY <2>2 DEF Sound, Paused, SessionRows, EnrolmentRows, SessionStates
  <2> QED
    BY <1>9, <2>2, <2>3, <2>4 DEF Sound, Schema, ChecksAt
<1>10. CASE r = 10
  <2>1. At(d, S10) /\ e = QuestionsDown(d)
    BY <1>0, <1>10 DEF Schema, Downgrade
  <2>2. At(e, S9) /\ Stay(d, e)
    BY <2>1, Back10 DEF Same
  <2> QED
    BY <1>10, <2>2 DEF Sound, Schema, ChecksAt, Stay
<1> QED
  BY <1>1, <1>2, <1>3, <1>4, <1>5, <1>6, <1>7, <1>8, <1>9, <1>10 DEF Latest

LEMMA EmptySound ==
  /\ Sound(EmptyDb, 0) /\ EmptyDb.ok /\ EmptyDb.filled = {} /\ EmptyDb.tables = EmptyTables
  /\ EmptyDb.session.status = "ABSENT" /\ EmptyDb.enrolment.status = "NONE"
  /\ DeadlineFits(EmptyDb.session) /\ IsFun(EmptyDb.tables) /\ DOMAIN EmptyDb.tables = {}
<1>1. /\ EmptyDb.tables = EmptyTables /\ EmptyDb.checks = {} /\ EmptyDb.filled = {} /\ EmptyDb.ok
      /\ EmptyDb.session = [status |-> "ABSENT", deadline |-> FALSE]
      /\ EmptyDb.enrolment = [status |-> "NONE", consumed |-> FALSE]
  BY DEF EmptyDb
<1>2. IsDb(EmptyDb)
  BY DEF EmptyDb, IsDb
<1>3. Own(EmptyTables) = EmptyTables
  BY DEF Own, Restrict, EmptyTables
<1>4. At(EmptyDb, S0)
  BY <1>1, <1>2, <1>3 DEF At, S0
<1>5. EmptyDb.session \in SessionRows /\ EmptyDb.enrolment \in EnrolmentRows
  BY <1>1 DEF SessionRows, EnrolmentRows, SessionStates, EnrolmentStates
<1>6. Sound(EmptyDb, 0)
  BY <1>1, <1>4, <1>5 DEF Sound, Schema, ChecksAt
<1> QED
  BY <1>1, <1>6 DEF DeadlineFits, IsFun, EmptyTables

\* What a fresh database is at every revision.
FreshSound(r) ==
    /\ Sound(FreshAt[r], r) /\ FreshAt[r].ok /\ FreshAt[r].filled = {}
    /\ DeadlineFits(FreshAt[r].session)
    /\ IsFun(FreshAt[r].tables) /\ DOMAIN FreshAt[r].tables \cap Checkpoints = {}

LEMMA FreshStep ==
  ASSUME NEW r \in 1..Latest, FreshSound(r - 1)
  PROVE  FreshSound(r)
<1>1. FreshAt[r] = Upgrade(r, FreshAt[r - 1])
  BY FreshChain DEF IsChain, Latest
<1>2. Upgrades(FreshAt[r - 1], FreshAt[r], r)
  BY <1>1, UpgradeSound DEF FreshSound
<1>3. ~Blocks(FreshAt[r - 1], r)
  BY DEF Blocks, FreshSound
<1> QED
  BY <1>2, <1>3 DEF FreshSound, Upgrades, Leaner

LEMMA FreshSchemas ==
  \A r \in 0..Latest : FreshAt[r].tables = Schema(r) /\ FreshAt[r].checks = ChecksAt(r)
<1>1. FreshSound(0)
  <2>1. FreshAt[0] = EmptyDb
    BY FreshChain DEF IsChain, Latest
  <2> QED
    BY <2>1, EmptySound DEF FreshSound
<1>2. FreshSound(1) /\ FreshSound(2) /\ FreshSound(3) /\ FreshSound(4) /\ FreshSound(5)
  BY <1>1, FreshStep DEF Latest
<1>3. FreshSound(6) /\ FreshSound(7) /\ FreshSound(8) /\ FreshSound(9) /\ FreshSound(10)
  BY <1>2, FreshStep DEF Latest
<1>4. ASSUME NEW r \in 0..Latest
      PROVE  FreshAt[r].tables = Schema(r) /\ FreshAt[r].checks = ChecksAt(r)
  <2>1. FreshSound(r)
    BY <1>1, <1>2, <1>3 DEF Latest
  <2>2. Own(FreshAt[r].tables) = Schema(r) /\ FreshAt[r].checks = ChecksAt(r)
    BY <2>1 DEF FreshSound, Sound, At
  <2>3. Own(FreshAt[r].tables) = FreshAt[r].tables
    <3>1. DOMAIN FreshAt[r].tables \ Checkpoints = DOMAIN FreshAt[r].tables
      BY <2>1 DEF FreshSound
    <3> QED
      BY <2>1, <3>1 DEF FreshSound, IsFun, Own, Restrict, Checkpoints
  <2> QED
    BY <2>2, <2>3
<1> QED
  BY <1>4

-----------------------------------------------------------------------------
(* The last schema and the models.                                         *)

\* What Serves asks of one table.
Matches(table, model) ==
    /\ Columns(table) = Columns(model) /\ table.must \subseteq model.must
    /\ table.keys = model.keys /\ table.refs = model.refs

\* The tables of people and assessments lose defaults at revision 6 and become
\* deletable at revision 8.
Deletable(table, bare) == With(Bare(table, bare), {"deleted_at"}, {})

LEMMA DeletableParts ==
  ASSUME NEW table, NEW bare
  PROVE  /\ Deletable(table, bare).free = (table.free \ bare) \cup {"deleted_at"}
         /\ Deletable(table, bare).must = table.must \cup bare
         /\ Deletable(table, bare).keys = table.keys
         /\ Deletable(table, bare).refs = table.refs
  BY DEF Deletable, With, Bare, Table

LEMMA LastPeople ==
  /\ Matches(S10["recruiters"], Recruiter) /\ Matches(S10["candidates"], Candidate)
<1> DEFINE r == PeopleTables["recruiters"]
           c == PeopleTables["candidates"]
<1>1. /\ S10["recruiters"] = S8["recruiters"] /\ S10["candidates"] = S8["candidates"]
      /\ S8["recruiters"] = With(S7["recruiters"], {"deleted_at"}, {})
      /\ S8["candidates"] = With(S7["candidates"], {"deleted_at"}, {})
  BY Schema7, Schema8, Schema9, Schema10
  DEF Else, Names1, Names5, Names8, Interviews, MixinTables
<1>2. DOMAIN BareDefaults = {"assessments", "candidate_assessments", "csv_upload_logs",
                             "notification_logs", "recruiters"}
      /\ BareDefaults["recruiters"] = {"is_active"}
  BY DEF BareDefaults
<1>3. /\ S7["recruiters"] = Bare(S5["recruiters"], {"is_active"})
      /\ S7["candidates"] = S5["candidates"]
  BY <1>2, Schema5, Schema6, Schema7 DEF Else, Names1, Names5, Interviews
<1>4. S5["recruiters"] = r /\ S5["candidates"] = c
  <2>1. DOMAIN PeopleTables = {"recruiters", "candidates"}
    BY DEF PeopleTables
  <2> QED
    BY <2>1, Schema1, Schema2, Schema3, Schema4, Schema5
    DEF Else, Names1, Names5, Interviews, Talk
<1>5. S10["recruiters"] = Deletable(r, {"is_active"})
  BY <1>1, <1>3, <1>4 DEF Deletable
<1>6. S10["candidates"] = With(c, {"deleted_at"}, {})
  BY <1>1, <1>3, <1>4
<1>7. Matches(Deletable(r, {"is_active"}), Recruiter)
  BY DeletableParts DEF Matches, PeopleTables, Table, Columns, Recruiter, IBotMixin
<1>8. Matches(With(c, {"deleted_at"}, {}), Candidate)
  BY DEF Matches, With, PeopleTables, Table, Columns, Candidate, IBotMixin
<1> QED
  BY <1>5, <1>6, <1>7, <1>8

LEMMA LastAssessments ==
  /\ Matches(S10["assessments"], Assessment)
  /\ Matches(S10["candidate_assessments"], CandidateAssessment)
<1> DEFINE a == AssessmentTables["assessments"]
           ca == AssessmentTables["candidate_assessments"]
           bare == BareDefaults["candidate_assessments"]
<1>1. /\ S10["assessments"] = S8["assessments"]
      /\ S10["candidate_assessments"] = With(S8["candidate_assessments"], InviteColumns, {})
      /\ S8["assessments"] = With(S7["assessments"], {"deleted_at"}, {})
      /\ S8["candidate_assessments"] = With(S7["candidate_assessments"], {"deleted_at"}, {})
  BY Schema7, Schema8, Schema9, Schema10
  DEF Else, Names1, Names5, Names8, Interviews, MixinTables, Enrolments9
<1>2. DOMAIN BareDefaults = {"assessments", "candidate_assessments", "csv_upload_logs",
                             "notification_logs", "recruiters"}
      /\ BareDefaults["assessments"] = {"status"}
      /\ bare = {"resume_parse_status", "status", "recruiter_decision"}
  BY DEF BareDefaults
<1>3. /\ S7["assessments"] = Bare(S5["assessments"], {"status"})
      /\ S7["candidate_assessments"] = Bare(S5["candidate_assessments"], bare)
  BY <1>2, Schema5, Schema6, Schema7 DEF Else, Names1, Names5, Interviews
<1>4. S5["assessments"] = a /\ S5["candidate_assessments"] = ca
  <2>1. DOMAIN AssessmentTables = {"assessments", "candidate_assessments"}
    BY DEF AssessmentTables
  <2> QED
    BY <2>1, Schema1, Schema2, Schema3, Schema4, Schema5
    DEF Else, Names1, Names5, Interviews, Talk
<1>5. S10["assessments"] = Deletable(a, {"status"})
  BY <1>1, <1>3, <1>4 DEF Deletable
<1>6. S10["candidate_assessments"] = With(Deletable(ca, bare), InviteColumns, {})
  BY <1>1, <1>3, <1>4 DEF Deletable
<1>7. Matches(Deletable(a, {"status"}), Assessment)
  BY DeletableParts DEF Matches, AssessmentTables, Table, Columns, Assessment, IBotMixin
<1>8. Matches(With(Deletable(ca, bare), InviteColumns, {}), CandidateAssessment)
  BY <1>2, DeletableParts
  DEF Matches, With, AssessmentTables, Table, Columns, InviteColumns, CandidateAssessment, IBotMixin
<1> QED
  BY <1>5, <1>6, <1>7, <1>8

LEMMA LastLogs ==
  /\ Matches(S10["notification_logs"], NotificationLog)
  /\ Matches(S10["event_logs"], EventLog) /\ Matches(S10["recruiter_tokens"], RecruiterToken)
<1> DEFINE n == LogTables["notification_logs"]
<1>1. DOMAIN BareDefaults = {"assessments", "candidate_assessments", "csv_upload_logs",
                             "notification_logs", "recruiters"}
      /\ BareDefaults["notification_logs"] = {"delivery_status"}
      /\ DOMAIN LogTables = {"csv_upload_logs", "notification_logs", "audit_logs"}
  BY DEF BareDefaults, LogTables
<1>2. S10["notification_logs"] = Bare(n, {"delivery_status"})
  <2>1. S10["notification_logs"] = S6["notification_logs"]
    BY Schema6, Schema7, Schema8, Schema9, Schema10
    DEF Else, Names1, Names5, Names8, Interviews, MixinTables
  <2>2. S6["notification_logs"] = Bare(S5["notification_logs"], {"delivery_status"})
    BY <1>1, Schema6
  <2>3. S5["notification_logs"] = n
    BY <1>1, Schema1, Schema2, Schema3, Schema4, Schema5
    DEF Else, Names1, Names5, Interviews, Talk
  <2> QED
    BY <2>1, <2>2, <2>3
<1>3. S10["event_logs"] = EventLogTable
  <2>1. S8["event_logs"] = EventLogTable
    BY Schema7 DEF S8, Less, Restrict, Override, Names5, Names1, Interviews
  <2> QED
    BY <2>1, Schema8, Schema9, Schema10 DEF Else, Names8, Names5, Names1, Interviews
<1>4. S10["recruiter_tokens"] = TokenTable
  <2>1. S3["recruiter_tokens"] = TokenTable
    BY DEF S3, Override
  <2>2. S5["recruiter_tokens"] = TokenTable
    BY <2>1, Schema3, Schema4, Schema5 DEF Else, Names1, Names5, Interviews, Talk
  <2>3. S7["recruiter_tokens"] = TokenTable
    BY <1>1, <2>2, Schema5, Schema6, Schema7 DEF Else, Names1, Names5, Interviews
  <2> QED
    BY <2>3, Schema7, Schema8, Schema9, Schema10
    DEF Else, Names1, Names5, Names8, Interviews, MixinTables
<1>5. Matches(Bare(n, {"delivery_status"}), NotificationLog)
  BY DEF Matches, Bare, LogTables, Table, Columns, NotificationLog, OfEnrolment
<1>6. Matches(EventLogTable, EventLog)
  BY DEF Matches, EventLogTable, Table, Columns, EventLog, IBotMixin
<1>7. Matches(TokenTable, RecruiterToken)
  BY DEF Matches, TokenTable, Table, Columns, RecruiterToken
<1> QED
  BY <1>2, <1>3, <1>4, <1>5, <1>6, <1>7

LEMMA LastSessions == Matches(S10["interview_sessions"], InterviewSession)
<1> DEFINE table == ConversationTables["interview_sessions"]
<1>1. S10["interview_sessions"] = Sessions9
  BY Schema9, Schema10 DEF Else, Names1, Names5, Names8, Interviews
<1>2. /\ Sessions9.free = Renamed9.free \cup ReconnectColumns
      /\ Sessions9.must = Renamed9.must
      /\ Sessions9.keys = Renamed9.keys \cup {{"session_token"}}
      /\ Sessions9.refs = Renamed9.refs
  BY DEF Sessions9, Bound, With, Table
<1>3. /\ Renamed9.free
           = (Sessions5.free \ {"grace_period_expires_at"}) \cup {"reconnect_deadline"}
      /\ Renamed9.must = Sessions5.must
      /\ Renamed9.keys = Sessions5.keys /\ Renamed9.refs = Sessions5.refs
  BY DEF Renamed9, RenamedIn, Table
<1>4. /\ Sessions5.free = (Sessions4.free \cup {"transcript"}) \ (Course \cup CourseRequired)
      /\ Sessions5.must = Sessions4.must \ (Course \cup CourseRequired)
  BY DEF Sessions5, Without, With, Table
<1>5. Sessions5.must \subseteq InterviewSession.must
  BY <1>4, SessionParts
  DEF ConversationTables, Table, SessionCounters, SessionDefaults, Course, CourseRequired,
      InterviewSession
<1>6. Columns(Sessions9) = Columns(InterviewSession)
  BY <1>2, <1>3, <1>4, SessionParts
  DEF Columns, ConversationTables, Table, SessionCourse, SessionCounters, SessionDefaults, Course,
      CourseRequired, ReconnectColumns, InterviewSession
<1>7. Sessions9.keys = InterviewSession.keys /\ Sessions9.refs = InterviewSession.refs
  BY <1>2, <1>3, SessionParts DEF InterviewSession, Table
<1> QED
  BY <1>1, <1>2, <1>3, <1>5, <1>6, <1>7 DEF Matches

LEMMA LastEvaluations == Matches(S10["interview_evaluations"], InterviewEvaluation)
<1>1. S10["interview_evaluations"] = Evaluations10
  BY Schema10
<1>2. /\ Evaluations10.free = Evaluations7.free \cup {"question_evaluations"}
      /\ Evaluations10.must = Evaluations7.must
      /\ Evaluations10.keys = Evaluations7.keys /\ Evaluations10.refs = Evaluations7.refs
  BY DEF Evaluations10, With, Table
<1>3. /\ Evaluations7.free = Evaluations6.free \cup Lineage
      /\ Evaluations7.must = Evaluations6.must
  BY DEF Evaluations7, With, Table
<1>4. /\ Evaluations6.free
           = (Evaluations5.free \cup Sections) \ (Narrative \cup NarrativeRequired)
      /\ Evaluations6.must
           = (Evaluations5.must \cup SectionsRequired) \ (Narrative \cup NarrativeRequired)
  BY DEF Evaluations6, Without, With, Table
<1>5. Evaluations6.must \subseteq InterviewEvaluation.must
  BY <1>4, EvaluationParts
  DEF EvaluationTable, Table, Scores, Skills, SkillsRequired, SectionsRequired, Narrative,
      NarrativeRequired, InterviewEvaluation
<1>6. Columns(Evaluations10) = Columns(InterviewEvaluation)
  BY <1>2, <1>3, <1>4, EvaluationParts
  DEF Columns, EvaluationTable, EvaluationCourse, Table, Scores, Skills, SkillsRequired, Sections,
      SectionsRequired, Narrative, NarrativeRequired, Lineage, InterviewEvaluation
<1>7. /\ Evaluations10.keys = InterviewEvaluation.keys
      /\ Evaluations10.refs = InterviewEvaluation.refs
  BY <1>2, EvaluationsLinked DEF EvaluationLinks, InterviewEvaluation, Table
<1> QED
  BY <1>1, <1>2, <1>3, <1>5, <1>6, <1>7 DEF Matches

\* The last schema, whatever LangGraph tables are beside it, serves the models.
LEMMA LastServes == ASSUME NEW tables, Own(tables) = S10 PROVE Serves(tables)
<1>1. DOMAIN Models = {"recruiters", "candidates", "assessments", "candidate_assessments",
                       "interview_sessions", "interview_evaluations", "event_logs",
                       "notification_logs", "recruiter_tokens"}
  BY DEF Models
<1>2. DOMAIN Own(tables) = DOMAIN tables \ DOMAIN CheckpointTables
      /\ \A t \in DOMAIN Own(tables) : Own(tables)[t] = tables[t]
  BY DEF Own, Restrict
<1>3. DOMAIN Models \subseteq DOMAIN S10
  BY <1>1, Schema10 DEF Names8, Names5, Names1, Interviews
<1>4. \A t \in DOMAIN Models : t \in DOMAIN tables /\ S10[t] = tables[t]
  BY <1>2, <1>3
<1>5. ASSUME NEW t \in DOMAIN Models PROVE Matches(S10[t], Models[t])
  BY <1>1, LastPeople, LastAssessments, LastLogs, LastSessions, LastEvaluations DEF Models
<1> QED
  BY <1>4, <1>5 DEF Serves, Matches

-----------------------------------------------------------------------------
(* The invariant.  The committed database is sound at the committed        *)
(* revision; the one a transaction works on is sound at the revision it    *)
(* has reached, which lies between the one it has read and its target; and *)
(* the holder of the locks has read the committed revision.                *)

Phases == {"off", "planned", "applying", "failed", "serving"}

RunsOK ==
    /\ run \in [Runs -> [phase : Phases, goal : 0..Latest, seen : 0..Latest]]
    /\ holder \in Runs \cup {Nobody} /\ crashes \in 0..MaxCrashes
    /\ \A i \in Runs : run[i].phase = "applying" <=> holder = i

\* A console goes back by one revision, a container forward.
PlansOK ==
    \A i \in Runs :
       run[i].phase \in {"planned", "applying"} =>
          IF i \in Operators THEN run[i].seen >= 1 ELSE run[i].goal > run[i].seen

WorkOK ==
    \A i \in Runs :
       holder = i =>
          /\ run[i].seen = rev
          /\ work.at \in 0..Latest /\ Sound(work.db, work.at) /\ work.db.ok
          /\ IF i \in Operators THEN work.at \in {rev, rev - 1}
             ELSE work.at >= rev /\ work.at <= run[i].goal

DbOK == rev \in 0..Latest /\ db.ok /\ Sound(db, rev)

Inv == RunsOK /\ PlansOK /\ WorkOK /\ DbOK

LEMMA InitInv == MigrationAssumption /\ Init => Inv
<1> SUFFICES ASSUME MigrationAssumption, Init PROVE Inv
  OBVIOUS
<1>1. DbOK
  BY EmptySound DEF Init, DbOK, Latest
<1>2. run \in [Runs -> [phase : Phases, goal : 0..Latest, seen : 0..Latest]]
      /\ \A i \in Runs : run[i].phase = "off"
  BY DEF Init, Idle, MigrationAssumption, Latest, Phases
<1>3. holder = Nobody /\ crashes = 0 /\ Nobody \notin Runs /\ MaxCrashes \in Nat
  BY DEF Init, MigrationAssumption
<1>4. RunsOK
  BY <1>2, <1>3 DEF RunsOK
<1>5. PlansOK /\ WorkOK
  BY <1>2, <1>3 DEF PlansOK, WorkOK
<1> QED
  BY <1>1, <1>4, <1>5 DEF Inv

\* A run that changes only its own phase, and leaves the locks alone.
LEMMA PhaseStep ==
  ASSUME Inv, NEW i \in Runs, holder # i, NEW r,
         r \in [phase : Phases \ {"applying"}, goal : 0..Latest, seen : 0..Latest],
         r.phase = "planned" =>
            IF i \in Operators THEN r.seen >= 1 ELSE r.goal > r.seen,
         run' = [run EXCEPT ![i] = r], UNCHANGED <<rev, db, holder, work>>,
         crashes' \in 0..MaxCrashes
  PROVE  Inv'
<1>1. /\ run \in [Runs -> [phase : Phases, goal : 0..Latest, seen : 0..Latest]]
      /\ holder \in Runs \cup {Nobody}
      /\ \A j \in Runs : run[j].phase = "applying" <=> holder = j
  BY DEF Inv, RunsOK
<1>2. run'[i] = r /\ \A j \in Runs \ {i} : run'[j] = run[j]
  BY <1>1
<1>3. RunsOK'
  BY <1>1, <1>2 DEF RunsOK
<1>4. PlansOK'
  BY <1>1, <1>2 DEF Inv, PlansOK
<1>5. WorkOK'
  BY <1>1, <1>2 DEF Inv, WorkOK
<1>6. DbOK'
  BY DEF Inv, DbOK
<1> QED
  BY <1>3, <1>4, <1>5, <1>6 DEF Inv

\* A run that gives up the locks, with the database as it was or with a sound
\* one in its place.
LEMMA ReleaseStep ==
  ASSUME MigrationAssumption, Inv, NEW i \in Runs, holder = i, NEW r,
         r \in [phase : Phases \ {"applying", "planned"}, goal : 0..Latest, seen : 0..Latest],
         run' = [run EXCEPT ![i] = r], Released, DbOK', crashes' \in 0..MaxCrashes
  PROVE  Inv'
<1>1. /\ run \in [Runs -> [phase : Phases, goal : 0..Latest, seen : 0..Latest]]
      /\ \A j \in Runs : run[j].phase = "applying" <=> holder = j
  BY DEF Inv, RunsOK
<1>2. run'[i] = r /\ \A j \in Runs \ {i} : run'[j] = run[j]
  BY <1>1
<1>3. holder' = Nobody /\ Nobody \notin Runs
  BY DEF Released, MigrationAssumption
<1>4. RunsOK'
  BY <1>1, <1>2, <1>3 DEF RunsOK
<1>5. PlansOK'
  BY <1>1, <1>2 DEF Inv, PlansOK
<1>6. WorkOK'
  BY <1>3 DEF WorkOK
<1> QED
  BY <1>4, <1>5, <1>6 DEF Inv

LEMMA PhaseRecord ==
  ASSUME RunsOK, NEW i \in Runs, NEW p \in Phases \ {"applying"}, Phase(i, p),
         NEW r, r = [phase |-> p, goal |-> run[i].goal, seen |-> 0]
  PROVE  /\ run' = [run EXCEPT ![i] = r]
         /\ r \in [phase : Phases \ {"applying"}, goal : 0..Latest, seen : 0..Latest]
<1>1. run \in [Runs -> [phase : Phases, goal : 0..Latest, seen : 0..Latest]]
  BY DEF RunsOK
<1>2. run[i] \in [phase : Phases, goal : 0..Latest, seen : 0..Latest]
  BY <1>1
<1>3. r \in [phase : Phases \ {"applying"}, goal : 0..Latest, seen : 0..Latest]
  BY <1>2 DEF Latest
<1>4. run' = [run EXCEPT ![i] = r]
  BY <1>1 DEF Phase
<1> QED
  BY <1>3, <1>4

LEMMA ReadInv ==
  ASSUME Inv, NEW i \in Runs, ReadRevision(i)
  PROVE  Inv'
<1>1. RunsOK /\ rev \in 0..Latest
  BY DEF Inv, DbOK
<1>2. run \in [Runs -> [phase : Phases, goal : 0..Latest, seen : 0..Latest]]
      /\ run[i] \in [phase : Phases, goal : 0..Latest, seen : 0..Latest]
  BY <1>1 DEF RunsOK
<1>3. holder # i /\ run[i].phase = "off"
  BY <1>1 DEF ReadRevision, RunsOK
<1> DEFINE phase == IF i \in Operators THEN IF rev = 0 THEN "failed" ELSE "planned"
                    ELSE CASE rev > run[i].goal -> "failed"
                           [] rev = run[i].goal -> "serving"
                           [] OTHER -> "planned"
           seen == IF phase = "planned" THEN rev ELSE 0
           r == [phase |-> phase, goal |-> run[i].goal, seen |-> seen]
<1>4. run' = [run EXCEPT ![i] = r]
  BY <1>2 DEF ReadRevision
<1>5. phase \in {"failed", "planned", "serving"}
      /\ (phase = "planned" => IF i \in Operators THEN rev >= 1 ELSE run[i].goal > rev)
  BY <1>1, <1>2 DEF Latest
<1>6. seen \in 0..Latest /\ (phase = "planned" => seen = rev)
  BY <1>1 DEF Latest
<1>7. UNCHANGED <<rev, db, holder, work, crashes>>
  BY DEF ReadRevision
<1> HIDE DEF phase, seen
<1>8. r \in [phase : Phases \ {"applying"}, goal : 0..Latest, seen : 0..Latest]
  BY <1>2, <1>5, <1>6 DEF Phases
<1>9. crashes' \in 0..MaxCrashes
  BY <1>1, <1>7 DEF RunsOK
<1>10. r.phase = "planned" => IF i \in Operators THEN r.seen >= 1 ELSE r.goal > r.seen
  BY <1>5, <1>6
<1> HIDE DEF r
<1> QED
  BY <1>3, <1>4, <1>7, <1>8, <1>9, <1>10, PhaseStep

LEMMA TakeInv ==
  ASSUME MigrationAssumption, Inv, NEW i \in Runs, TakeLocks(i)
  PROVE  Inv'
<1>1. RunsOK /\ run[i].phase = "planned" /\ holder = Nobody /\ UNCHANGED <<rev, db, crashes>>
  BY DEF Inv, TakeLocks
<1>2. /\ run \in [Runs -> [phase : Phases, goal : 0..Latest, seen : 0..Latest]]
      /\ run[i] \in [phase : Phases, goal : 0..Latest, seen : 0..Latest]
      /\ Nobody \notin Runs /\ crashes \in 0..MaxCrashes
  BY <1>1 DEF RunsOK, MigrationAssumption
<1>3. CASE run[i].seen = rev
  <2> DEFINE r == [phase |-> "applying", goal |-> run[i].goal, seen |-> run[i].seen]
  <2>1. holder' = i /\ work' = [at |-> rev, db |-> db] /\ run' = [run EXCEPT ![i] = r]
    BY <1>2, <1>3 DEF TakeLocks, Phase
  <2>2. /\ r \in [phase : Phases, goal : 0..Latest, seen : 0..Latest] /\ r.phase = "applying"
        /\ r.goal = run[i].goal /\ r.seen = rev
    BY <1>2, <1>3 DEF Phases
  <2> HIDE DEF r
  <2>3. run'[i] = r /\ \A j \in Runs \ {i} : run'[j] = run[j]
    BY <1>2, <2>1
  <2>4. RunsOK'
    <3>1. run' \in [Runs -> [phase : Phases, goal : 0..Latest, seen : 0..Latest]]
      BY <1>2, <2>1, <2>2
    <3>2. \A j \in Runs : run'[j].phase = "applying" <=> holder' = j
      BY <1>1, <1>2, <2>1, <2>2, <2>3 DEF RunsOK
    <3> QED
      BY <1>1, <1>2, <2>1, <3>1, <3>2 DEF RunsOK
  <2>5. IF i \in Operators THEN run[i].seen >= 1 ELSE run[i].goal > run[i].seen
    BY <1>1 DEF Inv, PlansOK
  <2>6. PlansOK'
    BY <1>3, <2>2, <2>3, <2>5 DEF Inv, PlansOK
  <2>7. DbOK /\ DbOK'
    BY <1>1 DEF Inv, DbOK
  <2>8. WorkOK'
    BY <1>1, <1>2, <1>3, <2>1, <2>2, <2>3, <2>5, <2>7 DEF WorkOK, DbOK, Latest
  <2> QED
    BY <2>4, <2>6, <2>7, <2>8 DEF Inv
<1>4. CASE run[i].seen # rev
  <2> DEFINE r == [phase |-> "failed", goal |-> run[i].goal, seen |-> 0]
  <2>1. Phase(i, "failed") /\ UNCHANGED <<holder, work>>
    BY <1>4 DEF TakeLocks
  <2>2. /\ run' = [run EXCEPT ![i] = r]
        /\ r \in [phase : Phases \ {"applying"}, goal : 0..Latest, seen : 0..Latest]
    BY <1>1, <2>1, PhaseRecord DEF Phases
  <2>3. r.phase # "planned" /\ holder # i /\ crashes' \in 0..MaxCrashes
    BY <1>1, <1>2
  <2> HIDE DEF r
  <2> QED
    BY <1>1, <2>1, <2>2, <2>3, PhaseStep
<1> QED
  BY <1>3, <1>4

LEMMA ApplyInv ==
  ASSUME MigrationAssumption, Inv, NEW i \in Runs, ApplyRevision(i)
  PROVE  Inv'
<1>1. /\ RunsOK /\ PlansOK /\ WorkOK /\ DbOK /\ run[i].phase = "applying"
      /\ work.at # Target(i) /\ UNCHANGED <<rev, db, crashes>>
  BY DEF Inv, ApplyRevision
<1>2. holder = i /\ crashes \in 0..MaxCrashes
  BY <1>1 DEF RunsOK
<1>3. /\ run \in [Runs -> [phase : Phases, goal : 0..Latest, seen : 0..Latest]]
      /\ run[i].goal \in 0..Latest /\ run[i].seen = rev /\ rev \in 0..Latest
      /\ work.at \in 0..Latest /\ Sound(work.db, work.at) /\ work.db.ok
      /\ IF i \in Operators THEN work.at \in {rev, rev - 1}
         ELSE work.at >= rev /\ work.at <= run[i].goal
      /\ IF i \in Operators THEN rev >= 1 ELSE run[i].goal > rev
  BY <1>1, <1>2 DEF RunsOK, WorkOK, PlansOK, DbOK
<1>4. CASE Applied(i).db.ok
  <2>1. work' = Applied(i) /\ UNCHANGED <<holder, run>>
    BY <1>4 DEF ApplyRevision
  <2>2. CASE i \in Operators
    <3>1. Target(i) = rev - 1 /\ work.at = rev /\ rev - 1 \in 0..Latest
      BY <1>1, <1>3, <2>2 DEF Target, Latest
    <3>2. Applied(i) = [at |-> rev - 1, db |-> Downgrade(rev, work.db)]
      BY <1>3, <3>1 DEF Applied, Latest
    <3>3. Sound(Downgrade(rev, work.db), rev - 1)
      BY <1>3, <2>2, <3>1, DowngradeSound DEF Latest
    <3>4. work'.at = rev - 1 /\ Sound(work'.db, rev - 1) /\ work'.db.ok
      BY <1>4, <2>1, <3>2, <3>3
    <3>5. WorkOK'
      BY <1>1, <1>2, <1>3, <2>1, <2>2, <3>1, <3>4 DEF WorkOK
    <3> QED
      BY <1>1, <2>1, <3>5 DEF Inv, RunsOK, PlansOK, DbOK
  <2>3. CASE i \notin Operators
    <3>1. /\ Target(i) = run[i].goal /\ work.at + 1 \in 1..Latest
          /\ work.at + 1 >= rev /\ work.at + 1 <= run[i].goal
      BY <1>1, <1>3, <2>3 DEF Target, Latest
    <3>2. Applied(i) = [at |-> work.at + 1, db |-> Upgrade(work.at + 1, work.db)]
      BY <1>3, <2>3, <3>1 DEF Applied, Latest
    <3>3. (work.at + 1) - 1 = work.at
      BY <1>3 DEF Latest
    <3>4. Upgrades(work.db, Upgrade(work.at + 1, work.db), work.at + 1)
      BY <1>3, <3>1, <3>3, UpgradeSound
    <3>5. work'.at = work.at + 1 /\ Sound(work'.db, work.at + 1) /\ work'.db.ok
      BY <1>4, <2>1, <3>2, <3>4 DEF Upgrades
    <3>6. WorkOK'
      <4>1. work'.at \in 0..Latest /\ work'.at >= rev /\ work'.at <= run[i].goal
        BY <3>1, <3>5 DEF Latest
      <4> QED
        BY <1>1, <1>2, <1>3, <2>1, <2>3, <3>5, <4>1 DEF WorkOK
    <3> QED
      BY <1>1, <2>1, <3>6 DEF Inv, RunsOK, PlansOK, DbOK
  <2> QED
    BY <2>2, <2>3
<1>5. CASE ~Applied(i).db.ok
  <2> DEFINE r == [phase |-> "failed", goal |-> run[i].goal, seen |-> 0]
  <2>1. Phase(i, "failed") /\ Released
    BY <1>5 DEF ApplyRevision
  <2>2. run' = [run EXCEPT ![i] = r]
    BY <1>1, <2>1, PhaseRecord DEF Phases
  <2>3. r \in [phase : Phases \ {"applying", "planned"}, goal : 0..Latest, seen : 0..Latest]
    BY <1>3 DEF Phases, Latest
  <2>4. DbOK' /\ crashes' \in 0..MaxCrashes
    BY <1>1, <1>2 DEF DbOK
  <2> HIDE DEF r
  <2> QED
    BY <1>2, <2>1, <2>2, <2>3, <2>4, ReleaseStep
<1> QED
  BY <1>4, <1>5

LEMMA CommitInv ==
  ASSUME MigrationAssumption, Inv, NEW i \in Runs, CommitRun(i)
  PROVE  Inv'
<1> DEFINE p == IF i \in Operators THEN "off" ELSE "serving"
           r == [phase |-> p, goal |-> run[i].goal, seen |-> 0]
<1>1. /\ RunsOK /\ WorkOK /\ run[i].phase = "applying" /\ rev' = work.at /\ db' = work.db
      /\ Phase(i, p) /\ Released /\ UNCHANGED crashes
  BY DEF Inv, CommitRun
<1>2. holder = i /\ crashes \in 0..MaxCrashes /\ run[i].goal \in 0..Latest
  BY <1>1 DEF RunsOK
<1>3. p \in Phases \ {"applying", "planned"}
  BY DEF Phases
<1> HIDE DEF p
<1>4. run' = [run EXCEPT ![i] = r]
  BY <1>1, <1>3, PhaseRecord
<1>5. r \in [phase : Phases \ {"applying", "planned"}, goal : 0..Latest, seen : 0..Latest]
  BY <1>2, <1>3 DEF Latest
<1>6. DbOK'
  BY <1>1, <1>2 DEF WorkOK, DbOK
<1>7. crashes' \in 0..MaxCrashes
  BY <1>1, <1>2
<1> HIDE DEF r
<1> QED
  BY <1>1, <1>2, <1>4, <1>5, <1>6, <1>7, ReleaseStep

LEMMA RestartInv ==
  ASSUME Inv, NEW i \in Runs, Restart(i)
  PROVE  Inv'
<1> DEFINE r == [phase |-> "off", goal |-> run[i].goal, seen |-> 0]
<1>1. /\ RunsOK /\ run[i].phase = "failed" /\ Phase(i, "off")
      /\ UNCHANGED <<rev, db, holder, work, crashes>>
  BY DEF Inv, Restart
<1>2. holder # i /\ crashes' \in 0..MaxCrashes
  BY <1>1 DEF RunsOK
<1>3. /\ run' = [run EXCEPT ![i] = r] /\ r.phase # "planned"
      /\ r \in [phase : Phases \ {"applying"}, goal : 0..Latest, seen : 0..Latest]
  BY <1>1, PhaseRecord DEF Phases
<1> HIDE DEF r
<1> QED
  BY <1>1, <1>2, <1>3, PhaseStep

LEMMA CrashInv ==
  ASSUME MigrationAssumption, Inv, NEW i \in Runs, Crash(i)
  PROVE  Inv'
<1> DEFINE r == [phase |-> "off", goal |-> run[i].goal, seen |-> 0]
<1>1. /\ RunsOK /\ DbOK /\ Phase(i, "off") /\ crashes < MaxCrashes /\ crashes' = crashes + 1
      /\ UNCHANGED <<rev, db>>
  BY DEF Inv, Crash
<1>2. crashes' \in 0..MaxCrashes
  BY <1>1 DEF RunsOK, MigrationAssumption
<1>3. /\ run' = [run EXCEPT ![i] = r] /\ r.phase = "off"
      /\ r \in [phase : Phases \ {"applying"}, goal : 0..Latest, seen : 0..Latest]
  BY <1>1, PhaseRecord DEF Phases
<1> HIDE DEF r
<1>4. CASE holder = i
  <2>1. Released /\ DbOK'
    BY <1>1, <1>4 DEF Crash, DbOK
  <2>2. r \in [phase : Phases \ {"applying", "planned"}, goal : 0..Latest, seen : 0..Latest]
    BY <1>3
  <2> QED
    BY <1>2, <1>3, <1>4, <2>1, <2>2, ReleaseStep
<1>5. CASE holder # i
  <2>1. UNCHANGED <<holder, work>> /\ r.phase # "planned"
    BY <1>3, <1>5 DEF Crash
  <2> QED
    BY <1>1, <1>2, <1>3, <1>5, <2>1, PhaseStep
<1> QED
  BY <1>4, <1>5

LEMMA DeployInv ==
  ASSUME MigrationAssumption, Inv, NEW i \in Containers, Deploy(i)
  PROVE  Inv'
<1>1. PICK g \in Releases : run' = [run EXCEPT ![i] = [Idle EXCEPT !.goal = g]]
  BY DEF Deploy
<1> DEFINE r == [phase |-> "off", goal |-> g, seen |-> 0]
<1>2. [Idle EXCEPT !.goal = g] = r
  BY DEF Idle
<1>3. g \in 0..Latest
  BY DEF MigrationAssumption, Latest
<1>4. r \in [phase : Phases \ {"applying"}, goal : 0..Latest, seen : 0..Latest]
      /\ r.phase # "planned"
  BY <1>3 DEF Phases, Latest
<1>5. run' = [run EXCEPT ![i] = r]
  BY <1>1, <1>2
<1> HIDE DEF r
<1>6. /\ i \in Runs /\ holder # i /\ UNCHANGED <<rev, db, holder, work, crashes>>
      /\ crashes' \in 0..MaxCrashes
  BY DEF Inv, RunsOK, Deploy, Runs
<1> QED
  BY <1>4, <1>5, <1>6, PhaseStep

\* New rows in the tables of a sound database.
LEMMA RowsSound ==
  ASSUME NEW r \in 0..Latest, NEW d, Sound(d, r), d.ok,
         NEW session \in SessionRows, NEW enrolment \in EnrolmentRows, NEW filled,
         filled \subseteq DOMAIN d.tables, r >= 9 => Fits(session, enrolment),
         NEW e, e = [d EXCEPT !.session = session, !.enrolment = enrolment, !.filled = filled]
  PROVE  Sound(e, r) /\ e.ok
<1>1. d = [tables |-> d.tables, checks |-> d.checks, filled |-> d.filled, ok |-> d.ok,
           session |-> d.session, enrolment |-> d.enrolment]
  BY DEF Sound, At, IsDb
<1>2. e = [tables |-> d.tables, checks |-> d.checks, filled |-> filled, ok |-> d.ok,
           session |-> session, enrolment |-> enrolment]
  BY <1>1
<1>3. /\ e.tables = d.tables /\ e.checks = d.checks /\ e.filled = filled /\ e.ok = d.ok
      /\ e.session = session /\ e.enrolment = enrolment
  BY <1>2
<1>4. IsDb(e)
  <2>1. d.ok \in BOOLEAN
    BY DEF Sound, At, IsDb
  <2> QED
    BY <1>2, <1>3, <2>1, Zenon DEF IsDb
<1>5. At(e, Schema(r))
  BY <1>3, <1>4 DEF Sound, At
<1>6. d.checks = ChecksAt(r)
  BY DEF Sound
<1> QED
  BY <1>3, <1>5, <1>6 DEF Sound

\* A write of rows while no run holds the locks.
LEMMA WriteStep ==
  ASSUME MigrationAssumption, Inv, holder = Nobody,
         UNCHANGED <<rev, holder, run, work, crashes>>, Sound(db', rev), (db').ok
  PROVE  Inv'
<1>1. RunsOK' /\ PlansOK'
  BY DEF Inv, RunsOK, PlansOK
<1>2. WorkOK'
  BY DEF WorkOK, MigrationAssumption
<1>3. DbOK'
  BY DEF Inv, DbOK
<1> QED
  BY <1>1, <1>2, <1>3 DEF Inv

LEMMA OlderInv ==
  ASSUME MigrationAssumption, Inv, OlderReleaseWrites
  PROVE  Inv'
<1>1. PICK row \in OlderRows :
         /\ row.filled \subseteq DOMAIN db.tables
         /\ db' = [db EXCEPT !.session = row.session, !.enrolment = row.enrolment,
                             !.filled = row.filled]
  BY Zenon DEF OlderReleaseWrites
<1>2. /\ holder = Nobody /\ rev \in 0..Latest /\ ~(rev >= 9)
      /\ UNCHANGED <<rev, holder, run, work, crashes>> /\ db.ok /\ Sound(db, rev)
  BY DEF OlderReleaseWrites, Inv, DbOK
<1>3. row.session \in SessionRows /\ row.enrolment \in EnrolmentRows
  BY DEF MigrationAssumption, SessionRows, EnrolmentRows
<1>4. Sound(db', rev) /\ (db').ok
  BY <1>1, <1>2, <1>3, RowsSound, Zenon
<1> QED
  BY <1>2, <1>4, WriteStep

LEMMA LivesFit ==
  ASSUME NEW s \in SessionRows, NEW e \in EnrolmentRows, Fits(s, e),
         NEW s2 \in SessionRows, NEW e2 \in EnrolmentRows, Lives(s, e, s2, e2)
  PROVE  Fits(s2, e2)
<1>1. s = Row(s.status, s.deadline) /\ Row("INITIALIZING", FALSE).status = "INITIALIZING"
      /\ Inserted(s).status # "PAUSED" /\ DeadlineFits(Inserted(s))
  BY DEF SessionRows, Row, Inserted, Fits, DeadlineFits
<1>2. CASE Enters(s, e, s2, e2)
  BY <1>1, <1>2 DEF Enters, Fits, EnrolmentRows
<1>3. CASE EntryRefused(s, e, s2, e2)
  BY <1>1, <1>3 DEF EntryRefused, Fits
<1>4. CASE Begins(s, e, s2, e2)
  BY <1>4 DEF Begins, Fits, DeadlineFits, Row, EnrolmentRows
<1>5. CASE Drops(s, e, s2, e2)
  BY <1>5 DEF Drops, Fits, DeadlineFits, Row
<1>6. CASE Reconnects(s, e, s2, e2)
  BY <1>6 DEF Reconnects, Fits, DeadlineFits, Row, EnrolmentRows
<1>7. CASE Terminates(s, e, s2, e2)
  BY <1>7 DEF Terminates, Fits, DeadlineFits, Row, EnrolmentRows
<1>8. CASE Completes(s, e, s2, e2)
  BY <1>8 DEF Completes, Fits, DeadlineFits, Row, EnrolmentRows
<1>9. CASE Evaluates(s, e, s2, e2)
  BY <1>9 DEF Evaluates, Fits, DeadlineFits, SessionRows, EnrolmentRows
<1>10. CASE EvaluationFails(s, e, s2, e2)
  BY <1>10 DEF EvaluationFails, Fits, DeadlineFits, SessionRows
<1> QED
  BY <1>2, <1>3, <1>4, <1>5, <1>6, <1>7, <1>8, <1>9, <1>10 DEF Lives

\* The tables of an interview are there from revision 9 on.
LEMMA InterviewTables ==
  ASSUME NEW r \in 9..Latest, NEW d, Sound(d, r), d.ok
  PROVE  Interviews \subseteq DOMAIN d.tables
<1>1. Own(d.tables) = Schema(r)
  BY DEF Sound, At
<1>2. DOMAIN Schema(r) = Names8
  BY Schema9, Schema10 DEF Schema, Latest
<1>3. DOMAIN Own(d.tables) \subseteq DOMAIN d.tables
  BY OwnTables
<1> QED
  BY <1>1, <1>2, <1>3 DEF Names8, Names5, Interviews

LEMMA BecomesInv ==
  ASSUME MigrationAssumption, Inv, NEW s \in SessionRows, NEW e \in EnrolmentRows,
         Becomes(s, e), Fits(s, e)
  PROVE  Inv'
<1> DEFINE written == (IF s.status = "ABSENT" THEN {} ELSE {"interview_sessions"})
                        \cup (IF Evaluates(db.session, db.enrolment, s, e)
                              THEN {"interview_evaluations"} ELSE {})
<1>1. /\ holder = Nobody /\ rev \in 9..Latest /\ UNCHANGED <<rev, holder, run, work, crashes>>
      /\ db' = [db EXCEPT !.session = s, !.enrolment = e, !.filled = @ \cup written]
      /\ db.ok /\ Sound(db, rev)
  BY DEF Becomes, Inv, DbOK, Latest
<1>2. written \subseteq Interviews
  BY DEF Interviews
<1> HIDE DEF written
<1>3. db.filled \cup written \subseteq DOMAIN db.tables
  BY <1>1, <1>2, InterviewTables DEF Sound, At
<1>4. Sound(db', rev) /\ (db').ok
  <2>1. rev \in 0..Latest /\ (rev >= 9 => Fits(s, e))
    BY <1>1 DEF Latest
  <2> QED
    BY <1>1, <1>3, <2>1, RowsSound, Zenon
<1> QED
  BY <1>1, <1>4, WriteStep

LEMMA WritesInv ==
  ASSUME MigrationAssumption, Inv, ApplicationWrites
  PROVE  Inv'
<1>1. rev >= 9 => /\ db.session \in SessionRows /\ db.enrolment \in EnrolmentRows
                  /\ Fits(db.session, db.enrolment)
  BY DEF Inv, DbOK, Sound
<1>2. CASE OlderReleaseWrites
  BY <1>2, OlderInv
<1>3. CASE Invite
  <2> DEFINE e == [status |-> "INVITED", consumed |-> FALSE]
  <2>1. Becomes(db.session, e) /\ rev >= 9
    BY <1>3 DEF Invite, Becomes
  <2>2. e \in EnrolmentRows /\ Fits(db.session, e)
    BY <1>1, <2>1 DEF EnrolmentRows, EnrolmentStates, Fits
  <2> HIDE DEF e
  <2> QED
    BY <1>1, <2>1, <2>2, BecomesInv
<1>4. CASE InterviewLives
  <2>1. PICK s \in SessionRows, e \in EnrolmentRows :
           Lives(db.session, db.enrolment, s, e) /\ Becomes(s, e)
    BY <1>4 DEF InterviewLives, SessionRows, EnrolmentRows
  <2>2. rev >= 9
    BY <2>1 DEF Becomes
  <2> QED
    BY <1>1, <2>1, <2>2, LivesFit, BecomesInv
<1> QED
  BY <1>2, <1>3, <1>4 DEF ApplicationWrites

LEMMA NextInv == MigrationAssumption /\ Inv /\ [Next]_vars => Inv'
<1> SUFFICES ASSUME MigrationAssumption, Inv, [Next]_vars PROVE Inv'
  OBVIOUS
<1>1. CASE ApplicationWrites
  BY <1>1, WritesInv
<1>2. ASSUME NEW i \in Runs, RunStep(i) PROVE Inv'
  BY <1>2, ReadInv, TakeInv, ApplyInv, CommitInv, RestartInv DEF RunStep
<1>3. ASSUME NEW i \in Runs, Crash(i) PROVE Inv'
  BY <1>3, CrashInv
<1>4. ASSUME NEW i \in Containers, Deploy(i) PROVE Inv'
  BY <1>4, DeployInv
<1>5. CASE UNCHANGED vars
  BY <1>5 DEF vars, Inv, RunsOK, PlansOK, WorkOK, DbOK
<1> QED
  BY <1>1, <1>2, <1>3, <1>4, <1>5 DEF Next

-----------------------------------------------------------------------------

(* The strengthened invariant holds of every reachable state. *)
THEOREM Invariance == ASSUME MigrationAssumption PROVE Spec => []Inv
<1>1. Init => Inv
  BY InitInv
<1>2. Inv /\ [Next]_vars => Inv'
  BY NextInv
<1> QED
  BY <1>1, <1>2, PTL DEF Spec

LEMMA InvTypeOK == Inv => TypeOK
<1> SUFFICES ASSUME Inv PROVE TypeOK
  OBVIOUS
<1>1. rev \in 0..Latest /\ db.ok /\ db.filled \subseteq DOMAIN db.tables
  BY DEF Inv, DbOK, Sound, At
<1>2. db.session.status \in SessionStates /\ db.enrolment.status \in EnrolmentStates
  BY DEF Inv, DbOK, Sound, SessionRows, EnrolmentRows
<1> QED
  BY <1>1, <1>2 DEF Inv, RunsOK, TypeOK, Phases

LEMMA InvSchema == Inv => SchemaFollowsRevision
<1> SUFFICES ASSUME Inv PROVE SchemaFollowsRevision
  OBVIOUS
<1>1. rev \in 0..Latest /\ Own(db.tables) = Schema(rev) /\ db.checks = ChecksAt(rev)
  BY DEF Inv, DbOK, Sound, At
<1>2. FreshAt[rev].tables = Schema(rev) /\ FreshAt[rev].checks = ChecksAt(rev)
  BY <1>1, FreshSchemas
<1> QED
  BY <1>1, <1>2, InvTypeOK DEF SchemaFollowsRevision

LEMMA InvRows == Inv => RowsFitRelease
  BY DEF Inv, DbOK, Sound, Fits, RowsFitRelease

LEMMA InvBlocked == Inv => BlockedOnlyByOldRows
<1> DEFINE Old == \/ rev < 6 /\ "interview_evaluations" \in db.filled
                  \/ rev < 4 /\ db.filled # {}
                  \/ rev < 9 /\ ~DeadlineFits(db.session)
<1> SUFFICES ASSUME Inv, ~Old PROVE Upgraded(Latest).ok
  BY DEF BlockedOnlyByOldRows
<1>1. rev \in 0..Latest /\ db.ok /\ Sound(db, rev)
  BY DEF Inv, DbOK
<1>2. PICK f : IsChain(f, rev, Latest, db) /\ Upgraded(Latest) = f[Latest]
  BY <1>1, UpgradedChain DEF Latest
<1> DEFINE Good(r) == r >= rev =>
              /\ Sound(f[r], r) /\ f[r].ok /\ f[r].filled \subseteq db.filled
              /\ DeadlineFits(f[r].session) <=> DeadlineFits(db.session)
<1>3. Good(rev)
  BY <1>1, <1>2 DEF IsChain
<1>4. ASSUME NEW r \in 1..Latest, Good(r - 1) PROVE Good(r)
  <2>1. CASE r = rev
    BY <1>3, <2>1
  <2>2. CASE r > rev
    <3>1. r - 1 >= rev /\ f[r] = Upgrade(r, f[r - 1])
      BY <1>1, <1>2, <2>2 DEF IsChain, Latest
    <3>2. ~Blocks(f[r - 1], r)
      BY <1>1, <1>4, <2>2, <3>1 DEF Blocks, Latest
    <3>3. Upgrades(f[r - 1], f[r], r)
      BY <1>4, <3>1, UpgradeSound
    <3> HIDE DEF Old
    <3> QED
      BY <1>4, <3>1, <3>2, <3>3 DEF Upgrades
  <2> QED
    BY <1>1, <2>1, <2>2 DEF Latest
<1>5. Good(0)
  BY <1>1, <1>3 DEF Latest
<1> HIDE DEF Good
<1>6. Good(1) /\ Good(2) /\ Good(3) /\ Good(4) /\ Good(5)
  BY <1>4, <1>5 DEF Latest
<1>7. Good(6) /\ Good(7) /\ Good(8) /\ Good(9) /\ Good(10)
  BY <1>4, <1>6 DEF Latest
<1> QED
  BY <1>1, <1>2, <1>7 DEF Good, Latest

(* The types of the state; a run applies revisions exactly while it holds    *)
(* the locks.                                                                *)
THEOREM TypeCorrect == ASSUME MigrationAssumption PROVE Spec => []TypeOK
  BY Invariance, InvTypeOK, PTL

(* Whatever containers, consoles, rows and crashes there are, the committed  *)
(* schema is the one that a fresh database has at the committed revision:    *)
(* `alembic upgrade` in one transaction, and downgrades that undo exactly    *)
(* what the upgrades of src/data/migrations/alembic/versions did.            *)
THEOREM SchemaCorrect ==
  ASSUME MigrationAssumption PROVE Spec => []SchemaFollowsRevision
  BY Invariance, InvSchema, PTL

(* From revision 9 on the rows obey the life cycle its UPDATEs establish,    *)
(* whatever older releases have stored.                                      *)
THEOREM RowsCorrect == ASSUME MigrationAssumption PROVE Spec => []RowsFitRelease
  BY Invariance, InvRows, PTL

(* Only the rows of older releases can refuse `alembic upgrade head`: once   *)
(* at revision 9 every container can start.                                  *)
THEOREM BlockedCorrect ==
  ASSUME MigrationAssumption PROVE Spec => []BlockedOnlyByOldRows
  BY Invariance, InvBlocked, PTL

LEMMA InvMoves ==
  MigrationAssumption /\ Inv /\ [Next]_vars =>
    [rev' # rev => \/ rev' = rev - 1
                   \/ \E i \in Containers : rev' = run[i].goal /\ rev < rev']_vars
<1> SUFFICES ASSUME MigrationAssumption, Inv, [Next]_vars, rev' # rev
             PROVE  \/ rev' = rev - 1
                    \/ \E i \in Containers : rev' = run[i].goal /\ rev < rev'
  BY DEF vars
<1>0. ~ApplicationWrites
  BY Zenon DEF ApplicationWrites, OlderReleaseWrites, Invite, InterviewLives, Becomes
<1>1. PICK i \in Runs : CommitRun(i)
  BY <1>0 DEF Next, RunStep, ReadRevision, TakeLocks, ApplyRevision, Restart, Crash, Deploy, vars
<1>2. /\ rev' = Target(i) /\ run[i].phase = "applying" /\ holder = i /\ run[i].seen = rev
      /\ rev \in 0..Latest
  BY <1>1 DEF CommitRun, Inv, RunsOK, WorkOK, DbOK
<1>3. CASE i \in Operators
  BY <1>2, <1>3 DEF Target
<1>4. CASE i \notin Operators
  BY <1>2, <1>4 DEF Target, Inv, PlansOK, Runs
<1> QED
  BY <1>3, <1>4

(* Two runs at once: a run commits only what follows the revision it has     *)
(* read, which is the committed one as long as it holds the locks.           *)
THEOREM RevisionCorrect == ASSUME MigrationAssumption PROVE Spec => RevisionMoves
<1>1. Inv /\ [Next]_vars =>
        [rev' # rev => \/ rev' = rev - 1
                       \/ \E i \in Containers : rev' = run[i].goal /\ rev < rev']_vars
  BY InvMoves
<1> QED
  BY <1>1, Invariance, PTL DEF Spec, RevisionMoves

(* At the last revision, reached in whatever way, the tables are those that  *)
(* the SQLAlchemy models of src/data/models/postgres declare: every column   *)
(* is there, no INSERT lacks a required one, keys and references agree.      *)
THEOREM HeadServes ==
  ASSUME MigrationAssumption PROVE Spec => [](rev = Latest => Serves(db.tables))
<1>1. Inv => (rev = Latest => Serves(db.tables))
  <2> SUFFICES ASSUME Inv, rev = Latest PROVE Serves(db.tables)
    OBVIOUS
  <2>1. Own(db.tables) = S10
    BY DEF Inv, DbOK, Sound, At, Schema, Latest
  <2> QED
    BY <2>1, LastServes
<1> QED
  BY <1>1, Invariance, PTL

=============================================================================
