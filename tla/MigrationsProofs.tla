--------------------------- MODULE MigrationsProofs ---------------------------
(***************************************************************************)
(* What the commands of db_migrate come to, for every number of processes  *)
(* and commands: whole migrations of the database, one after the other,    *)
(* and after each of them the schema its version stands for.               *)
(*                                                                         *)
(* The second needs every revision of alembic/versions, upwards and        *)
(* downwards.  What a statement makes of a database is proved once per     *)
(* kind of statement (CreatesTable, ...), a table with its indexes is a    *)
(* Block, and At(v) names the blocks of version v.  Takes(script, X, ..,   *)
(* Y, ..) says that the script turns a database of the parts X into one of *)
(* Y and cannot fail, Leads that it does or fails; UpTakes and DownLeads   *)
(* have one of them per revision.  Known, the invariant, adds the          *)
(* databases that fit no version: those of an emptied version table and    *)
(* the one dba980847750 leaves.                                            *)
(***************************************************************************)
EXTENDS InductionLemmas, Migrations, SequenceTheorems, TLAPS

LOCAL INSTANCE SequencesExt
LOCAL INSTANCE FiniteSetsExt

\* The versions there are, and what a process may be at
Versions == Base..HeadVersion

Commands == [command : {"none", "upgrade", "downgrade", "reset"}, from : Versions,
  to : Versions]

\* What a command goes by: versions there are
PlanInv ==
    /\ version \in Versions
    /\ cleared \in BOOLEAN
    /\ plan \in [Procs -> Commands]
    /\ \A p \in Procs : plan[p].command = "downgrade" => plan[p].to <= plan[p].from
    /\ outcome \in [Procs -> {"none", "ok", "failed"}]
    /\ disturbed \subseteq Procs
    /\ commands \in 0..MaxCommands

\* There are twelve revisions.
LEMMA TwelveRevisions == Base = 0 /\ HeadVersion = 12 /\ Base \in Versions
  /\ HeadVersion \in Versions
BY DEF Base, HeadVersion, Up, Versions
-----------------------------------------------------------------------------
(* Scripts *)

\* What Run does, statement after statement: the function of its fold
Done(ops, d) ==
    CHOOSE g : g = [s \in SUBSET DOMAIN ops |->
                      IF s = {} THEN d ELSE Apply(g[s \ {Max(s)}], ops[Max(s)])]

\* A run is what that function has for all statements.
LEMMA RunIsDone ==
    ASSUME NEW ops, NEW d
    PROVE  Run(ops, d) = Done(ops, d)[DOMAIN ops]
BY DEF Run, FoldLeft, MapThenFoldSet, Done

\* No script, no change.
LEMMA NothingToRun == ASSUME NEW d PROVE Run(<<>>, d) = d
<1> DEFINE f == [s \in SUBSET {} |-> d]
<1>1. DOMAIN <<>> = {} /\ \A s \in SUBSET {} : s = {}
  OBVIOUS
<1>2. f = [s \in SUBSET {} |-> IF s = {} THEN d ELSE Apply(f[s \ {Max(s)}], <<>>[Max(s)])]
  BY <1>1
<1> HIDE DEF f
<1>3. Done(<<>>, d) = [s \in SUBSET {} |->
        IF s = {} THEN d ELSE Apply(Done(<<>>, d)[s \ {Max(s)}], <<>>[Max(s)])]
  BY <1>1, <1>2 DEF Done
<1>4. Done(<<>>, d)[{}] = d
  BY <1>3
<1> QED BY <1>1, <1>4, RunIsDone

\* From a version to itself there is no script.
LEMMA StayingChangesNothing ==
    ASSUME NEW d, NEW v \in Versions
    PROVE  Migrated(d, v, v) = d
<1>1. SubSeq(Up, v + 1, v) = <<>>
  BY TwelveRevisions, SubSeqEmpty DEF Versions
<1>2. Scripts(v, v) = <<>>
  BY <1>1, TwelveRevisions DEF Scripts, FlattenSeq, Versions
<1> QED BY <1>2, NothingToRun DEF Migrated
-----------------------------------------------------------------------------
(* Statements *)

\* The DDL operations of the revisions
Kinds ==
    {"create table", "drop table", "drop table if exists", "rename table", "add column",
     "drop column", "alter columns", "create index", "drop index", "rename index",
     "add constraint", "add unique", "drop constraint", "drop constraint if there",
     "rename constraint"}

Statements(s) == s \in Seq({s[i] : i \in DOMAIN s}) /\ \A i \in DOMAIN s : s[i].do \in Kinds

\* A statement changes the parts of the database, and adds none.
LEMMA ApplyKeepsParts ==
    ASSUME NEW d, NEW op, op.do \in Kinds
    PROVE  DOMAIN Apply(d, op) = DOMAIN d
<1>1. DOMAIN Effect(op, d) = DOMAIN d
  BY DEF Effect, Kinds
<1>2. DOMAIN [d EXCEPT !.aborted = TRUE] = DOMAIN d
  OBVIOUS
<1> QED BY <1>1, <1>2 DEF Apply

\* Two lists of statements make one.
LEMMA StatementsTogether ==
    ASSUME NEW s, NEW t, Statements(s), Statements(t)
    PROVE  Statements(s \o t)
<1> DEFINE X == {s[i] : i \in DOMAIN s} \cup {t[i] : i \in DOMAIN t}
           u == s \o t
<1>1. s \in Seq(X) /\ t \in Seq(X) /\ \A x \in X : x.do \in Kinds
  BY DEF Statements
<1>2. u \in Seq(X)
  BY <1>1, ConcatProperties
<1> HIDE DEF X, u
<1>3. u \in Seq({u[i] : i \in DOMAIN u}) /\ \A i \in DOMAIN u : u[i].do \in Kinds
  BY <1>1, <1>2
<1> QED BY <1>3 DEF Statements, u

\* A tuple of statements is a list of statements, for every length the scripts have.
LEMMA Tuple1 ==
    ASSUME NEW a, \A x \in {a} : x.do \in Kinds
    PROVE  Statements(<<a>>)
<1> DEFINE s == <<a>>
<1>1. s \in Seq({a}) /\ {s[k] : k \in DOMAIN s} = {a}
  OBVIOUS
<1> HIDE DEF s
<1>2. Statements(s)
  BY <1>1 DEF Statements
<1> QED BY <1>2 DEF s

LEMMA Tuple2 ==
    ASSUME NEW a, NEW b, \A x \in {a, b} : x.do \in Kinds
    PROVE  Statements(<<a, b>>)
<1> DEFINE s == <<a, b>>
<1>1. s \in Seq({a, b}) /\ {s[k] : k \in DOMAIN s} = {a, b}
  OBVIOUS
<1> HIDE DEF s
<1>2. Statements(s)
  BY <1>1 DEF Statements
<1> QED BY <1>2 DEF s

LEMMA Tuple3 ==
    ASSUME NEW a, NEW b, NEW c, \A x \in {a, b, c} : x.do \in Kinds
    PROVE  Statements(<<a, b, c>>)
<1> DEFINE s == <<a, b, c>>
<1>1. s \in Seq({a, b, c}) /\ {s[k] : k \in DOMAIN s} = {a, b, c}
  OBVIOUS
<1> HIDE DEF s
<1>2. Statements(s)
  BY <1>1 DEF Statements
<1> QED BY <1>2 DEF s

LEMMA Tuple4 ==
    ASSUME NEW a, NEW b, NEW c, NEW d, \A x \in {a, b, c, d} : x.do \in Kinds
    PROVE  Statements(<<a, b, c, d>>)
<1> DEFINE s == <<a, b, c, d>>
<1>1. s \in Seq({a, b, c, d}) /\ {s[k] : k \in DOMAIN s} = {a, b, c, d}
  OBVIOUS
<1> HIDE DEF s
<1>2. Statements(s)
  BY <1>1 DEF Statements
<1> QED BY <1>2 DEF s

LEMMA Tuple5 ==
    ASSUME NEW a, NEW b, NEW c, NEW d, NEW e, \A x \in {a, b, c, d, e} : x.do \in Kinds
    PROVE  Statements(<<a, b, c, d, e>>)
<1> DEFINE s == <<a, b, c, d, e>>
<1>1. s \in Seq({a, b, c, d, e}) /\ {s[k] : k \in DOMAIN s} = {a, b, c, d, e}
  OBVIOUS
<1> HIDE DEF s
<1>2. Statements(s)
  BY <1>1 DEF Statements
<1> QED BY <1>2 DEF s

LEMMA Tuple6 ==
    ASSUME NEW a, NEW b, NEW c, NEW d, NEW e, NEW f,
           \A x \in {a, b, c, d, e, f} : x.do \in Kinds
    PROVE  Statements(<<a, b, c, d, e, f>>)
<1> DEFINE s == <<a, b, c, d, e, f>>
<1>1. s \in Seq({a, b, c, d, e, f}) /\ {s[k] : k \in DOMAIN s} = {a, b, c, d, e, f}
  OBVIOUS
<1> HIDE DEF s
<1>2. Statements(s)
  BY <1>1 DEF Statements
<1> QED BY <1>2 DEF s

LEMMA Tuple9 ==
    ASSUME NEW a, NEW b, NEW c, NEW d, NEW e, NEW f, NEW g, NEW h, NEW i,
           \A x \in {a, b, c, d, e, f, g, h, i} : x.do \in Kinds
    PROVE  Statements(<<a, b, c, d, e, f, g, h, i>>)
<1> DEFINE s == <<a, b, c, d, e, f, g, h, i>>
<1>1. s \in Seq({a, b, c, d, e, f, g, h, i})
        /\ {s[k] : k \in DOMAIN s} = {a, b, c, d, e, f, g, h, i}
  OBVIOUS
<1> HIDE DEF s
<1>2. Statements(s)
  BY <1>1 DEF Statements
<1> QED BY <1>2 DEF s

LEMMA Tuple10 ==
    ASSUME NEW a, NEW b, NEW c, NEW d, NEW e, NEW f, NEW g, NEW h, NEW i, NEW j,
           \A x \in {a, b, c, d, e, f, g, h, i, j} : x.do \in Kinds
    PROVE  Statements(<<a, b, c, d, e, f, g, h, i, j>>)
<1> DEFINE s == <<a, b, c, d, e, f, g, h, i, j>>
<1>1. s \in Seq({a, b, c, d, e, f, g, h, i, j})
        /\ {s[k] : k \in DOMAIN s} = {a, b, c, d, e, f, g, h, i, j}
  OBVIOUS
<1> HIDE DEF s
<1>2. Statements(s)
  BY <1>1 DEF Statements
<1> QED BY <1>2 DEF s

\* Every DDL operation the revisions use makes a statement.
LEMMA StatementKinds ==
    /\ \A t, cs, ks : CreateTable(t, cs, ks).do \in Kinds
    /\ \A t : DropTable(t).do \in Kinds /\ DropTableIfExists(t).do \in Kinds
    /\ \A t, to : RenameTable(t, to).do \in Kinds
    /\ \A t, c : AddColumn(t, c).do \in Kinds /\ DropColumn(t, c).do \in Kinds
    /\ \A t, cs, type : AlterTypes(t, cs, type).do \in Kinds
    /\ \A i : CreateIndex(i).do \in Kinds /\ DropIndex(i).do \in Kinds
    /\ \A i, t, c : IndexOn(i, t, c).do \in Kinds
    /\ \A i, to : RenameIndex(i, to).do \in Kinds
    /\ \A k : /\ AddConstraint(k).do \in Kinds /\ AddUnique(k).do \in Kinds
              /\ DropConstraint(k).do \in Kinds /\ DropConstraintIfThere(k).do \in Kinds
    /\ \A k, to : RenameConstraint(k, to).do \in Kinds
BY DEF Kinds, CreateTable, DropTable, DropTableIfExists, RenameTable, AddColumn, DropColumn,
       AlterTypes, CreateIndex, DropIndex, IndexOn, RenameIndex, AddConstraint, AddUnique,
       DropConstraint, DropConstraintIfThere, RenameConstraint

\* Every revision is a list of statements, upwards and downwards.
LEMMA ScriptsAreStatements ==
    \A k \in 1..12 : Statements(Up[k]) /\ Statements(Down[k])
<1>1. /\ Statements(CreateStocks) /\ Statements(DropStocks)
      /\ Statements(CreatePrices) /\ Statements(DropPrices)
  BY StatementKinds, Tuple5, Tuple4 DEF CreateStocks, DropStocks, CreatePrices, DropPrices
<1>2. Statements(UpInitial) /\ Statements(DownInitial)
  <2>1. Statements(CreateListedInfo) /\ Statements(DropListedInfo)
    BY StatementKinds, Tuple3 DEF CreateListedInfo, DropListedInfo
  <2> QED BY <1>1, <2>1, StatementKinds, Tuple1, StatementsTogether
             DEF UpInitial, DownInitial
<1>3. Statements(UpRemoveUnused) /\ Statements(DownRemoveUnused)
  BY <1>1, StatementsTogether DEF UpRemoveUnused, DownRemoveUnused
<1>4. /\ Statements(CreateBeatSchedules) /\ Statements(DropBeatSchedules)
      /\ Statements(CreateTaskLogs) /\ Statements(DropTaskLogs)
  BY StatementKinds, Tuple3, Tuple6
     DEF CreateBeatSchedules, DropBeatSchedules, CreateTaskLogs, DropTaskLogs
<1>5. Statements(UpBeatTables) /\ Statements(DownBeatTables)
  BY <1>4, StatementsTogether DEF UpBeatTables, DownBeatTables
<1>6. Statements(UpFlexible)
  BY StatementKinds, Tuple10 DEF UpFlexible
<1>7. Statements(DownFlexible)
  BY StatementKinds, Tuple9 DEF DownFlexible
<1>8. \A type : Statements(TradesSpec(type))
  BY StatementKinds, Tuple5 DEF TradesSpec
<1>9. Statements(DownTradesSpec) /\ Statements(WeeklyMarginInterest)
  BY StatementKinds, Tuple5 DEF DownTradesSpec, WeeklyMarginInterest
<1>10. Statements(UpBigInteger) /\ Statements(DownBigInteger)
  BY StatementKinds, Tuple1 DEF UpBigInteger, DownBigInteger
<1>11. Statements(UpWeeklyMargin)
  BY <1>9, StatementKinds, Tuple5, StatementsTogether DEF UpWeeklyMargin
<1>12. Statements(DownWeeklyMargin)
  BY StatementKinds, Tuple2, Tuple3, Tuple5, StatementsTogether
     DEF DownWeeklyMargin, RestoreBeatIndexes, DropWeeklyMarginInterest
<1>13. \A code : Statements(Announcements(code))
  BY StatementKinds, Tuple3 DEF Announcements
<1>14. Statements(DownAnnouncements) /\ Statements(UpRemoveThree)
  BY StatementKinds, Tuple3 DEF DownAnnouncements, UpRemoveThree
<1>15. Statements(UpCodeLength) /\ Statements(DownCodeLength)
  BY StatementKinds, Tuple1 DEF UpCodeLength, DownCodeLength
<1>16. Statements(DownRemoveThree)
  BY <1>8, <1>9, <1>13, StatementsTogether DEF DownRemoveThree
<1>17. Statements(UpRename) /\ Statements(DownRename)
  BY StatementKinds, Tuple4 DEF UpRename, DownRename
<1>18. Statements(UpLastRunAt) /\ Statements(DownLastRunAt)
  BY StatementKinds, Tuple2 DEF UpLastRunAt, DownLastRunAt
<1>19. Statements(UpTradesSpec) /\ Statements(UpAnnouncements)
  BY <1>8, <1>13 DEF UpTradesSpec, UpAnnouncements
<1>20. \A k \in 1..12 : Statements(Up[k])
  BY <1>2, <1>3, <1>5, <1>6, <1>10, <1>11, <1>14, <1>15, <1>17, <1>18, <1>19 DEF Up
<1>21. \A k \in 1..12 : Statements(Down[k])
  BY <1>2, <1>3, <1>5, <1>7, <1>9, <1>10, <1>12, <1>14, <1>15, <1>16, <1>17, <1>18 DEF Down
<1> QED BY <1>20, <1>21

\* Lists of statements, one after the other, are lists of statements.
LEMMA FlatStatements ==
    ASSUME NEW seqs, NEW n \in Nat, Len(seqs) = n, DOMAIN seqs = 1..n,
           \A k \in 1..n : Statements(seqs[k])
    PROVE  /\ \A k \in 1..n :
                Flat(seqs)[k] = IF k = 1 THEN seqs[k] ELSE Flat(seqs)[k - 1] \o seqs[k]
           /\ \A k \in 1..n : Statements(Flat(seqs)[k])
<1> DEFINE Sound == {k \in Nat : k + 1 \in 1..n => Statements(Flat(seqs)[k + 1])}
<1>1. \A k \in 1..n :
         Flat(seqs)[k] = IF k = 1 THEN seqs[k] ELSE Flat(seqs)[k - 1] \o seqs[k]
  <2>1. Flat(seqs) = [k \in 1..Len(seqs) |->
                       IF k = 1 THEN seqs[k] ELSE Flat(seqs)[k - 1] \o seqs[k]]
    BY FlatIs
  <2> QED BY <2>1
<1>2. 0 \in Sound
  <2>1. SUFFICES ASSUME 0 + 1 \in 1..n PROVE Statements(Flat(seqs)[0 + 1])
    OBVIOUS
  <2> QED BY <1>1, <2>1
<1>3. ASSUME NEW k \in Nat, k \in Sound PROVE k + 1 \in Sound
  <2> DEFINE m == k + 1
  <2>1. SUFFICES ASSUME m + 1 \in 1..n PROVE Statements(Flat(seqs)[m + 1])
    OBVIOUS
  <2>2. m \in 1..n /\ m + 1 # 1 /\ (m + 1) - 1 = m
    BY <2>1
  <2>3. Statements(Flat(seqs)[m])
    BY <1>3, <2>2
  <2> HIDE DEF m
  <2>4. Flat(seqs)[m + 1] = Flat(seqs)[m] \o seqs[m + 1]
    BY <1>1, <2>1, <2>2
  <2> QED BY <2>1, <2>3, <2>4, StatementsTogether
<1>4. Nat \subseteq Sound
  <2> HIDE DEF Sound
  <2> QED BY <1>2, <1>3, SetInduction
<1>5. ASSUME NEW k \in 1..n PROVE Statements(Flat(seqs)[k])
  <2>1. k - 1 \in Nat /\ (k - 1) + 1 = k
    OBVIOUS
  <2>2. k - 1 \in Sound
    BY <1>4, <2>1
  <2> QED BY <2>1, <2>2
<1> QED BY <1>1, <1>5

\* One script after the other is a list of statements.
LEMMA FlattenedStatements ==
    ASSUME NEW seqs, NEW n \in Nat, Len(seqs) = n, DOMAIN seqs = 1..n, n = 0 => seqs = <<>>,
           \A k \in 1..n : Statements(seqs[k])
    PROVE  Statements(FlattenSeq(seqs))
<1>1. CASE n = 0
  <2>1. FlattenSeq(seqs) = <<>>
    BY <1>1 DEF FlattenSeq
  <2>2. Statements(<<>>)
    BY DEF Statements
  <2> QED BY <2>1, <2>2
<1>2. CASE n # 0
  <2>1. n \in 1..n
    BY <1>2
  <2>2. FlattenSeq(seqs) = Flat(seqs)[n]
    BY <1>2 DEF FlattenSeq, Flat
  <2> QED BY <2>1, <2>2, FlatStatements
<1> QED BY <1>1, <1>2

\* How many revisions lie between two versions, and which is the k-th on the way
Way(from, to) == IF from <= to THEN to - from ELSE from - to

OnWay(from, to, k) == IF from <= to THEN Up[from + k] ELSE Down[from + 1 - k]

\* The scripts from any version to any other, revision by revision
LEMMA ScriptsAre ==
    ASSUME NEW from \in Versions, NEW to \in Versions
    PROVE  \E seqs : /\ Way(from, to) \in Nat
                     /\ Len(seqs) = Way(from, to)
                     /\ DOMAIN seqs = 1..Way(from, to)
                     /\ Way(from, to) = 0 => seqs = <<>>
                     /\ \A k \in 1..Way(from, to) : /\ seqs[k] = OnWay(from, to, k)
                                                    /\ Statements(seqs[k])
                     /\ Scripts(from, to) = FlattenSeq(seqs)
<1>1. from \in 0..12 /\ to \in 0..12
  BY TwelveRevisions DEF Versions
<1>2. CASE from <= to
  <2> DEFINE seqs == SubSeq(Up, from + 1, to)
             n == to - from
  <2>1. /\ Len(seqs) = n /\ DOMAIN seqs = 1..n /\ n \in Nat
        /\ \A k \in 1..n : seqs[k] = Up[from + k]
    <3>1. \A k \in (from + 1)..to : Up[k] \in {Up[m] : m \in 1..12}
      BY <1>1
    <3>2. /\ seqs \in Seq({Up[m] : m \in 1..12})
          /\ Len(seqs) = IF from + 1 <= to THEN to - (from + 1) + 1 ELSE 0
          /\ \A k \in 1..(to - (from + 1) + 1) : seqs[k] = Up[(from + 1) + k - 1]
      BY <1>1, <3>1, SubSeqProperties
    <3> HIDE DEF seqs
    <3>3. Len(seqs) = n /\ n \in Nat /\ DOMAIN seqs = 1..Len(seqs)
      BY <1>1, <1>2, <3>2
    <3> QED BY <1>1, <3>2, <3>3
  <2>2. \A k \in 1..n : Statements(seqs[k])
    <3>1. \A k \in 1..n : from + k \in 1..12
      BY <1>1
    <3> HIDE DEF seqs, n
    <3> QED BY <2>1, <3>1, ScriptsAreStatements
  <2>3. n = 0 => seqs = <<>>
    BY <1>1, SubSeqEmpty
  <2>4. Scripts(from, to) = FlattenSeq(seqs)
    BY <1>2 DEF Scripts
  <2>5. Way(from, to) = n /\ \A k : OnWay(from, to, k) = Up[from + k]
    BY <1>2 DEF Way, OnWay
  <2> HIDE DEF seqs, n
  <2> QED BY <2>1, <2>2, <2>3, <2>4, <2>5
<1>3. CASE ~(from <= to)
  <2> DEFINE n == from - to
             seqs == [k \in 1..n |-> Down[from + 1 - k]]
  <2>1. n \in Nat \ {0} /\ Len(seqs) = n /\ DOMAIN seqs = 1..n
    BY <1>1, <1>3
  <2>2. \A k \in 1..n : seqs[k] = Down[from + 1 - k] /\ Statements(seqs[k])
    BY <1>1, ScriptsAreStatements
  <2>3. Scripts(from, to) = FlattenSeq(seqs)
    BY <1>3 DEF Scripts
  <2>4. Way(from, to) = n /\ \A k : OnWay(from, to, k) = Down[from + 1 - k]
    BY <1>3 DEF Way, OnWay
  <2> HIDE DEF seqs, n
  <2> QED BY <2>1, <2>2, <2>3, <2>4
<1> QED BY <1>2, <1>3

\* ... are statements.
LEMMA WayIsStatements ==
    ASSUME NEW from \in Versions, NEW to \in Versions
    PROVE  Statements(Scripts(from, to))
<1> DEFINE n == Way(from, to)
<1>1. PICK seqs : /\ n \in Nat
                  /\ Len(seqs) = n
                  /\ DOMAIN seqs = 1..n
                  /\ n = 0 => seqs = <<>>
                  /\ \A k \in 1..n : seqs[k] = OnWay(from, to, k) /\ Statements(seqs[k])
                  /\ Scripts(from, to) = FlattenSeq(seqs)
  BY ScriptsAre
<1> HIDE DEF n
<1> QED BY <1>1, FlattenedStatements

-----------------------------------------------------------------------------
(* Runs *)

\* The largest of the first k + 1 statements is the last.
LEMMA LastIsMax ==
    ASSUME NEW k \in Nat, NEW s \in SUBSET (1..(k + 1)), k + 1 \in s
    PROVE  Max(s) = k + 1
<1>1. k + 1 \in s /\ \A y \in s : k + 1 >= y
  OBVIOUS
<1>2. \A x \in s : (\A y \in s : x >= y) => x = k + 1
  OBVIOUS
<1> QED BY <1>1, <1>2 DEF Max

\* The recursion of a run has a solution.
LEMMA DoneIs ==
    ASSUME NEW ops, NEW d, NEW n \in Nat, DOMAIN ops = 1..n
    PROVE  Done(ops, d) = [s \in SUBSET (1..n) |->
             IF s = {} THEN d ELSE Apply(Done(ops, d)[s \ {Max(s)}], ops[Max(s)])]
<1> DEFINE Next1(g, s) == IF s = {} THEN d ELSE Apply(g[s \ {Max(s)}], ops[Max(s)])
           Solved == {k \in Nat : \E g : g = [s \in SUBSET (1..k) |-> Next1(g, s)]}
<1>1. 0 \in Solved
  <2> DEFINE g == [s \in SUBSET (1..0) |-> d]
  <2>1. \A s \in SUBSET (1..0) : s = {}
    OBVIOUS
  <2>2. g = [s \in SUBSET (1..0) |-> Next1(g, s)]
    BY <2>1
  <2> HIDE DEF g, Next1
  <2> QED BY <2>2
<1>2. ASSUME NEW k \in Nat, k \in Solved PROVE k + 1 \in Solved
  <2>1. PICK g : g = [s \in SUBSET (1..k) |-> Next1(g, s)]
    BY <1>2
  <2> DEFINE h == [s \in SUBSET (1..(k + 1)) |->
                    IF k + 1 \in s THEN Apply(g[s \ {k + 1}], ops[k + 1]) ELSE g[s]]
  <2>2. ASSUME NEW s \in SUBSET (1..(k + 1))
        PROVE  h[s] = Next1(h, s)
    <3>1. CASE k + 1 \in s
      <4>1. Max(s) = k + 1 /\ s # {}
        BY <3>1, LastIsMax
      <4>2. s \ {k + 1} \in SUBSET (1..(k + 1)) /\ k + 1 \notin s \ {k + 1}
        OBVIOUS
      <4>3. h[s \ {k + 1}] = g[s \ {k + 1}]
        BY <4>2
      <4>4. h[s] = Apply(g[s \ {k + 1}], ops[k + 1])
        BY <3>1
      <4> HIDE DEF h
      <4> QED BY <4>1, <4>3, <4>4
    <3>2. CASE k + 1 \notin s
      <4> DEFINE r == s \ {Max(s)}
      <4>1. s \in SUBSET (1..k) /\ r \in SUBSET (1..(k + 1)) /\ k + 1 \notin r
        <5>1. \A x \in s : x \in 1..k
          BY <3>2
        <5>2. r \subseteq s
          OBVIOUS
        <5> HIDE DEF r
        <5> QED BY <3>2, <5>1, <5>2
      <4>2. h[s] = g[s] /\ h[r] = g[r]
        <5> HIDE DEF r
        <5> QED BY <3>2, <4>1
      <4>3. g[s] = Next1(g, s)
        BY <2>1, <4>1
      <4> HIDE DEF h
      <4> QED BY <4>2, <4>3
    <3> QED BY <3>1, <3>2
  <2>3. h = [s \in SUBSET (1..(k + 1)) |-> h[s]]
    OBVIOUS
  <2> HIDE DEF h, Next1
  <2>4. h = [s \in SUBSET (1..(k + 1)) |-> Next1(h, s)]
    BY <2>2, <2>3
  <2> QED BY <2>4
<1>3. Nat \subseteq Solved
  <2> HIDE DEF Solved
  <2> QED BY <1>1, <1>2, SetInduction
<1>4. \E g : g = [s \in SUBSET (1..n) |-> Next1(g, s)]
  BY <1>3
<1> QED BY <1>4 DEF Done

\* A run changes the parts of the database, and adds none.
LEMMA RunKeepsParts ==
    ASSUME NEW ops, NEW d, Statements(ops)
    PROVE  DOMAIN Run(ops, d) = DOMAIN d
<1>1. PICK n \in Nat : DOMAIN ops = 1..n
  <2>1. ops \in Seq({ops[i] : i \in DOMAIN ops})
    BY DEF Statements
  <2> QED BY <2>1
<1> DEFINE After(k) == Done(ops, d)[1..k]
           Kept == {k \in Nat : k \in 0..n => DOMAIN After(k) = DOMAIN d}
<1>2. Done(ops, d) = [s \in SUBSET (1..n) |->
         IF s = {} THEN d ELSE Apply(Done(ops, d)[s \ {Max(s)}], ops[Max(s)])]
  BY <1>1, DoneIs
<1>3. After(0) = d
  <2>1. 1..0 = {} /\ {} \in SUBSET (1..n)
    OBVIOUS
  <2> QED BY <1>2, <2>1
<1>4. \A k \in Nat : k + 1 \in 1..n => After(k + 1) = Apply(After(k), ops[k + 1])
  <2> SUFFICES ASSUME NEW k \in Nat, k + 1 \in 1..n
               PROVE  After(k + 1) = Apply(After(k), ops[k + 1])
    OBVIOUS
  <2>1. /\ 1..(k + 1) \in SUBSET (1..n) /\ 1..(k + 1) # {} /\ k + 1 \in 1..(k + 1)
        /\ (1..(k + 1)) \ {k + 1} = 1..k
    BY <1>1
  <2>2. Max(1..(k + 1)) = k + 1
    BY <2>1, LastIsMax
  <2> QED BY <1>2, <2>1, <2>2
<1>5. 0 \in Kept
  BY <1>3
<1>6. ASSUME NEW k \in Nat, k \in Kept PROVE k + 1 \in Kept
  <2>1. SUFFICES ASSUME k + 1 \in 0..n PROVE DOMAIN After(k + 1) = DOMAIN d
    OBVIOUS
  <2>2. k \in 0..n /\ k + 1 \in 1..n
    BY <1>1, <2>1
  <2>3. ops[k + 1].do \in Kinds
    BY <1>1, <2>2 DEF Statements
  <2> HIDE DEF After
  <2> QED BY <1>4, <1>6, <2>2, <2>3, ApplyKeepsParts
<1>7. Nat \subseteq Kept
  <2> HIDE DEF Kept
  <2> QED BY <1>5, <1>6, SetInduction
<1>8. DOMAIN After(n) = DOMAIN d
  BY <1>7
<1> QED BY <1>1, <1>8, RunIsDone

\* A run of one statement
LEMMA OneStatement ==
    ASSUME NEW op, NEW d
    PROVE  Run(<<op>>, d) = Apply(d, op)
<1> DEFINE ops == <<op>>
<1>1. DOMAIN ops = 1..1 /\ ops[1] = op
  OBVIOUS
<1> HIDE DEF ops
<1>2. Done(ops, d) = [s \in SUBSET (1..1) |->
         IF s = {} THEN d ELSE Apply(Done(ops, d)[s \ {Max(s)}], ops[Max(s)])]
  BY <1>1, DoneIs
<1>3. Max(1..1) = 1
  BY LastIsMax, 0 + 1 = 1
<1>4. (1..1) \ {1} = {} /\ 1..1 # {} /\ {} \in SUBSET (1..1)
  OBVIOUS
<1>5. Done(ops, d)[{}] = d
  BY <1>2, <1>4
<1>6. Done(ops, d)[1..1] = Apply(d, op)
  BY <1>1, <1>2, <1>3, <1>4, <1>5
<1> QED BY <1>1, <1>6, RunIsDone DEF ops
-----------------------------------------------------------------------------
(* Commands *)

\* The bound on commands is a number.
LEMMA Bound == MaxCommands \in Nat
BY CommandAssumption

\* A command that begins goes by the version it reads.
LEMMA StartKeeps ==
    ASSUME PlanInv, NEW p \in Procs,
           \/ \E v \in Versions : Upgrade(p, v) \/ Downgrade(p, v)
           \/ DowngradeOne(p)
           \/ Reset(p)
    PROVE  PlanInv' /\ UNCHANGED <<db, version, cleared>>
<1>1. commands' \in 0..MaxCommands /\ UNCHANGED <<db, version, cleared>>
  BY Bound DEF PlanInv, Start, Upgrade, Downgrade, DowngradeOne, Reset
<1>2. CASE \E command \in {"upgrade", "downgrade", "reset"}, to \in Versions :
              Begin(p, command, to) /\ (command = "downgrade" => to <= version)
  <2>1. PICK command \in {"upgrade", "downgrade", "reset"}, to \in Versions :
              Begin(p, command, to) /\ (command = "downgrade" => to <= version)
    BY <1>2
  <2> DEFINE new == [command |-> command, from |-> version, to |-> to]
  <2>2. /\ plan' = [plan EXCEPT ![p] = new]
        /\ outcome' = [outcome EXCEPT ![p] = "none"]
        /\ disturbed' \subseteq Procs
    BY <2>1 DEF Begin, Busy, PlanInv
  <2>3. new \in Commands /\ (new.command = "downgrade" => new.to <= new.from)
    BY <2>1 DEF Commands, PlanInv
  <2> HIDE DEF new
  <2> QED BY <1>1, <2>2, <2>3 DEF PlanInv
<1>3. CASE End(p, "failed") /\ UNCHANGED disturbed
  <2>1. Idle \in Commands /\ Idle.command = "none"
    BY TwelveRevisions DEF Idle, Commands
  <2> QED BY <1>1, <1>3, <2>1 DEF End, PlanInv
<1>4. \A v \in Versions : version \in Versions
        /\ (version > Base => version - 1 \in Versions)
  BY TwelveRevisions DEF PlanInv, Versions
<1> QED
  BY <1>2, <1>3, <1>4, TwelveRevisions DEF Upgrade, Downgrade, DowngradeOne, Reset, Versions

\* The database a command commits is migrated from the version that is there
\* then, although it has read the version before: or else it is unchanged.
LEMMA FinishKeeps ==
    ASSUME PlanInv, NEW p \in Procs, Finish(p)
    PROVE  /\ PlanInv'
           /\ (\E v \in Versions : MigrateTo(v)) \/ UNCHANGED <<db, version, cleared>>
<1> DEFINE from == plan[p].from
           to == plan[p].to
<1>1. plan[p] \in Commands /\ from \in Versions /\ to \in Versions
  BY DEF PlanInv, Commands
<1>2. Idle \in Commands /\ Idle.command = "none"
  BY TwelveRevisions DEF Idle, Commands
<1>3. CASE Rollback(p)
  BY <1>2, <1>3 DEF Rollback, End, PlanInv
<1>4. CASE Commit(p, Result(p)) /\ ~Result(p).aborted /\ Expected(p)
  <2>1. /\ db' = Migrated(db, from, to)
        /\ version' = IF from = to THEN version ELSE to
        /\ ~Migrated(db, from, to).aborted
        /\ from = to \/ from = version
        /\ cleared' = cleared
    BY <1>4 DEF Commit, Result, Expected
  <2> HIDE DEF from, to
  <2>2. (\E v \in Versions : MigrateTo(v)) \/ UNCHANGED <<db, version, cleared>>
    <3>1. CASE from = to
      BY <1>1, <2>1, <3>1, StayingChangesNothing
    <3>2. CASE from # to
      BY <1>1, <2>1, <3>2 DEF MigrateTo
    <3> QED BY <3>1, <3>2
  <2>3. version' \in Versions
    BY <1>1, <2>1 DEF PlanInv
  <2>4. ASSUME ResetGoesOn(p)
        PROVE  plan' \in [Procs -> Commands] /\ outcome' = outcome
               /\ \A q \in Procs : plan'[q].command = "downgrade"
                    => plan'[q].to <= plan'[q].from
    <3> DEFINE new == [command |-> "upgrade", from |-> Base, to |-> HeadVersion]
    <3>1. new \in Commands /\ new.command # "downgrade"
      BY TwelveRevisions DEF Commands
    <3>2. plan' = [plan EXCEPT ![p] = new] /\ outcome' = outcome
      BY <2>4 DEF ResetGoesOn
    <3> HIDE DEF new
    <3> QED BY <3>1, <3>2 DEF PlanInv
  <2>5. PlanInv'
    BY <1>2, <1>4, <2>3, <2>4 DEF Commit, End, PlanInv
  <2> QED BY <2>2, <2>5
<1> QED BY <1>3, <1>4 DEF Finish

\* Every step keeps what the commands go by, and takes the database one step on.
LEMMA StepIsDbStep ==
    ASSUME PlanInv, [Next]_vars
    PROVE  PlanInv' /\ [DbNext]_<<db, version, cleared>>
<1>1. ASSUME NEW p \in Procs,
             \/ \E v \in Versions : Upgrade(p, v) \/ Downgrade(p, v)
             \/ InitDatabase(p) \/ DowngradeOne(p) \/ Reset(p)
      PROVE  PlanInv' /\ UNCHANGED <<db, version, cleared>>
  BY <1>1, StartKeeps, TwelveRevisions DEF InitDatabase
<1>2. ASSUME NEW p \in Procs, Finish(p)
      PROVE  PlanInv' /\ [DbNext]_<<db, version, cleared>>
  BY <1>2, FinishKeeps DEF DbNext, Versions
<1>3. ASSUME NEW p \in Procs, Lost(p)
      PROVE  PlanInv' /\ UNCHANGED <<db, version, cleared>>
  <2>1. Idle \in Commands /\ Idle.command = "none"
    BY TwelveRevisions DEF Idle, Commands
  <2> QED BY <1>3, <2>1 DEF Lost, PlanInv
<1>4. ASSUME NEW same \in BOOLEAN, SetSameNames(same), UNCHANGED processes
      PROVE  PlanInv' /\ DbNext
  BY <1>4 DEF SetSameNames, DbNext, processes, PlanInv
<1>5. ASSUME ClearVersion, UNCHANGED processes
      PROVE  PlanInv' /\ DbNext
  BY <1>5, TwelveRevisions DEF ClearVersion, DbNext, processes, PlanInv
<1>6. CASE UNCHANGED vars
  BY <1>6 DEF vars, processes, PlanInv
<1> QED
  BY <1>1, <1>2, <1>3, <1>4, <1>5, <1>6 DEF Next, Versions

\* At the start every process is idle.
LEMMA PlanHolds == Init => PlanInv
<1>1. Idle \in Commands /\ Idle.command = "none"
  BY TwelveRevisions DEF Idle, Commands
<1> SUFFICES ASSUME Init PROVE PlanInv
  OBVIOUS
<1>2. version \in Versions /\ cleared \in BOOLEAN
  BY TwelveRevisions DEF Init, DbInit
<1>3. /\ plan \in [Procs -> Commands]
      /\ \A p \in Procs : plan[p].command = "none"
  BY <1>1 DEF Init
<1>4. outcome \in [Procs -> {"none", "ok", "failed"}] /\ disturbed \subseteq Procs
  BY DEF Init
<1>5. commands \in 0..MaxCommands
  BY Bound DEF Init
<1> QED BY <1>2, <1>3, <1>4, <1>5 DEF PlanInv

\* ... and so it stays with every step.
LEMMA PlanAlways == Spec => []PlanInv
<1>1. PlanInv /\ [Next]_vars => PlanInv'
  BY StepIsDbStep
<1> QED BY <1>1, PlanHolds, PTL DEF Spec

\* No transaction that PostgreSQL has aborted is ever committed.
DbInv == "aborted" \in DOMAIN db /\ ~db.aborted

\* Both databases a start is possible from are in order,
LEMMA DbHolds == DbInit => DbInv
<1> SUFFICES ASSUME DbInit PROVE DbInv
  OBVIOUS
<1>1. "aborted" \in DOMAIN EmptyDb /\ ~EmptyDb.aborted
  BY DEF EmptyDb
<1>2. "aborted" \in DOMAIN LegacyTable /\ ~LegacyTable.aborted
  <2> DEFINE op == CreateTable("data_sources", Plain({"id"}), {})
  <2>1. LegacyTable = Apply(EmptyDb, op)
    BY OneStatement DEF LegacyTable
  <2>2. Accepts(op, EmptyDb)
    BY DEF Accepts, CreateTable, EmptyDb, Tables
  <2>3. LegacyTable = Effect(op, EmptyDb)
    BY <1>1, <2>1, <2>2 DEF Apply
  <2>4. op.do = "create table"
    BY DEF CreateTable
  <2> HIDE DEF op
  <2> QED BY <1>1, <2>3, <2>4 DEF Effect
<1> QED BY <1>1, <1>2 DEF DbInit, DbInv

\* every step of the database leaves one,
LEMMA DbKept ==
    ASSUME PlanInv, DbInv, [DbNext]_<<db, version, cleared>>
    PROVE  DbInv'
<1>1. ASSUME NEW v \in Versions, MigrateTo(v)
      PROVE  DbInv'
  <2>1. DOMAIN Migrated(db, version, v) = DOMAIN db
    BY WayIsStatements, RunKeepsParts DEF Migrated, PlanInv
  <2> QED BY <1>1, <2>1 DEF MigrateTo, DbInv
<1>2. ASSUME NEW same \in BOOLEAN, SetSameNames(same)
      PROVE  DbInv'
  BY <1>2 DEF SetSameNames, DbInv
<1>3. CASE ClearVersion \/ UNCHANGED <<db, version, cleared>>
  BY <1>3 DEF ClearVersion, DbInv
<1> QED BY <1>1, <1>2, <1>3 DEF DbNext, Versions

\* and so every step of the commands.
LEMMA DbAlways == Spec => []DbInv
<1>1. Init => DbInv
  BY DbHolds DEF Init
<1>2. PlanInv /\ DbInv /\ [Next]_vars => DbInv'
  BY StepIsDbStep, DbKept
<1> QED BY <1>1, <1>2, PlanAlways, PTL DEF Spec
-----------------------------------------------------------------------------
(* Runs, statement by statement *)

\* What there is after each statement
Trace(r, ops, n, d) ==
    /\ r[0] = d
    /\ \A k \in 0..(n - 1) : r[k + 1] = Apply(r[k], ops[k + 1])

\* Every run has such a trace, and ends where the trace does.
LEMMA RunIsTrace ==
    ASSUME NEW ops, NEW d, NEW n \in Nat, DOMAIN ops = 1..n
    PROVE  \E r : Trace(r, ops, n, d) /\ r[n] = Run(ops, d)
<1> DEFINE After(k) == Done(ops, d)[1..k]
           r == [k \in 0..n |-> After(k)]
<1>1. Done(ops, d) = [s \in SUBSET (1..n) |->
         IF s = {} THEN d ELSE Apply(Done(ops, d)[s \ {Max(s)}], ops[Max(s)])]
  BY DoneIs
<1>2. After(0) = d
  <2>1. 1..0 = {} /\ {} \in SUBSET (1..n)
    OBVIOUS
  <2> QED BY <1>1, <2>1
<1>3. ASSUME NEW k \in 0..(n - 1) PROVE After(k + 1) = Apply(After(k), ops[k + 1])
  <2>1. /\ 1..(k + 1) \in SUBSET (1..n) /\ 1..(k + 1) # {} /\ k + 1 \in 1..(k + 1)
        /\ (1..(k + 1)) \ {k + 1} = 1..k
    OBVIOUS
  <2>2. Max(1..(k + 1)) = k + 1
    BY <2>1, LastIsMax
  <2> QED BY <1>1, <2>1, <2>2
<1>4. /\ r[0] = After(0) /\ r[n] = After(n)
      /\ \A k \in 0..(n - 1) : r[k] = After(k) /\ r[k + 1] = After(k + 1)
  OBVIOUS
<1>5. After(n) = Run(ops, d)
  BY RunIsDone
<1> HIDE DEF r, After
<1>6. Trace(r, ops, n, d)
  BY <1>2, <1>3, <1>4 DEF Trace
<1> QED BY <1>4, <1>5, <1>6

\* Statements decide what becomes of a database.
LEMMA OneTrace ==
    ASSUME NEW r, NEW q, NEW ops, NEW n \in Nat, NEW d,
           Trace(r, ops, n, d), Trace(q, ops, n, d)
    PROVE  \A k \in 0..n : r[k] = q[k]
<1> DEFINE Same == {k \in Nat : k \in 0..n => r[k] = q[k]}
<1>1. 0 \in Same
  BY DEF Trace
<1>2. \A k \in Nat : k \in Same => k + 1 \in Same
  <2> SUFFICES ASSUME NEW k \in Nat, k \in Same, k + 1 \in 0..n PROVE r[k + 1] = q[k + 1]
    OBVIOUS
  <2>1. k \in 0..(n - 1) /\ k \in 0..n
    OBVIOUS
  <2> QED BY <2>1 DEF Trace
<1> HIDE DEF Same
<1>3. Nat \subseteq Same
  BY <1>1, <1>2, SetInduction
<1> QED BY <1>3 DEF Same

\* One list after the other is the second run on what the first has left.
LEMMA RunConcat ==
    ASSUME NEW a, NEW b, NEW d, Statements(a), Statements(b)
    PROVE  Run(a \o b, d) = Run(b, Run(a, d))
<1> DEFINE c == a \o b
<1>1. PICK m \in Nat : DOMAIN a = 1..m /\ Len(a) = m
  BY DEF Statements
<1>2. PICK n \in Nat : DOMAIN b = 1..n /\ Len(b) = n
  BY DEF Statements
<1>3. /\ DOMAIN c = 1..(m + n)
      /\ \A k \in 1..m : c[k] = a[k]
      /\ \A k \in 1..n : c[m + k] = b[k]
  <2> DEFINE X == {a[i] : i \in DOMAIN a} \cup {b[i] : i \in DOMAIN b}
  <2>1. a \in Seq(X) /\ b \in Seq(X)
    BY DEF Statements
  <2> HIDE DEF X
  <2>2. /\ Len(a \o b) = m + n /\ a \o b \in Seq(X)
        /\ \A i \in 1..(m + n) : (a \o b)[i] = IF i <= m THEN a[i] ELSE b[i - m]
    BY <1>1, <1>2, <2>1, ConcatProperties
  <2> HIDE DEF c
  <2>3. DOMAIN c = 1..(m + n) /\ \A i \in 1..(m + n) : c[i]
          = IF i <= m THEN a[i] ELSE b[i - m]
    BY <2>2 DEF c
  <2>4. \A k \in 1..m : k \in 1..(m + n) /\ k <= m
    BY <1>1, <1>2
  <2>5. \A k \in 1..n : m + k \in 1..(m + n) /\ ~(m + k <= m) /\ (m + k) - m = k
    BY <1>1, <1>2
  <2> QED BY <2>3, <2>4, <2>5
<1> HIDE DEF c
<1>4. PICK r : Trace(r, c, m + n, d) /\ r[m + n] = Run(c, d)
  BY <1>3, RunIsTrace
<1>5. PICK p : Trace(p, a, m, d) /\ p[m] = Run(a, d)
  BY <1>1, RunIsTrace
<1>6. PICK q : Trace(q, b, n, Run(a, d)) /\ q[n] = Run(b, Run(a, d))
  BY <1>2, RunIsTrace
<1>7. Trace(r, a, m, d)
  <2>1. \A k \in 0..(m - 1) : k \in 0..(m + n - 1) /\ k + 1 \in 1..m
    OBVIOUS
  <2> QED BY <1>3, <1>4, <2>1 DEF Trace
<1>8. r[m] = Run(a, d)
  BY <1>5, <1>7, OneTrace
<1> DEFINE s == [k \in 0..n |-> r[m + k]]
<1>9. Trace(s, b, n, Run(a, d))
  <2>1. s[0] = Run(a, d)
    BY <1>8
  <2>2. ASSUME NEW k \in 0..(n - 1) PROVE s[k + 1] = Apply(s[k], b[k + 1])
    <3>1. m + k \in 0..(m + n - 1) /\ k + 1 \in 1..n /\ m + (k + 1) = (m + k) + 1
      OBVIOUS
    <3>2. r[(m + k) + 1] = Apply(r[m + k], c[(m + k) + 1])
      BY <1>4, <3>1 DEF Trace
    <3>3. c[(m + k) + 1] = b[k + 1]
      BY <1>3, <3>1
    <3> QED BY <3>1, <3>2, <3>3
  <2> HIDE DEF s
  <2> QED BY <2>1, <2>2 DEF Trace
<1>10. s[n] = q[n]
  <2> HIDE DEF s
  <2> QED BY <1>6, <1>9, OneTrace
<1> QED BY <1>4, <1>6, <1>10 DEF c

-----------------------------------------------------------------------------
(* What statements make of a database *)

\* What a database consists of
Parts == {"columns", "indexes", "constraints", "sameNames", "aborted"}

\* Unless the transaction is aborted the database has these columns, indexes and
\* constraints, and schedules of one name only if `same'.
Fits(d, C, I, K, same) ==
    /\ DOMAIN d = Parts
    /\ d.aborted \in BOOLEAN
    /\ ~d.aborted => /\ d.columns = C
                     /\ d.indexes = I
                     /\ d.constraints = K
                     /\ d.sameNames => same

\* The columns create_table makes
TableColumns(t, cs) == {Column(t, c[1], c[2]) : c \in cs}

\* What each kind of statement makes of a database that fits, and when it is
\* accepted: op.create_table
LEMMA CreatesTable ==
    ASSUME NEW d, NEW C, NEW I, NEW K, NEW same, Fits(d, C, I, K, same),
           NEW t, NEW cs, NEW ks
    PROVE  LET e == Apply(d, CreateTable(t, cs, ks)) IN
           /\ Fits(e, C \cup TableColumns(t, cs), I, K \cup ks, same)
           /\ ~d.aborted /\ (\A c \in C : c.table # t)
                /\ (\A k \in ks, j \in K : k.name # j.name)
                => ~e.aborted
<1> DEFINE op == CreateTable(t, cs, ks)
           e == Apply(d, op)
<1>1. /\ op.do = "create table" /\ op.table = t /\ op.columns = cs /\ op.constraints = ks
  BY DEF CreateTable
<1> HIDE DEF op
<1>2. Effect(op, d) = [d EXCEPT !.columns = @ \cup TableColumns(t, cs),
        !.constraints = @ \cup ks]
  BY <1>1 DEF Effect, TableColumns
<1>3. ~d.aborted /\ (\A c \in C : c.table # t) /\ (\A k \in ks, j \in K : k.name # j.name)
        => Accepts(op, d)
  BY <1>1 DEF Accepts, Fits, Tables, Names
<1>4. Fits(e, C \cup TableColumns(t, cs), I, K \cup ks, same)
  BY <1>2 DEF Apply, Fits, Parts
<1>5. ~d.aborted /\ Accepts(op, d) => ~e.aborted
  BY <1>2 DEF Apply, Fits, Parts
<1> QED BY <1>3, <1>4, <1>5 DEF op

\* What a statement makes of the parts of a database, one by one and all of them
MovedTo(x, t, to) == IF x.table = t THEN [x EXCEPT !.table = to] ELSE x
ReferredTo(k, t, to) == IF k.to = t THEN [k EXCEPT !.to = to] ELSE k
Altered(c, t, cs, type) == IF c.table = t
  /\ c.name \in cs THEN [c EXCEPT !.type = type] ELSE c

Unnamed(n, things) == {x \in things : x.name # n}
AllMoved(S, t, to) == {MovedTo(x, t, to) : x \in S}
AllReferred(S, t, to) == {ReferredTo(MovedTo(k, t, to), t, to) : k \in S}
AllAltered(C, t, cs, type) == {Altered(c, t, cs, type) : c \in C}
LessColumn(C, t, n) == {c \in C : c.table = t => c.name # n}
LessIndexes(I, t, n) == {i \in I : i.table = t => n \notin i.columns}
SameLeft(same, t) == same /\ t # "celery_beat_schedules"
HasColumns(C, t, cs) == \A n \in cs : \E c \in C : c.table = t /\ c.name = n

\* An index can be made.
MayIndex(C, I, same, i) ==
    /\ HasColumns(C, i.table, i.columns)
    /\ \A j \in I : j.name # i.name
    /\ i.unique => ~same

\* op.drop_table: a foreign key from another table would refuse it.
LEMMA DropsTable ==
    ASSUME NEW d, NEW C, NEW I, NEW K, NEW same, Fits(d, C, I, K, same), NEW t
    PROVE  LET e == Apply(d, DropTable(t)) IN
           /\ Fits(e, NotOf(t, C), NotOf(t, I), NotOf(t, K), SameLeft(same, t))
           /\ ~d.aborted /\ (\E c \in C : c.table = t)
                /\ (\A k \in K : k.to = t => k.table = t) => ~e.aborted
<1> DEFINE op == DropTable(t)
           e == Apply(d, op)
<1>1. op.do = "drop table" /\ op.table = t
  BY DEF DropTable
<1> HIDE DEF op
<1>2. Effect(op, d) = [d EXCEPT !.columns = NotOf(t, d.columns),
        !.indexes = NotOf(t, d.indexes), !.constraints = NotOf(t, d.constraints),
          !.sameNames = d.sameNames /\ t # "celery_beat_schedules"]
  BY <1>1, Zenon DEF Effect
<1>3. Fits(e, NotOf(t, C), NotOf(t, I), NotOf(t, K), SameLeft(same, t))
  BY <1>2 DEF Apply, Fits, Parts, SameLeft
<1>4. Accepts(op, d) <=> (t \in Tables(d) /\ \A k \in d.constraints : k.to = t
        => k.table = t)
  BY <1>1, Zenon DEF Accepts
<1>5. ~d.aborted /\ (\E c \in C : c.table = t) /\ (\A k \in K : k.to = t => k.table = t)
        => Accepts(op, d)
  BY <1>4 DEF Fits, Tables, Names, ColumnsOf
<1>6. ~d.aborted /\ Accepts(op, d) => ~e.aborted
  BY <1>2 DEF Apply, Fits, Parts
<1> QED BY <1>3, <1>5, <1>6 DEF op

\* DROP TABLE IF EXISTS
LEMMA DropsTableIfExists ==
    ASSUME NEW d, NEW C, NEW I, NEW K, NEW same, Fits(d, C, I, K, same), NEW t
    PROVE  LET e == Apply(d, DropTableIfExists(t)) IN
           /\ Fits(e, NotOf(t, C), NotOf(t, I), NotOf(t, K), SameLeft(same, t))
           /\ ~d.aborted => ~e.aborted
<1> DEFINE op == DropTableIfExists(t)
           e == Apply(d, op)
<1>1. op.do = "drop table if exists" /\ op.table = t
  BY DEF DropTableIfExists
<1> HIDE DEF op
<1>2. Effect(op, d) = [d EXCEPT !.columns = NotOf(t, d.columns),
        !.indexes = NotOf(t, d.indexes), !.constraints = NotOf(t, d.constraints),
          !.sameNames = d.sameNames /\ t # "celery_beat_schedules"]
  BY <1>1, Zenon DEF Effect
<1>3. Fits(e, NotOf(t, C), NotOf(t, I), NotOf(t, K), SameLeft(same, t))
  BY <1>2 DEF Apply, Fits, Parts, SameLeft
<1>4. Accepts(op, d) <=> TRUE
  BY <1>1, Zenon DEF Accepts
<1>5. ~d.aborted => Accepts(op, d)
  BY <1>4 DEF Fits, Tables, Names, ColumnsOf
<1>6. ~d.aborted /\ Accepts(op, d) => ~e.aborted
  BY <1>2 DEF Apply, Fits, Parts
<1> QED BY <1>3, <1>5, <1>6 DEF op

\* op.rename_table
LEMMA RenamesTable ==
    ASSUME NEW d, NEW C, NEW I, NEW K, NEW same, Fits(d, C, I, K, same), NEW t, NEW to
    PROVE  LET e == Apply(d, RenameTable(t, to)) IN
           /\ Fits(e, AllMoved(C, t, to), AllMoved(I, t, to), AllReferred(K, t, to), same)
           /\ ~d.aborted /\ (\E c \in C : c.table = t) /\ (\A c \in C : c.table # to)
                => ~e.aborted
<1> DEFINE op == RenameTable(t, to)
           e == Apply(d, op)
<1>1. op.do = "rename table" /\ op.table = t /\ op.to = to
  BY DEF RenameTable
<1> HIDE DEF op
<1>2. Effect(op, d) = [d EXCEPT !.columns = {MovedTo(c, t, to) : c \in d.columns},
                                !.indexes = {MovedTo(i, t, to) : i \in d.indexes},
                                !.constraints = {ReferredTo(MovedTo(k, t, to), t,
                                  to) : k \in d.constraints}]
  <2>1. Effect(op, d) = [d EXCEPT !.columns
          = {MovedTo(c, op.table, op.to) : c \in d.columns},
                                  !.indexes = {MovedTo(i, op.table,
                                    op.to) : i \in d.indexes},
                                  !.constraints = {ReferredTo(MovedTo(k, op.table, op.to),
                                    op.table, op.to) : k \in d.constraints}]
    <3>1. op.do = "rename table"
      BY <1>1
    <3> QED BY <3>1, Zenon DEF Effect, MovedTo, ReferredTo
  <2>2. /\ {MovedTo(c, op.table, op.to) : c \in d.columns}
             = {MovedTo(c, t, to) : c \in d.columns}
        /\ {MovedTo(i, op.table, op.to) : i \in d.indexes}
             = {MovedTo(i, t, to) : i \in d.indexes}
        /\ {ReferredTo(MovedTo(k, op.table, op.to), op.table, op.to) : k \in d.constraints}
             = {ReferredTo(MovedTo(k, t, to), t, to) : k \in d.constraints}
    BY <1>1
  <2> HIDE DEF e
  <2> QED BY <2>1, <2>2, Zenon
<1>3. Fits(e, {MovedTo(c, t, to) : c \in C}, {MovedTo(i, t, to) : i \in I},
        {ReferredTo(MovedTo(k, t, to), t, to) : k \in K}, same)
  BY <1>2 DEF Apply, Fits, Parts
<1>4. Accepts(op, d) <=> (t \in Tables(d) /\ to \notin Tables(d))
  BY <1>1, Zenon DEF Accepts
<1>5. ~d.aborted /\ (\E c \in C : c.table = t) /\ (\A c \in C : c.table # to)
        => Accepts(op, d)
  BY <1>4 DEF Fits, Tables, Names, ColumnsOf
<1>6. ~d.aborted /\ Accepts(op, d) => ~e.aborted
  BY <1>2 DEF Apply, Fits, Parts
<1> QED BY <1>3, <1>5, <1>6 DEF op, Unnamed, AllMoved, AllReferred, AllAltered,
           LessColumn, LessIndexes, HasColumns

\* op.add_column
LEMMA AddsColumn ==
    ASSUME NEW d, NEW C, NEW I, NEW K, NEW same, Fits(d, C, I, K, same), NEW t, NEW n
    PROVE  LET e == Apply(d, AddColumn(t, n)) IN
           /\ Fits(e, C \cup {Column(t, n, "as declared")}, I, K, same)
           /\ ~d.aborted /\ (\E c \in C : c.table = t)
                /\ (\A c \in C : c.table = t => c.name # n) => ~e.aborted
<1> DEFINE op == AddColumn(t, n)
           e == Apply(d, op)
<1>1. op.do = "add column" /\ op.table = t /\ op.name = n
  BY DEF AddColumn
<1> HIDE DEF op
<1>2. Effect(op, d) = [d EXCEPT !.columns = d.columns \cup {Column(t, n, "as declared")}]
  BY <1>1, Zenon DEF Effect
<1>3. Fits(e, C \cup {Column(t, n, "as declared")}, I, K, same)
  BY <1>2 DEF Apply, Fits, Parts
<1>4. Accepts(op, d) <=> (t \in Tables(d) /\ n \notin ColumnsOf(t, d))
  BY <1>1, Zenon DEF Accepts
<1>5. ~d.aborted /\ (\E c \in C : c.table = t) /\ (\A c \in C : c.table = t => c.name # n)
        => Accepts(op, d)
  BY <1>4 DEF Fits, Tables, Names, ColumnsOf
<1>6. ~d.aborted /\ Accepts(op, d) => ~e.aborted
  BY <1>2 DEF Apply, Fits, Parts
<1> QED BY <1>3, <1>5, <1>6 DEF op

\* op.drop_column, which takes the indexes of the column along
LEMMA DropsColumn ==
    ASSUME NEW d, NEW C, NEW I, NEW K, NEW same, Fits(d, C, I, K, same), NEW t, NEW n
    PROVE  LET e == Apply(d, DropColumn(t, n)) IN
           Fits(e, LessColumn(C, t, n), LessIndexes(I, t, n), K, same)
<1> DEFINE op == DropColumn(t, n)
           e == Apply(d, op)
<1>1. op.do = "drop column" /\ op.table = t /\ op.name = n
  BY DEF DropColumn
<1> HIDE DEF op
<1>2. Effect(op, d) = [d EXCEPT !.columns = {c \in d.columns : c.table = t => c.name # n},
        !.indexes = {i \in d.indexes : i.table = t => n \notin i.columns}]
  BY <1>1, Zenon DEF Effect
<1>3. Fits(e, {c \in C : c.table = t => c.name # n},
        {i \in I : i.table = t => n \notin i.columns}, K, same)
  BY <1>2 DEF Apply, Fits, Parts
<1> QED BY <1>3 DEF op, Unnamed, AllMoved, AllReferred, AllAltered, LessColumn,
           LessIndexes, HasColumns

\* op.alter_column, for some columns
LEMMA AltersTypes ==
    ASSUME NEW d, NEW C, NEW I, NEW K, NEW same, Fits(d, C, I, K, same), NEW t, NEW cs,
           NEW type
    PROVE  LET e == Apply(d, AlterTypes(t, cs, type)) IN
           /\ Fits(e, AllAltered(C, t, cs, type), I, K, same)
           /\ ~d.aborted /\ HasColumns(C, t, cs) => ~e.aborted
<1> DEFINE op == AlterTypes(t, cs, type)
           e == Apply(d, op)
<1>1. op.do = "alter columns" /\ op.table = t /\ op.columns = cs /\ op.type = type
  BY DEF AlterTypes
<1> HIDE DEF op
<1>2. Effect(op, d) = [d EXCEPT !.columns = {Altered(c, t, cs, type) : c \in d.columns}]
  BY <1>1, Zenon DEF Effect, Altered
<1>3. Fits(e, {Altered(c, t, cs, type) : c \in C}, I, K, same)
  BY <1>2 DEF Apply, Fits, Parts
<1>4. Accepts(op, d) <=> cs \subseteq ColumnsOf(t, d)
  BY <1>1, Zenon DEF Accepts
<1>5. ~d.aborted /\ (\A n \in cs : \E c \in C : c.table = t /\ c.name = n) => Accepts(op, d)
  BY <1>4 DEF Fits, Tables, Names, ColumnsOf
<1>6. ~d.aborted /\ Accepts(op, d) => ~e.aborted
  BY <1>2 DEF Apply, Fits, Parts
<1> QED BY <1>3, <1>5, <1>6 DEF op, Unnamed, AllMoved, AllReferred, AllAltered,
           LessColumn, LessIndexes, HasColumns

\* op.create_index: a unique one is refused when names are shared.
LEMMA CreatesIndex ==
    ASSUME NEW d, NEW C, NEW I, NEW K, NEW same, Fits(d, C, I, K, same), NEW i
    PROVE  LET e == Apply(d, CreateIndex(i)) IN
           /\ Fits(e, C, I \cup {i}, K, same)
           /\ ~d.aborted /\ MayIndex(C, I, same, i) => ~e.aborted
<1> DEFINE op == CreateIndex(i)
           e == Apply(d, op)
<1>1. op.do = "create index" /\ op.index = i
  BY DEF CreateIndex
<1> HIDE DEF op
<1>2. Effect(op, d) = [d EXCEPT !.indexes = d.indexes \cup {i}]
  BY <1>1, Zenon DEF Effect
<1>3. Fits(e, C, I \cup {i}, K, same)
  BY <1>2 DEF Apply, Fits, Parts
<1>4. Accepts(op, d) <=> (i.columns \subseteq ColumnsOf(i.table, d)
        /\ i.name \notin Names(d.indexes) /\ (i.unique => ~d.sameNames))
  BY <1>1, Zenon DEF Accepts
<1>5. ~d.aborted /\ (\A n \in i.columns : \E c \in C : c.table = i.table /\ c.name = n)
        /\ (\A j \in I : j.name # i.name) /\ (i.unique => ~same) => Accepts(op, d)
  BY <1>4 DEF Fits, Tables, Names, ColumnsOf
<1>6. ~d.aborted /\ Accepts(op, d) => ~e.aborted
  BY <1>2 DEF Apply, Fits, Parts
<1> QED BY <1>3, <1>5, <1>6 DEF op, MayIndex, Unnamed, AllMoved, AllReferred, AllAltered,
           LessColumn, LessIndexes, HasColumns

\* op.drop_index
LEMMA DropsIndex ==
    ASSUME NEW d, NEW C, NEW I, NEW K, NEW same, Fits(d, C, I, K, same), NEW n
    PROVE  LET e == Apply(d, DropIndex(n)) IN
           /\ Fits(e, C, Unnamed(n, I), K, same)
           /\ ~d.aborted /\ (\E i \in I : i.name = n) => ~e.aborted
<1> DEFINE op == DropIndex(n)
           e == Apply(d, op)
<1>1. op.do = "drop index" /\ op.name = n
  BY DEF DropIndex
<1> HIDE DEF op
<1>2. Effect(op, d) = [d EXCEPT !.indexes = {i \in d.indexes : i.name # n}]
  BY <1>1, Zenon DEF Effect
<1>3. Fits(e, C, {i \in I : i.name # n}, K, same)
  BY <1>2 DEF Apply, Fits, Parts
<1>4. Accepts(op, d) <=> n \in Names(d.indexes)
  BY <1>1, Zenon DEF Accepts
<1>5. ~d.aborted /\ (\E i \in I : i.name = n) => Accepts(op, d)
  BY <1>4 DEF Fits, Tables, Names, ColumnsOf
<1>6. ~d.aborted /\ Accepts(op, d) => ~e.aborted
  BY <1>2 DEF Apply, Fits, Parts
<1> QED BY <1>3, <1>5, <1>6 DEF op, Unnamed, AllMoved, AllReferred, AllAltered,
           LessColumn, LessIndexes, HasColumns

\* ALTER INDEX ... RENAME
LEMMA RenamesIndex ==
    ASSUME NEW d, NEW C, NEW I, NEW K, NEW same, Fits(d, C, I, K, same), NEW n, NEW to
    PROVE  LET e == Apply(d, RenameIndex(n, to)) IN
           /\ Fits(e, C, Renamed(n, to, I), K, same)
           /\ ~d.aborted /\ (\E i \in I : i.name = n) /\ (\A i \in I : i.name # to)
                => ~e.aborted
<1> DEFINE op == RenameIndex(n, to)
           e == Apply(d, op)
<1>1. op.do = "rename index" /\ op.name = n /\ op.to = to
  BY DEF RenameIndex
<1> HIDE DEF op
<1>2. Effect(op, d) = [d EXCEPT !.indexes = Renamed(n, to, d.indexes)]
  BY <1>1, Zenon DEF Effect
<1>3. Fits(e, C, Renamed(n, to, I), K, same)
  BY <1>2 DEF Apply, Fits, Parts
<1>4. Accepts(op, d) <=> (n \in Names(d.indexes) /\ to \notin Names(d.indexes))
  BY <1>1, Zenon DEF Accepts
<1>5. ~d.aborted /\ (\E i \in I : i.name = n) /\ (\A i \in I : i.name # to)
        => Accepts(op, d)
  BY <1>4 DEF Fits, Tables, Names, ColumnsOf
<1>6. ~d.aborted /\ Accepts(op, d) => ~e.aborted
  BY <1>2 DEF Apply, Fits, Parts
<1> QED BY <1>3, <1>5, <1>6 DEF op

\* op.create_check_constraint
LEMMA AddsConstraint ==
    ASSUME NEW d, NEW C, NEW I, NEW K, NEW same, Fits(d, C, I, K, same), NEW k
    PROVE  LET e == Apply(d, AddConstraint(k)) IN
           /\ Fits(e, C, I, K \cup {k}, same)
           /\ ~d.aborted /\ (\E c \in C : c.table = k.table)
                /\ (\A j \in K : j.name # k.name) => ~e.aborted
<1> DEFINE op == AddConstraint(k)
           e == Apply(d, op)
<1>1. op.do = "add constraint" /\ op.constraint = k
  BY DEF AddConstraint
<1> HIDE DEF op
<1>2. Effect(op, d) = [d EXCEPT !.constraints = d.constraints \cup {k}]
  BY <1>1, Zenon DEF Effect
<1>3. Fits(e, C, I, K \cup {k}, same)
  BY <1>2 DEF Apply, Fits, Parts
<1>4. Accepts(op, d) <=> (k.table \in Tables(d) /\ k.name \notin Names(d.constraints))
  BY <1>1, Zenon DEF Accepts
<1>5. ~d.aborted /\ (\E c \in C : c.table = k.table) /\ (\A j \in K : j.name # k.name)
        => Accepts(op, d)
  BY <1>4 DEF Fits, Tables, Names, ColumnsOf
<1>6. ~d.aborted /\ Accepts(op, d) => ~e.aborted
  BY <1>2 DEF Apply, Fits, Parts
<1> QED BY <1>3, <1>5, <1>6 DEF op

\* op.create_unique_constraint, which shared names refuse
LEMMA AddsUnique ==
    ASSUME NEW d, NEW C, NEW I, NEW K, NEW same, Fits(d, C, I, K, same), NEW k
    PROVE  LET e == Apply(d, AddUnique(k)) IN
           Fits(e, C, I, K \cup {k}, same)
<1> DEFINE op == AddUnique(k)
           e == Apply(d, op)
<1>1. op.do = "add unique" /\ op.constraint = k
  BY DEF AddUnique
<1> HIDE DEF op
<1>2. Effect(op, d) = [d EXCEPT !.constraints = d.constraints \cup {k}]
  BY <1>1, Zenon DEF Effect
<1>3. Fits(e, C, I, K \cup {k}, same)
  BY <1>2 DEF Apply, Fits, Parts
<1> QED BY <1>3 DEF op

\* op.drop_constraint
LEMMA DropsConstraint ==
    ASSUME NEW d, NEW C, NEW I, NEW K, NEW same, Fits(d, C, I, K, same), NEW n
    PROVE  LET e == Apply(d, DropConstraint(n)) IN
           Fits(e, C, I, Unnamed(n, K), same)
<1> DEFINE op == DropConstraint(n)
           e == Apply(d, op)
<1>1. op.do = "drop constraint" /\ op.name = n
  BY DEF DropConstraint
<1> HIDE DEF op
<1>2. Effect(op, d) = [d EXCEPT !.constraints = {k \in d.constraints : k.name # n}]
  BY <1>1, Zenon DEF Effect
<1>3. Fits(e, C, I, {k \in K : k.name # n}, same)
  BY <1>2 DEF Apply, Fits, Parts
<1> QED BY <1>3 DEF op, Unnamed, AllMoved, AllReferred, AllAltered, LessColumn,
           LessIndexes, HasColumns

\* DROP CONSTRAINT IF EXISTS
LEMMA DropsConstraintIfThere ==
    ASSUME NEW d, NEW C, NEW I, NEW K, NEW same, Fits(d, C, I, K, same), NEW n
    PROVE  LET e == Apply(d, DropConstraintIfThere(n)) IN
           /\ Fits(e, C, I, Unnamed(n, K), same)
           /\ ~d.aborted => ~e.aborted
<1> DEFINE op == DropConstraintIfThere(n)
           e == Apply(d, op)
<1>1. op.do = "drop constraint if there" /\ op.name = n
  BY DEF DropConstraintIfThere
<1> HIDE DEF op
<1>2. Effect(op, d) = [d EXCEPT !.constraints = {k \in d.constraints : k.name # n}]
  BY <1>1, Zenon DEF Effect
<1>3. Fits(e, C, I, {k \in K : k.name # n}, same)
  BY <1>2 DEF Apply, Fits, Parts
<1>4. Accepts(op, d) <=> TRUE
  BY <1>1, Zenon DEF Accepts
<1>5. ~d.aborted => Accepts(op, d)
  BY <1>4 DEF Fits, Tables, Names, ColumnsOf
<1>6. ~d.aborted /\ Accepts(op, d) => ~e.aborted
  BY <1>2 DEF Apply, Fits, Parts
<1> QED BY <1>3, <1>5, <1>6 DEF op, Unnamed, AllMoved, AllReferred, AllAltered,
           LessColumn, LessIndexes, HasColumns

\* ALTER TABLE ... RENAME CONSTRAINT
LEMMA RenamesConstraint ==
    ASSUME NEW d, NEW C, NEW I, NEW K, NEW same, Fits(d, C, I, K, same), NEW n, NEW to
    PROVE  LET e == Apply(d, RenameConstraint(n, to)) IN
           /\ Fits(e, C, I, Renamed(n, to, K), same)
           /\ ~d.aborted /\ (\E k \in K : k.name = n) => ~e.aborted
<1> DEFINE op == RenameConstraint(n, to)
           e == Apply(d, op)
<1>1. op.do = "rename constraint" /\ op.name = n /\ op.to = to
  BY DEF RenameConstraint
<1> HIDE DEF op
<1>2. Effect(op, d) = [d EXCEPT !.constraints = Renamed(n, to, d.constraints)]
  BY <1>1, Zenon DEF Effect
<1>3. Fits(e, C, I, Renamed(n, to, K), same)
  BY <1>2 DEF Apply, Fits, Parts
<1>4. Accepts(op, d) <=> n \in Names(d.constraints)
  BY <1>1, Zenon DEF Accepts
<1>5. ~d.aborted /\ (\E k \in K : k.name = n) => Accepts(op, d)
  BY <1>4 DEF Fits, Tables, Names, ColumnsOf
<1>6. ~d.aborted /\ Accepts(op, d) => ~e.aborted
  BY <1>2 DEF Apply, Fits, Parts
<1> QED BY <1>3, <1>5, <1>6 DEF op

\* The first n of them
Firsts(f, n) == {f[k] : k \in 1..n}

\* No two of them have one name.
Apart(f, n) == \A j, k \in 1..n : f[j].name = f[k].name => j = k

Indexable(C, I, same, ix, n) == \A k \in 1..n : MayIndex(C, I, same, ix[k])

NoneNamed(I, nm, n) == {i \in I : \A k \in 1..n : i.name # nm[k]}

AllNamed(I, nm, n) == \A k \in 1..n : /\ \E i \in I : i.name = nm[k]
                                     /\ \A j \in 1..n : nm[j] = nm[k] => j = k

\* The names of columns as they are declared
Heads(cs) == {c[1] : c \in cs}

\* A run is its first statement and then the rest,
LEMMA HeadAndRest ==
    ASSUME NEW ops, NEW d, NEW n \in Nat, DOMAIN ops = 1..(n + 1)
    PROVE  Run(ops, d) = Run([k \in 1..n |-> ops[k + 1]], Apply(d, ops[1]))
<1> DEFINE rest == [k \in 1..n |-> ops[k + 1]]
           d1 == Apply(d, ops[1])
<1>1. PICK r : Trace(r, ops, n + 1, d) /\ r[n + 1] = Run(ops, d)
  BY RunIsTrace
<1>2. DOMAIN rest = 1..n /\ \A k \in 0..(n - 1) : rest[k + 1] = ops[(k + 1) + 1]
  OBVIOUS
<1> DEFINE s == [k \in 0..n |-> r[k + 1]]
<1>3. s[0] = r[1] /\ s[n] = r[n + 1] /\ \A k \in 0..(n - 1) : s[k] = r[k + 1]
        /\ s[k + 1] = r[(k + 1) + 1]
  OBVIOUS
<1>4. r[1] = d1
  <2>1. 0 \in 0..((n + 1) - 1) /\ 0 + 1 = 1
    OBVIOUS
  <2> QED BY <1>1, <2>1 DEF Trace
<1>5. \A k \in 0..(n - 1) : r[(k + 1) + 1] = Apply(r[k + 1], ops[(k + 1) + 1])
  <2>1. \A k \in 0..(n - 1) : k + 1 \in 0..((n + 1) - 1)
    OBVIOUS
  <2> QED BY <1>1, <2>1 DEF Trace
<1> HIDE DEF rest, s, d1
<1>6. Trace(s, rest, n, d1)
  BY <1>2, <1>3, <1>4, <1>5 DEF Trace
<1>7. PICK q : Trace(q, rest, n, d1) /\ q[n] = Run(rest, d1)
  BY <1>2, RunIsTrace
<1>8. s[n] = q[n]
  <2>1. n \in 0..n
    OBVIOUS
  <2> QED BY <1>6, <1>7, <2>1, OneTrace, Zenon
<1> QED BY <1>1, <1>3, <1>7, <1>8 DEF rest, d1

\* or all but the last statement and then the last.
LEMMA AllButLast ==
    ASSUME NEW ops, NEW d, NEW n \in Nat, DOMAIN ops = 1..(n + 1)
    PROVE  Run(ops, d) = Apply(Run([k \in 1..n |-> ops[k]], d), ops[n + 1])
<1> DEFINE first == [k \in 1..n |-> ops[k]]
<1>1. PICK r : Trace(r, ops, n + 1, d) /\ r[n + 1] = Run(ops, d)
  BY RunIsTrace
<1>2. DOMAIN first = 1..n /\ \A k \in 0..(n - 1) : first[k + 1] = ops[k + 1]
        /\ k \in 0..((n + 1) - 1)
  OBVIOUS
<1>3. n \in 0..((n + 1) - 1)
  OBVIOUS
<1>4. r[n + 1] = Apply(r[n], ops[n + 1])
  BY <1>1, <1>3 DEF Trace
<1> HIDE DEF first
<1>5. Trace(r, first, n, d)
  BY <1>1, <1>2 DEF Trace
<1>6. PICK q : Trace(q, first, n, d) /\ q[n] = Run(first, d)
  BY <1>2, RunIsTrace
<1>7. r[n] = q[n]
  <2>1. n \in 0..n
    OBVIOUS
  <2> QED BY <1>5, <1>6, <2>1, OneTrace, Zenon
<1> QED BY <1>1, <1>4, <1>6, <1>7 DEF first

\* A run of create_index
LEMMA CreatesIndexes ==
    ASSUME NEW d, NEW C, NEW I, NEW K, NEW same, Fits(d, C, I, K, same),
           NEW ops, NEW n \in Nat, NEW ix, DOMAIN ops = 1..n,
           \A k \in 1..n : ops[k] = CreateIndex(ix[k])
    PROVE  LET e == Run(ops, d) IN
           /\ Fits(e, C, I \cup Firsts(ix, n), K, same)
           /\ ~d.aborted /\ Indexable(C, I, same, ix, n) /\ Apart(ix, n) => ~e.aborted
<1>1. PICK r : Trace(r, ops, n, d) /\ r[n] = Run(ops, d)
  BY RunIsTrace
<1> DEFINE Cond == ~d.aborted /\ Indexable(C, I, same, ix, n) /\ Apart(ix, n)
           Good == {k \in Nat : k \in 0..n => /\ Fits(r[k], C, I \cup Firsts(ix, k), K,
                                                 same)
                                              /\ Cond => ~r[k].aborted}
<1>2. 0 \in Good
  <2>1. I \cup Firsts(ix, 0) = I /\ r[0] = d
    BY <1>1 DEF Trace, Firsts
  <2>2. Fits(r[0], C, I \cup Firsts(ix, 0), K, same)
    BY <2>1
  <2> QED BY <2>1, <2>2
<1>3. ASSUME NEW k \in Nat, k \in Good PROVE k + 1 \in Good
  <2> DEFINE J == I \cup Firsts(ix, k)
             i == ix[k + 1]
  <2> SUFFICES ASSUME k + 1 \in 0..n
               PROVE  /\ Fits(r[k + 1], C, I \cup Firsts(ix, k + 1), K, same)
                      /\ Cond => ~r[k + 1].aborted
    OBVIOUS
  <2>1. k \in 0..(n - 1) /\ k \in 0..n /\ k + 1 \in 1..n
    OBVIOUS
  <2>2. r[k + 1] = Apply(r[k], CreateIndex(i))
    BY <1>1, <2>1 DEF Trace
  <2>3. Fits(r[k], C, J, K, same) /\ (Cond => ~r[k].aborted)
    BY <1>3, <2>1
  <2>4. I \cup Firsts(ix, k + 1) = J \cup {i}
    <3>1. \A m : m \in 1..(k + 1) <=> m \in 1..k \/ m = k + 1
      OBVIOUS
    <3> QED BY <3>1 DEF Firsts
  <2>5. Cond => HasColumns(C, i.table, i.columns) /\ (i.unique => ~same)
    BY <2>1 DEF Indexable, MayIndex
  <2>6. Cond => \A j \in J : j.name # i.name
    <3> SUFFICES ASSUME Cond, NEW j \in J PROVE j.name # i.name
      OBVIOUS
    <3>1. CASE j \in I
      BY <2>1, <3>1 DEF Indexable, MayIndex
    <3>2. CASE \E m \in 1..k : j = ix[m]
      <4>1. PICK m \in 1..k : j = ix[m]
        BY <3>2
      <4>2. m \in 1..n /\ m # k + 1
        BY <2>1
      <4> QED BY <2>1, <4>1, <4>2 DEF Apart
    <3> QED BY <3>1, <3>2 DEF Firsts
  <2> HIDE DEF J, i, Cond
  <2>7. Cond => MayIndex(C, J, same, i)
    BY <2>5, <2>6 DEF MayIndex
  <2>8. /\ Fits(Apply(r[k], CreateIndex(i)), C, J \cup {i}, K, same)
        /\ ~r[k].aborted /\ MayIndex(C, J, same, i) => ~Apply(r[k], CreateIndex(i)).aborted
    BY <2>3, CreatesIndex
  <2> QED BY <2>2, <2>3, <2>4, <2>7, <2>8
<1> HIDE DEF Good
<1>4. Nat \subseteq Good
  BY <1>2, <1>3, SetInduction
<1>5. n \in Good /\ n \in 0..n
  BY <1>4
<1> QED BY <1>1, <1>5 DEF Good

\* A run of drop_index
LEMMA DropsIndexes ==
    ASSUME NEW d, NEW C, NEW I, NEW K, NEW same, Fits(d, C, I, K, same),
           NEW ops, NEW n \in Nat, NEW nm, DOMAIN ops = 1..n,
           \A k \in 1..n : ops[k] = DropIndex(nm[k])
    PROVE  LET e == Run(ops, d) IN
           /\ Fits(e, C, NoneNamed(I, nm, n), K, same)
           /\ ~d.aborted /\ AllNamed(I, nm, n) => ~e.aborted
<1>1. PICK r : Trace(r, ops, n, d) /\ r[n] = Run(ops, d)
  BY RunIsTrace
<1> DEFINE Cond == ~d.aborted /\ AllNamed(I, nm, n)
           Good == {k \in Nat : k \in 0..n => /\ Fits(r[k], C, NoneNamed(I, nm, k), K, same)
                                              /\ Cond => ~r[k].aborted}
<1>2. 0 \in Good
  <2>1. NoneNamed(I, nm, 0) = I /\ r[0] = d
    BY <1>1 DEF Trace, NoneNamed
  <2>2. Fits(r[0], C, NoneNamed(I, nm, 0), K, same)
    BY <2>1
  <2> QED BY <2>1, <2>2
<1>3. ASSUME NEW k \in Nat, k \in Good PROVE k + 1 \in Good
  <2> DEFINE name == nm[k + 1]
             J == NoneNamed(I, nm, k)
  <2> SUFFICES ASSUME k + 1 \in 0..n
               PROVE  Fits(r[k + 1], C, NoneNamed(I, nm, k + 1), K, same)
                      /\ (Cond => ~r[k + 1].aborted)
    OBVIOUS
  <2>1. k \in 0..(n - 1) /\ k \in 0..n /\ k + 1 \in 1..n
    OBVIOUS
  <2>2. r[k + 1] = Apply(r[k], DropIndex(name))
    BY <1>1, <2>1 DEF Trace
  <2>3. Fits(r[k], C, J, K, same) /\ (Cond => ~r[k].aborted)
    BY <1>3, <2>1
  <2>4. NoneNamed(I, nm, k + 1) = Unnamed(name, J)
    <3>1. \A m : m \in 1..(k + 1) <=> m \in 1..k \/ m = k + 1
      OBVIOUS
    <3> QED BY <3>1 DEF NoneNamed, Unnamed
  <2>5. Cond => \E i \in J : i.name = name
    <3> SUFFICES ASSUME Cond PROVE \E i \in J : i.name = name
      OBVIOUS
    <3>1. PICK i \in I : i.name = name
      BY <2>1 DEF AllNamed
    <3>2. \A m \in 1..k : m \in 1..n /\ m # k + 1
      BY <2>1
    <3>3. i \in J
      BY <2>1, <3>1, <3>2 DEF AllNamed, NoneNamed
    <3> QED BY <3>1, <3>3
  <2> HIDE DEF J, name, Cond
  <2>6. /\ Fits(Apply(r[k], DropIndex(name)), C, Unnamed(name, J), K, same)
        /\ ~r[k].aborted /\ (\E i \in J : i.name = name)
             => ~Apply(r[k], DropIndex(name)).aborted
    BY <2>3, DropsIndex
  <2> QED BY <2>2, <2>3, <2>4, <2>5, <2>6
<1> HIDE DEF Good
<1>4. Nat \subseteq Good
  BY <1>2, <1>3, SetInduction
<1>5. n \in Good /\ n \in 0..n
  BY <1>4
<1> QED BY <1>1, <1>5 DEF Good

\* A table and its indexes can be made.
MayCreate(C, I, K, same, t, ks, J) ==
    /\ \A c \in C : c.table # t
    /\ \A k \in ks, j \in K : k.name # j.name
    /\ \A j \in J : (\A i \in I : i.name # j.name) /\ (j.unique => ~same)

\* create_table and then its indexes
LEMMA CreatesBlock ==
    ASSUME NEW d, NEW C, NEW I, NEW K, NEW same, Fits(d, C, I, K, same),
           NEW t, NEW cs, NEW ks,
           NEW ops, NEW n \in Nat, NEW ix, DOMAIN ops = 1..(n + 1),
             ops[1] = CreateTable(t, cs, ks),
           \A k \in 1..n : /\ ops[k + 1] = CreateIndex(ix[k])
                           /\ ix[k].table = t /\ ix[k].columns \subseteq Heads(cs),
           Apart(ix, n)
    PROVE  LET e == Run(ops, d) IN
           /\ Fits(e, C \cup TableColumns(t, cs), I \cup Firsts(ix, n), K \cup ks, same)
           /\ ~d.aborted /\ MayCreate(C, I, K, same, t, ks, Firsts(ix, n)) => ~e.aborted
<1> DEFINE rest == [k \in 1..n |-> ops[k + 1]]
           d1 == Apply(d, CreateTable(t, cs, ks))
           D == C \cup TableColumns(t, cs)
           e == Run(rest, d1)
<1>1. Run(ops, d) = e
  BY HeadAndRest
<1>2. DOMAIN rest = 1..n /\ \A k \in 1..n : rest[k] = CreateIndex(ix[k])
  OBVIOUS
<1>3. /\ Fits(d1, D, I, K \cup ks, same)
      /\ ~d.aborted /\ (\A c \in C : c.table # t)
           /\ (\A k \in ks, j \in K : k.name # j.name)
           => ~d1.aborted
  BY CreatesTable, Zenon
<1>4. ASSUME NEW k \in 1..n
      PROVE  HasColumns(D, ix[k].table, ix[k].columns)
  <2> SUFFICES ASSUME NEW m \in ix[k].columns
                      PROVE \E c \in D : c.table = ix[k].table /\ c.name = m
    BY DEF HasColumns
  <2>1. PICK c \in cs : m = c[1]
    BY DEF Heads
  <2>2. Column(t, c[1], c[2]) \in D
    BY DEF TableColumns
  <2> QED BY <2>1, <2>2 DEF Column
<1>5. MayCreate(C, I, K, same, t, ks, Firsts(ix, n)) => Indexable(D, I, same, ix, n)
  <2> HIDE DEF D
  <2> QED BY <1>4 DEF Indexable, MayIndex, Firsts, MayCreate
<1> HIDE DEF rest, d1, D
<1>6. /\ Fits(e, D, I \cup Firsts(ix, n), K \cup ks, same)
      /\ ~d1.aborted /\ Indexable(D, I, same, ix, n) /\ Apart(ix, n) => ~e.aborted
  BY <1>2, <1>3, CreatesIndexes, Zenon
<1> QED BY <1>1, <1>3, <1>5, <1>6 DEF D, MayCreate

\* The indexes of a table are dropped and then the table.
LEMMA DropsBlock ==
    ASSUME NEW d, NEW C, NEW I, NEW K, NEW same, Fits(d, C, I, K, same), NEW t,
           NEW ops, NEW n \in Nat, NEW nm, DOMAIN ops = 1..(n + 1),
             ops[n + 1] = DropTable(t),
           \A k \in 1..n : ops[k] = DropIndex(nm[k])
    PROVE  LET e == Run(ops, d) IN
           /\ Fits(e, NotOf(t, C), NotOf(t, NoneNamed(I, nm, n)), NotOf(t, K),
                   SameLeft(same, t))
           /\ /\ ~d.aborted
              /\ \E c \in C : c.table = t
              /\ \A k \in K : k.to = t => k.table = t
              /\ AllNamed(I, nm, n)
              => ~e.aborted
<1> DEFINE first == [k \in 1..n |-> ops[k]]
           d1 == Run(first, d)
           J == NoneNamed(I, nm, n)
           e == Apply(d1, DropTable(t))
<1>1. Run(ops, d) = e
  BY AllButLast
<1>2. DOMAIN first = 1..n /\ \A k \in 1..n : first[k] = DropIndex(nm[k])
  OBVIOUS
<1> HIDE DEF first
<1>3. Fits(d1, C, J, K, same) /\ (~d.aborted /\ AllNamed(I, nm, n) => ~d1.aborted)
  BY <1>2, DropsIndexes, Zenon
<1> HIDE DEF d1, J
<1>4. Fits(e, NotOf(t, C), NotOf(t, J), NotOf(t, K), SameLeft(same, t))
  BY <1>3, DropsTable
<1>5. ASSUME ~d1.aborted, \E c \in C : c.table = t, \A k \in K : k.to = t => k.table = t
      PROVE  ~e.aborted
  BY <1>3, <1>5, DropsTable
<1> QED BY <1>1, <1>3, <1>4, <1>5 DEF J
-----------------------------------------------------------------------------
(* Blocks: a table and its indexes *)

\* A script that creates a table and then its indexes
IndexesOf(s) == [k \in 1..(Len(s) - 1) |-> s[k + 1].index]

\* What it makes
Cols(s) == TableColumns(s[1].table, s[1].columns)
Ixs(s) == Firsts(IndexesOf(s), Len(s) - 1)
Keys(s) == s[1].constraints

Creates(s, t) ==
    /\ Len(s) \in Nat \ {0} /\ DOMAIN s = 1..Len(s)
    /\ \E cs, ks : s[1] = CreateTable(t, cs, ks)
    /\ \A k \in 2..Len(s) : \E i : /\ s[k] = CreateIndex(i)
                                   /\ i.table = t
                                   /\ i.columns \subseteq Heads(s[1].columns)
    /\ \A j, k \in 2..Len(s) : s[j].index.name = s[k].index.name => j = k

\* Where the parts of the block are, what they are called and what they refer to
Owned(C, I, K, t, names, keys, tos) ==
    /\ \A c \in C : c.table = t
    /\ \A i \in I : i.table = t /\ i.name \in names
    /\ \A k \in K : k.table = t /\ k.name \in keys /\ k.to \in tos

Block(s, t, names, keys, tos) ==
    Creates(s, t) /\ Owned(Cols(s), Ixs(s), Keys(s), t, names, keys, tos)

\* The columns of a table are called what they are declared as.
LEMMA PlainNames ==
    ASSUME NEW cs
    PROVE  Heads(Plain(cs)) = cs
<1>1. \A x : <<x, "as declared">>[1] = x
  OBVIOUS
<1>2. ASSUME NEW x \in cs PROVE x \in {c[1] : c \in Plain(cs)}
  <2>1. <<x, "as declared">> \in Plain(cs)
    BY DEF Plain
  <2> QED BY <1>1, <2>1
<1>3. ASSUME NEW x \in {c[1] : c \in Plain(cs)} PROVE x \in cs
  <2>1. PICK y \in cs : x = <<y, "as declared">>[1]
    BY DEF Plain
  <2> QED BY <1>1, <2>1
<1> QED BY <1>2, <1>3 DEF Heads

\* The fields of an index, ...
LEMMA IndexIs ==
    /\ \A n, t, c : IndexOn(n, t, c) = CreateIndex(Index(n, t, {c}))
    /\ \A i : CreateIndex(i).index = i
    /\ \A n, t, cs : /\ Index(n, t, cs).name = n /\ Index(n, t, cs).table = t
                     /\ Index(n, t, cs).columns = cs /\ ~Index(n, t, cs).unique
    /\ \A n, t, cs : /\ UniqueIndex(n, t, cs).name = n /\ UniqueIndex(n, t, cs).table = t
                     /\ UniqueIndex(n, t, cs).columns = cs /\ UniqueIndex(n, t, cs).unique
BY DEF IndexOn, CreateIndex, Index, UniqueIndex

\* ... of a table
LEMMA TableIs ==
    \A t, cs, ks : /\ CreateTable(t, cs, ks).table = t
                   /\ CreateTable(t, cs, ks).columns = cs
                   /\ CreateTable(t, cs, ks).constraints = ks
BY DEF CreateTable

\* ... and of a constraint
LEMMA KeyIs ==
    /\ \A n, t, to : /\ Constraint(n, t, to).name = n /\ Constraint(n, t, to).table = t
                     /\ Constraint(n, t, to).to = to
    /\ \A n, t : Key(n, t).name = n /\ Key(n, t).table = t /\ Key(n, t).to = t
BY DEF Key, Constraint

\* A block from its statements one by one
LEMMA BlockOf ==
    ASSUME NEW s, NEW t, NEW names, NEW keys, NEW tos, Creates(s, t),
           \A k \in 2..Len(s) : s[k].index.name \in names,
           \A k \in Keys(s) : k.table = t /\ k.name \in keys /\ k.to \in tos
    PROVE  Block(s, t, names, keys, tos)
<1>1. s[1].table = t
  <2>1. PICK cs, ks : s[1] = CreateTable(t, cs, ks)
    BY DEF Creates
  <2> QED BY <2>1, TableIs
<1>2. \A c \in Cols(s) : c.table = t
  <2> SUFFICES ASSUME NEW c \in Cols(s) PROVE c.table = t
    OBVIOUS
  <2>1. PICK x \in s[1].columns : c = Column(t, x[1], x[2])
    BY <1>1 DEF Cols, TableColumns
  <2> QED BY <2>1 DEF Column
<1>3. \A i \in Ixs(s) : i.table = t /\ i.name \in names
  <2> SUFFICES ASSUME NEW i \in Ixs(s) PROVE i.table = t /\ i.name \in names
    OBVIOUS
  <2>1. PICK k \in 1..(Len(s) - 1) : i = s[k + 1].index
    BY DEF Ixs, Firsts, IndexesOf
  <2>2. k + 1 \in 2..Len(s)
    BY DEF Creates
  <2>3. s[k + 1] = CreateIndex(s[k + 1].index) /\ s[k + 1].index.table = t
    <3>1. PICK j : s[k + 1] = CreateIndex(j) /\ j.table = t
      BY <2>2 DEF Creates
    <3> QED BY <3>1, IndexIs
  <2> QED BY <2>1, <2>2, <2>3
<1> QED BY <1>2, <1>3 DEF Block, Owned

\* What the blocks of the revisions call their indexes and constraints
ListedInfoIndexes == {"idx_listed_info_code", "idx_listed_info_date"}
ListedInfoKeys == {"listed_info_pkey"}

\* The tables of the revisions are such blocks.
LEMMA ListedInfoBlock ==
    Block(CreateListedInfo, "listed_info", ListedInfoIndexes, ListedInfoKeys,
      {"listed_info"})
<1> DEFINE s == CreateListedInfo
           cols == Plain(ListedInfoColumns)
           keys == {Key("listed_info_pkey", "listed_info")}
           i2 == Index("idx_listed_info_code", "listed_info", {"code"})
           i3 == Index("idx_listed_info_date", "listed_info", {"date"})
<1>1. Len(s) = 3 /\ DOMAIN s = 1..3
  BY DEF CreateListedInfo
<1>2. s[1] = CreateTable("listed_info", cols, keys)
  BY DEF CreateListedInfo
<1>3. s[2] = CreateIndex(i2) /\ s[3] = CreateIndex(i3)
  BY IndexIs DEF CreateListedInfo
<1>4. {"code", "date"} \subseteq Heads(s[1].columns)
  <2>1. {"code", "date"} \subseteq Heads(Plain(ListedInfoColumns))
    BY PlainNames DEF ListedInfoColumns
  <2>2. Heads(Plain(ListedInfoColumns)) \subseteq Heads(cols)
    BY DEF Heads
  <2> HIDE DEF cols
  <2> QED BY <1>2, <2>1, <2>2, TableIs
<1>5. \A i \in {i2, i3} : i.table = "listed_info" /\ i.name \in ListedInfoIndexes
        /\ i.columns \subseteq {"code", "date"}
  BY IndexIs DEF ListedInfoIndexes
<1>6. \A k \in 2..3 : \E i \in {i2, i3} : s[k] = CreateIndex(i)
  BY <1>3
<1>7. \A j, k \in 2..3 : s[j].index.name = s[k].index.name => j = k
  <2>1. s[2].index.name = "idx_listed_info_code" /\ s[3].index.name = "idx_listed_info_date"
    BY <1>3, IndexIs
  <2> HIDE DEF s
  <2> QED BY <2>1
<1>8. \A k \in Keys(s) : k.table = "listed_info" /\ k.name \in ListedInfoKeys
        /\ k.to \in {"listed_info"}
  <2>1. Keys(s) = keys
    BY <1>2, TableIs DEF Keys
  <2> QED BY <2>1, KeyIs DEF ListedInfoKeys
<1> HIDE DEF s, i2, i3, cols, keys
<1>9. Creates(s, "listed_info")
  BY <1>1, <1>2, <1>4, <1>5, <1>6, <1>7 DEF Creates
<1>10. \A k \in 2..3 : s[k].index.name \in ListedInfoIndexes
  BY <1>5, <1>6, IndexIs
<1> QED BY <1>1, <1>8, <1>9, <1>10, BlockOf DEF s

PriceIndexes == {"ix_prices_id", "ix_prices_ticker_symbol", "ix_prices_timestamp"}
PriceKeys == {"prices_pkey", "uq_prices_ticker_timestamp"}

LEMMA PriceBlock ==
    Block(CreatePrices, "prices", PriceIndexes, PriceKeys, {"prices"})
<1> DEFINE s == CreatePrices
           cols == Plain({"id", "ticker_symbol", "timestamp", "open", "high", "low",
             "close", "volume", "adjusted_close", "created_at"})
           keys == {Key("prices_pkey", "prices"),
             Key("uq_prices_ticker_timestamp", "prices")}
           i2 == Index("ix_prices_id", "prices", {"id"})
           i3 == Index("ix_prices_ticker_symbol", "prices", {"ticker_symbol"})
           i4 == Index("ix_prices_timestamp", "prices", {"timestamp"})
<1>1. Len(s) = 4 /\ DOMAIN s = 1..4
  BY DEF CreatePrices
<1>2. s[1] = CreateTable("prices", cols, keys)
  BY DEF CreatePrices
<1>3. s[2] = CreateIndex(i2) /\ s[3] = CreateIndex(i3) /\ s[4] = CreateIndex(i4)
  BY IndexIs DEF CreatePrices
<1>4. {"id", "ticker_symbol", "timestamp"} \subseteq Heads(s[1].columns)
  <2>1. {"id", "ticker_symbol", "timestamp"}
          \subseteq Heads(Plain({"id", "ticker_symbol", "timestamp", "open", "high",
            "low", "close", "volume", "adjusted_close", "created_at"}))
    BY PlainNames
  <2>2. Heads(Plain({"id", "ticker_symbol", "timestamp", "open", "high", "low", "close",
          "volume", "adjusted_close", "created_at"})) \subseteq Heads(cols)
    BY DEF Heads
  <2> HIDE DEF cols
  <2> QED BY <1>2, <2>1, <2>2, TableIs
<1>5. \A i \in {i2, i3, i4} : i.table = "prices" /\ i.name \in PriceIndexes
        /\ i.columns \subseteq {"id", "ticker_symbol", "timestamp"}
  BY IndexIs DEF PriceIndexes
<1>6. \A k \in 2..4 : \E i \in {i2, i3, i4} : s[k] = CreateIndex(i)
  BY <1>3
<1>7. \A j, k \in 2..4 : s[j].index.name = s[k].index.name => j = k
  <2>1. s[2].index.name = "ix_prices_id" /\ s[3].index.name = "ix_prices_ticker_symbol"
          /\ s[4].index.name = "ix_prices_timestamp"
    BY <1>3, IndexIs
  <2> HIDE DEF s
  <2> QED BY <2>1
<1>8. \A k \in Keys(s) : k.table = "prices" /\ k.name \in PriceKeys /\ k.to \in {"prices"}
  <2>1. Keys(s) = keys
    BY <1>2, TableIs DEF Keys
  <2> QED BY <2>1, KeyIs DEF PriceKeys
<1> HIDE DEF s, i2, i3, i4, cols, keys
<1>9. Creates(s, "prices")
  BY <1>1, <1>2, <1>4, <1>5, <1>6, <1>7 DEF Creates
<1>10. \A k \in 2..4 : s[k].index.name \in PriceIndexes
  BY <1>5, <1>6, IndexIs
<1> QED BY <1>1, <1>8, <1>9, <1>10, BlockOf DEF s

StockIndexes == {"ix_stocks_id", "ix_stocks_market", "ix_stocks_sector",
  "ix_stocks_ticker_symbol"}
StockKeys == {"stocks_pkey", "uq_stocks_ticker_symbol"}

LEMMA StockBlock ==
    Block(CreateStocks, "stocks", StockIndexes, StockKeys, {"stocks"})
<1> DEFINE s == CreateStocks
           cols == Plain({"id", "ticker_symbol", "company_name", "market", "sector",
             "industry", "market_cap", "description", "created_at", "updated_at"})
           keys == {Key("stocks_pkey", "stocks"), Key("uq_stocks_ticker_symbol", "stocks")}
           i2 == Index("ix_stocks_id", "stocks", {"id"})
           i3 == Index("ix_stocks_market", "stocks", {"market"})
           i4 == Index("ix_stocks_sector", "stocks", {"sector"})
           i5 == Index("ix_stocks_ticker_symbol", "stocks", {"ticker_symbol"})
<1>1. Len(s) = 5 /\ DOMAIN s = 1..5
  BY DEF CreateStocks
<1>2. s[1] = CreateTable("stocks", cols, keys)
  BY DEF CreateStocks
<1>3. s[2] = CreateIndex(i2) /\ s[3] = CreateIndex(i3) /\ s[4] = CreateIndex(i4)
        /\ s[5] = CreateIndex(i5)
  BY IndexIs DEF CreateStocks
<1>4. {"id", "market", "sector", "ticker_symbol"} \subseteq Heads(s[1].columns)
  <2>1. {"id", "market", "sector", "ticker_symbol"}
          \subseteq Heads(Plain({"id", "ticker_symbol", "company_name", "market",
            "sector", "industry", "market_cap", "description", "created_at", "updated_at"}))
    BY PlainNames
  <2>2. Heads(Plain({"id", "ticker_symbol", "company_name", "market", "sector",
          "industry", "market_cap", "description", "created_at", "updated_at"}))
            \subseteq Heads(cols)
    BY DEF Heads
  <2> HIDE DEF cols
  <2> QED BY <1>2, <2>1, <2>2, TableIs
<1>5. \A i \in {i2, i3, i4, i5} : i.table = "stocks" /\ i.name \in StockIndexes
        /\ i.columns \subseteq {"id", "market", "sector", "ticker_symbol"}
  BY IndexIs DEF StockIndexes
<1>6. \A k \in 2..5 : \E i \in {i2, i3, i4, i5} : s[k] = CreateIndex(i)
  BY <1>3
<1>7. \A j, k \in 2..5 : s[j].index.name = s[k].index.name => j = k
  <2>1. s[2].index.name = "ix_stocks_id" /\ s[3].index.name = "ix_stocks_market"
          /\ s[4].index.name = "ix_stocks_sector"
               /\ s[5].index.name = "ix_stocks_ticker_symbol"
    BY <1>3, IndexIs
  <2> HIDE DEF s
  <2> QED BY <2>1
<1>8. \A k \in Keys(s) : k.table = "stocks" /\ k.name \in StockKeys /\ k.to \in {"stocks"}
  <2>1. Keys(s) = keys
    BY <1>2, TableIs DEF Keys
  <2> QED BY <2>1, KeyIs DEF StockKeys
<1> HIDE DEF s, i2, i3, i4, i5, cols, keys
<1>9. Creates(s, "stocks")
  BY <1>1, <1>2, <1>4, <1>5, <1>6, <1>7 DEF Creates
<1>10. \A k \in 2..5 : s[k].index.name \in StockIndexes
  BY <1>5, <1>6, IndexIs
<1> QED BY <1>1, <1>8, <1>9, <1>10, BlockOf DEF s

BeatIndexes == {"ix_celery_beat_schedules_enabled", "ix_celery_beat_schedules_name"}
BeatKeys == {"celery_beat_schedules_pkey"}

LEMMA BeatBlock ==
    Block(CreateBeatSchedules, "celery_beat_schedules", BeatIndexes, BeatKeys,
      {"celery_beat_schedules"})
<1> DEFINE s == CreateBeatSchedules
           cols == Plain({"id", "name", "task_name", "cron_expression", "enabled", "args",
             "kwargs", "description", "created_at", "updated_at"})
           keys == {Key("celery_beat_schedules_pkey", "celery_beat_schedules")}
           i2 == Index("ix_celery_beat_schedules_enabled", "celery_beat_schedules",
             {"enabled"})
           i3 == UniqueIndex("ix_celery_beat_schedules_name", "celery_beat_schedules",
             {"name"})
<1>1. Len(s) = 3 /\ DOMAIN s = 1..3
  BY DEF CreateBeatSchedules
<1>2. s[1] = CreateTable("celery_beat_schedules", cols, keys)
  BY DEF CreateBeatSchedules
<1>3. s[2] = CreateIndex(i2) /\ s[3] = CreateIndex(i3)
  BY IndexIs DEF CreateBeatSchedules
<1>4. {"enabled", "name"} \subseteq Heads(s[1].columns)
  <2>1. {"enabled", "name"} \subseteq Heads(Plain({"id", "name", "task_name",
          "cron_expression", "enabled", "args", "kwargs", "description", "created_at",
            "updated_at"}))
    BY PlainNames
  <2>2. Heads(Plain({"id", "name", "task_name", "cron_expression", "enabled", "args",
          "kwargs", "description", "created_at", "updated_at"})) \subseteq Heads(cols)
    BY DEF Heads
  <2> HIDE DEF cols
  <2> QED BY <1>2, <2>1, <2>2, TableIs
<1>5. \A i \in {i2, i3} : i.table = "celery_beat_schedules" /\ i.name \in BeatIndexes
        /\ i.columns \subseteq {"enabled", "name"}
  BY IndexIs DEF BeatIndexes
<1>6. \A k \in 2..3 : \E i \in {i2, i3} : s[k] = CreateIndex(i)
  BY <1>3
<1>7. \A j, k \in 2..3 : s[j].index.name = s[k].index.name => j = k
  <2>1. s[2].index.name = "ix_celery_beat_schedules_enabled"
          /\ s[3].index.name = "ix_celery_beat_schedules_name"
    BY <1>3, IndexIs
  <2> HIDE DEF s
  <2> QED BY <2>1
<1>8. \A k \in Keys(s) : k.table = "celery_beat_schedules" /\ k.name \in BeatKeys
        /\ k.to \in {"celery_beat_schedules"}
  <2>1. Keys(s) = keys
    BY <1>2, TableIs DEF Keys
  <2> QED BY <2>1, KeyIs DEF BeatKeys
<1> HIDE DEF s, i2, i3, cols, keys
<1>9. Creates(s, "celery_beat_schedules")
  BY <1>1, <1>2, <1>4, <1>5, <1>6, <1>7 DEF Creates
<1>10. \A k \in 2..3 : s[k].index.name \in BeatIndexes
  BY <1>5, <1>6, IndexIs
<1> QED BY <1>1, <1>8, <1>9, <1>10, BlockOf DEF s

LogIndexes == {"ix_task_execution_logs_schedule_id", "ix_task_execution_logs_started_at",
  "ix_task_execution_logs_status", "ix_task_execution_logs_task_id",
    "ix_task_execution_logs_task_name"}
LogKeys == {"task_execution_logs_pkey", "task_execution_logs_schedule_id_fkey"}

LEMMA LogBlock ==
    Block(CreateTaskLogs, "task_execution_logs", LogIndexes, LogKeys,
      {"task_execution_logs", "celery_beat_schedules"})
<1> DEFINE s == CreateTaskLogs
           cols == Plain(TaskExecutionLog.columns)
           keys == {Key("task_execution_logs_pkey", "task_execution_logs"),
             Constraint("task_execution_logs_schedule_id_fkey", "task_execution_logs",
               "celery_beat_schedules")}
           i2 == Index("ix_task_execution_logs_schedule_id", "task_execution_logs",
             {"schedule_id"})
           i3 == Index("ix_task_execution_logs_started_at", "task_execution_logs",
             {"started_at"})
           i4 == Index("ix_task_execution_logs_status", "task_execution_logs", {"status"})
           i5 == Index("ix_task_execution_logs_task_id", "task_execution_logs", {"task_id"})
           i6 == Index("ix_task_execution_logs_task_name", "task_execution_logs",
             {"task_name"})
<1>1. Len(s) = 6 /\ DOMAIN s = 1..6
  BY DEF CreateTaskLogs
<1>2. s[1] = CreateTable("task_execution_logs", cols, keys)
  BY DEF CreateTaskLogs
<1>3. s[2] = CreateIndex(i2) /\ s[3] = CreateIndex(i3) /\ s[4] = CreateIndex(i4)
        /\ s[5] = CreateIndex(i5) /\ s[6] = CreateIndex(i6)
  BY IndexIs DEF CreateTaskLogs
<1>4. {"schedule_id", "started_at", "status", "task_id", "task_name"}
        \subseteq Heads(s[1].columns)
  <2>1. {"schedule_id", "started_at", "status", "task_id", "task_name"}
          \subseteq Heads(Plain(TaskExecutionLog.columns))
    BY PlainNames DEF TaskExecutionLog
  <2>2. Heads(Plain(TaskExecutionLog.columns)) \subseteq Heads(cols)
    BY DEF Heads
  <2> HIDE DEF cols
  <2> QED BY <1>2, <2>1, <2>2, TableIs
<1>5. \A i \in {i2, i3, i4, i5, i6} : i.table = "task_execution_logs"
        /\ i.name \in LogIndexes /\ i.columns
             \subseteq {"schedule_id", "started_at", "status", "task_id", "task_name"}
  BY IndexIs DEF LogIndexes
<1>6. \A k \in 2..6 : \E i \in {i2, i3, i4, i5, i6} : s[k] = CreateIndex(i)
  BY <1>3
<1>7. \A j, k \in 2..6 : s[j].index.name = s[k].index.name => j = k
  <2>1. s[2].index.name = "ix_task_execution_logs_schedule_id"
          /\ s[3].index.name = "ix_task_execution_logs_started_at"
               /\ s[4].index.name = "ix_task_execution_logs_status"
                    /\ s[5].index.name = "ix_task_execution_logs_task_id"
                         /\ s[6].index.name = "ix_task_execution_logs_task_name"
    BY <1>3, IndexIs
  <2> HIDE DEF s
  <2> QED BY <2>1
<1>8. \A k \in Keys(s) : k.table = "task_execution_logs" /\ k.name \in LogKeys
        /\ k.to \in {"task_execution_logs", "celery_beat_schedules"}
  <2>1. Keys(s) = keys
    BY <1>2, TableIs DEF Keys
  <2> QED BY <2>1, KeyIs DEF LogKeys
<1> HIDE DEF s, i2, i3, i4, i5, i6, cols, keys
<1>9. Creates(s, "task_execution_logs")
  BY <1>1, <1>2, <1>4, <1>5, <1>6, <1>7 DEF Creates
<1>10. \A k \in 2..6 : s[k].index.name \in LogIndexes
  BY <1>5, <1>6, IndexIs
<1> QED BY <1>1, <1>8, <1>9, <1>10, BlockOf DEF s

TradeIndexes == {"idx_trades_spec_code", "idx_trades_spec_date",
  "idx_trades_spec_section", "idx_trades_spec_date_section"}
TradeKeys == {"trades_spec_pkey"}

LEMMA TradeBlock ==
    ASSUME NEW type
    PROVE  Block(TradesSpec(type), "trades_spec", TradeIndexes, TradeKeys, {"trades_spec"})
<1> DEFINE s == TradesSpec(type)
           cols == Plain({"code", "trade_date", "section", "created_at", "updated_at"})
             \cup Amounts \X {type}
           keys == {Key("trades_spec_pkey", "trades_spec")}
           i2 == Index("idx_trades_spec_code", "trades_spec", {"code"})
           i3 == Index("idx_trades_spec_date", "trades_spec", {"trade_date"})
           i4 == Index("idx_trades_spec_section", "trades_spec", {"section"})
           i5 == Index("idx_trades_spec_date_section", "trades_spec",
             {"trade_date", "section"})
<1>1. Len(s) = 5 /\ DOMAIN s = 1..5
  BY DEF TradesSpec
<1>2. s[1] = CreateTable("trades_spec", cols, keys)
  BY DEF TradesSpec
<1>3. s[2] = CreateIndex(i2) /\ s[3] = CreateIndex(i3) /\ s[4] = CreateIndex(i4)
        /\ s[5] = CreateIndex(i5)
  BY IndexIs DEF TradesSpec
<1>4. {"code", "section", "trade_date"} \subseteq Heads(s[1].columns)
  <2>1. {"code", "section", "trade_date"}
          \subseteq Heads(Plain({"code", "trade_date", "section", "created_at",
            "updated_at"}))
    BY PlainNames
  <2>2. Heads(Plain({"code", "trade_date", "section", "created_at", "updated_at"}))
          \subseteq Heads(cols)
    BY DEF Heads
  <2> HIDE DEF cols
  <2> QED BY <1>2, <2>1, <2>2, TableIs
<1>5. \A i \in {i2, i3, i4, i5} : i.table = "trades_spec" /\ i.name \in TradeIndexes
        /\ i.columns \subseteq {"code", "section", "trade_date"}
  BY IndexIs DEF TradeIndexes
<1>6. \A k \in 2..5 : \E i \in {i2, i3, i4, i5} : s[k] = CreateIndex(i)
  BY <1>3
<1>7. \A j, k \in 2..5 : s[j].index.name = s[k].index.name => j = k
  <2>1. s[2].index.name = "idx_trades_spec_code"
          /\ s[3].index.name = "idx_trades_spec_date"
               /\ s[4].index.name = "idx_trades_spec_section"
                    /\ s[5].index.name = "idx_trades_spec_date_section"
    BY <1>3, IndexIs
  <2> HIDE DEF s
  <2> QED BY <2>1
<1>8. \A k \in Keys(s) : k.table = "trades_spec" /\ k.name \in TradeKeys
        /\ k.to \in {"trades_spec"}
  <2>1. Keys(s) = keys
    BY <1>2, TableIs DEF Keys
  <2> QED BY <2>1, KeyIs DEF TradeKeys
<1> HIDE DEF s, i2, i3, i4, i5, cols, keys
<1>9. Creates(s, "trades_spec")
  BY <1>1, <1>2, <1>4, <1>5, <1>6, <1>7 DEF Creates
<1>10. \A k \in 2..5 : s[k].index.name \in TradeIndexes
  BY <1>5, <1>6, IndexIs
<1> QED BY <1>1, <1>8, <1>9, <1>10, BlockOf DEF s

MarginIndexes == {"idx_weekly_margin_interest_code", "idx_weekly_margin_interest_date",
  "idx_weekly_margin_interest_date_issue_type", "idx_weekly_margin_interest_issue_type"}
MarginKeys == {"weekly_margin_interest_pkey"}

LEMMA MarginBlock ==
    Block(WeeklyMarginInterest, "weekly_margin_interest", MarginIndexes, MarginKeys,
      {"weekly_margin_interest"})
<1> DEFINE s == WeeklyMarginInterest
           cols == Plain({"code", "date", "short_margin_trade_volume",
             "long_margin_trade_volume", "short_negotiable_margin_trade_volume",
               "long_negotiable_margin_trade_volume",
                 "short_standardized_margin_trade_volume",
                   "long_standardized_margin_trade_volume", "issue_type", "created_at",
                     "updated_at"})
           keys == {Key("weekly_margin_interest_pkey", "weekly_margin_interest")}
           i2 == Index("idx_weekly_margin_interest_code", "weekly_margin_interest",
             {"code"})
           i3 == Index("idx_weekly_margin_interest_date", "weekly_margin_interest",
             {"date"})
           i4 == Index("idx_weekly_margin_interest_date_issue_type",
             "weekly_margin_interest", {"date", "issue_type"})
           i5 == Index("idx_weekly_margin_interest_issue_type", "weekly_margin_interest",
             {"issue_type"})
<1>1. Len(s) = 5 /\ DOMAIN s = 1..5
  BY DEF WeeklyMarginInterest
<1>2. s[1] = CreateTable("weekly_margin_interest", cols, keys)
  BY DEF WeeklyMarginInterest
<1>3. s[2] = CreateIndex(i2) /\ s[3] = CreateIndex(i3) /\ s[4] = CreateIndex(i4)
        /\ s[5] = CreateIndex(i5)
  BY IndexIs DEF WeeklyMarginInterest
<1>4. {"code", "date", "issue_type"} \subseteq Heads(s[1].columns)
  <2>1. {"code", "date", "issue_type"}
          \subseteq Heads(Plain({"code", "date", "short_margin_trade_volume",
            "long_margin_trade_volume", "short_negotiable_margin_trade_volume",
              "long_negotiable_margin_trade_volume",
                "short_standardized_margin_trade_volume",
                  "long_standardized_margin_trade_volume", "issue_type", "created_at",
                    "updated_at"}))
    BY PlainNames
  <2>2. Heads(Plain({"code", "date", "short_margin_trade_volume",
          "long_margin_trade_volume", "short_negotiable_margin_trade_volume",
            "long_negotiable_margin_trade_volume",
              "short_standardized_margin_trade_volume",
                "long_standardized_margin_trade_volume", "issue_type", "created_at",
                  "updated_at"})) \subseteq Heads(cols)
    BY DEF Heads
  <2> HIDE DEF cols
  <2> QED BY <1>2, <2>1, <2>2, TableIs
<1>5. \A i \in {i2, i3, i4, i5} : i.table = "weekly_margin_interest"
        /\ i.name \in MarginIndexes /\ i.columns \subseteq {"code", "date", "issue_type"}
  BY IndexIs DEF MarginIndexes
<1>6. \A k \in 2..5 : \E i \in {i2, i3, i4, i5} : s[k] = CreateIndex(i)
  BY <1>3
<1>7. \A j, k \in 2..5 : s[j].index.name = s[k].index.name => j = k
  <2>1. s[2].index.name = "idx_weekly_margin_interest_code"
          /\ s[3].index.name = "idx_weekly_margin_interest_date"
               /\ s[4].index.name = "idx_weekly_margin_interest_date_issue_type"
                    /\ s[5].index.name = "idx_weekly_margin_interest_issue_type"
    BY <1>3, IndexIs
  <2> HIDE DEF s
  <2> QED BY <2>1
<1>8. \A k \in Keys(s) : k.table = "weekly_margin_interest" /\ k.name \in MarginKeys
        /\ k.to \in {"weekly_margin_interest"}
  <2>1. Keys(s) = keys
    BY <1>2, TableIs DEF Keys
  <2> QED BY <2>1, KeyIs DEF MarginKeys
<1> HIDE DEF s, i2, i3, i4, i5, cols, keys
<1>9. Creates(s, "weekly_margin_interest")
  BY <1>1, <1>2, <1>4, <1>5, <1>6, <1>7 DEF Creates
<1>10. \A k \in 2..5 : s[k].index.name \in MarginIndexes
  BY <1>5, <1>6, IndexIs
<1> QED BY <1>1, <1>8, <1>9, <1>10, BlockOf DEF s

AnnouncementIndexes == {"ix_announcements_code", "ix_announcements_date"}
AnnouncementKeys == {"announcements_pkey", "uq_announcement"}

LEMMA AnnouncementBlock ==
    ASSUME NEW code
    PROVE  Block(Announcements(code), "announcements", AnnouncementIndexes,
           AnnouncementKeys, {"announcements"})
<1> DEFINE s == Announcements(code)
           cols == Plain({"date", "fiscal_quarter", "company_name", "fiscal_year",
             "sector_name", "section"}) \cup {<<"code", code>>}
           keys == {Key("announcements_pkey", "announcements"),
             Key("uq_announcement", "announcements")}
           i2 == Index("ix_announcements_code", "announcements", {"code"})
           i3 == Index("ix_announcements_date", "announcements", {"date"})
<1>1. Len(s) = 3 /\ DOMAIN s = 1..3
  BY DEF Announcements
<1>2. s[1] = CreateTable("announcements", cols, keys)
  BY DEF Announcements
<1>3. s[2] = CreateIndex(i2) /\ s[3] = CreateIndex(i3)
  BY IndexIs DEF Announcements
<1>4. {"code", "date"} \subseteq Heads(s[1].columns)
  <2> DEFINE plain == Plain({"date", "fiscal_quarter", "company_name", "fiscal_year",
             "sector_name", "section"})
  <2>1. "date" \in Heads(plain)
    BY PlainNames
  <2>2. Heads(plain) \subseteq Heads(cols)
    BY DEF Heads
  <2>3. "code" \in Heads(cols)
    <3>1. <<"code", code>> \in cols /\ <<"code", code>>[1] = "code"
      OBVIOUS
    <3> QED BY <3>1 DEF Heads
  <2> HIDE DEF cols, plain
  <2> QED BY <1>2, <2>1, <2>2, <2>3, TableIs
<1>5. \A i \in {i2, i3} : i.table = "announcements" /\ i.name \in AnnouncementIndexes
        /\ i.columns \subseteq {"code", "date"}
  BY IndexIs DEF AnnouncementIndexes
<1>6. \A k \in 2..3 : \E i \in {i2, i3} : s[k] = CreateIndex(i)
  BY <1>3
<1>7. \A j, k \in 2..3 : s[j].index.name = s[k].index.name => j = k
  <2>1. s[2].index.name = "ix_announcements_code"
          /\ s[3].index.name = "ix_announcements_date"
    BY <1>3, IndexIs
  <2> HIDE DEF s
  <2> QED BY <2>1
<1>8. \A k \in Keys(s) : k.table = "announcements" /\ k.name \in AnnouncementKeys
        /\ k.to \in {"announcements"}
  <2>1. Keys(s) = keys
    BY <1>2, TableIs DEF Keys
  <2> QED BY <2>1, KeyIs DEF AnnouncementKeys
<1> HIDE DEF s, i2, i3, cols, keys
<1>9. Creates(s, "announcements")
  BY <1>1, <1>2, <1>4, <1>5, <1>6, <1>7 DEF Creates
<1>10. \A k \in 2..3 : s[k].index.name \in AnnouncementIndexes
  BY <1>5, <1>6, IndexIs
<1> QED BY <1>1, <1>8, <1>9, <1>10, BlockOf DEF s

\* Nothing of it is in the table or refers to it, or is called like its parts.
Foreign(C, I, K, t, names, keys) ==
    /\ \A c \in C : c.table # t
    /\ \A i \in I : i.table # t /\ i.name \notin names
    /\ \A k \in K : k.table # t /\ k.to # t /\ k.name \notin keys

\* Unique indexes, if names are not shared
Free(J, same) == \A i \in J : i.unique => ~same

\* A block is created where nothing of it is there.
LEMMA BlockCreated ==
    ASSUME NEW d, NEW C, NEW I, NEW K, NEW same, Fits(d, C, I, K, same),
           NEW s, NEW t, NEW names, NEW keys, NEW tos, Block(s, t, names, keys, tos)
    PROVE  LET e == Run(s, d) IN
           /\ Fits(e, C \cup Cols(s), I \cup Ixs(s), K \cup Keys(s), same)
           /\ ~d.aborted /\ Foreign(C, I, K, t, names, keys) /\ Free(Ixs(s), same)
                => ~e.aborted
<1> DEFINE n == Len(s) - 1
           ix == IndexesOf(s)
           e == Run(s, d)
<1>1. n \in Nat /\ n + 1 = Len(s) /\ DOMAIN s = 1..(n + 1)
  BY DEF Block, Creates
<1>2. PICK cs, ks : s[1] = CreateTable(t, cs, ks)
  BY DEF Block, Creates
<1>3. s[1].table = t /\ cs = s[1].columns /\ ks = s[1].constraints
  BY <1>2, TableIs
<1>4. Cols(s) = TableColumns(t, cs) /\ Keys(s) = ks /\ Ixs(s) = Firsts(ix, n)
  BY <1>3 DEF Cols, Keys, Ixs
<1>5. ASSUME NEW k \in 1..n
      PROVE  s[k + 1] = CreateIndex(ix[k]) /\ ix[k].table = t
             /\ ix[k].columns \subseteq Heads(cs)
  <2>1. k + 1 \in 2..Len(s) /\ k \in 1..(Len(s) - 1)
    BY <1>1
  <2>2. PICK i : s[k + 1] = CreateIndex(i) /\ i.table = t
             /\ i.columns \subseteq Heads(s[1].columns)
    BY <2>1 DEF Block, Creates
  <2>3. ix[k] = s[k + 1].index
    BY <2>1 DEF IndexesOf
  <2> HIDE DEF ix
  <2> QED BY <1>3, <2>2, <2>3, IndexIs
<1>6. Apart(ix, n)
  <2> SUFFICES ASSUME NEW j \in 1..n, NEW k \in 1..n, ix[j].name = ix[k].name PROVE j = k
    BY DEF Apart
  <2>1. j + 1 \in 2..Len(s) /\ k + 1 \in 2..Len(s)
    BY <1>1
  <2>2. ix[j] = s[j + 1].index /\ ix[k] = s[k + 1].index
    BY DEF IndexesOf
  <2>3. s[j + 1].index.name = s[k + 1].index.name => j + 1 = k + 1
    BY <2>1 DEF Block, Creates
  <2> HIDE DEF ix
  <2> QED BY <1>1, <2>2, <2>3
<1> HIDE DEF n, ix
<1>7. /\ Fits(e, C \cup TableColumns(t, cs), I \cup Firsts(ix, n), K \cup ks, same)
      /\ ~d.aborted /\ MayCreate(C, I, K, same, t, ks, Firsts(ix, n)) => ~e.aborted
  BY <1>1, <1>2, <1>5, <1>6, CreatesBlock
<1>8. Foreign(C, I, K, t, names, keys) /\ Free(Ixs(s), same)
        => MayCreate(C, I, K, same, t, ks, Firsts(ix, n))
  BY <1>4 DEF Foreign, MayCreate, Block, Owned, Free
<1> QED BY <1>4, <1>7, <1>8

\* A script that drops the indexes of a table and then the table
Drops(s, t, names) ==
    /\ Len(s) \in Nat \ {0} /\ DOMAIN s = 1..Len(s)
    /\ s[Len(s)] = DropTable(t)
    /\ \A k \in 1..(Len(s) - 1) : s[k] = DropIndex(s[k].name) /\ s[k].name \in names

\* The dropped indexes are there, each once.
NamesOnce(s, J) ==
    \A k \in 1..(Len(s) - 1) : /\ \E j \in J : j.name = s[k].name
                               /\ \A m \in 1..(Len(s) - 1) : s[m].name = s[k].name => m = k

\* A block is dropped from what else there is.
LEMMA BlockDropped ==
    ASSUME NEW d, NEW C, NEW I, NEW K, NEW same, NEW D, NEW J, NEW L,
           NEW t, NEW names, NEW keys, NEW tos, Owned(D, J, L, t, names, keys, tos),
           Foreign(C, I, K, t, names, keys), Fits(d, C \cup D, I \cup J, K \cup L, same),
           NEW s, Drops(s, t, names)
    PROVE  LET e == Run(s, d) IN
           /\ Fits(e, C, I, K, SameLeft(same, t))
           /\ ~d.aborted /\ D # {} /\ NamesOnce(s, J) => ~e.aborted
<1> DEFINE n == Len(s) - 1
           nm == [k \in 1..n |-> s[k].name]
           e == Run(s, d)
           left == NoneNamed(I \cup J, nm, n)
<1>1. n \in Nat /\ n + 1 = Len(s) /\ DOMAIN s = 1..(n + 1)
  BY DEF Drops
<1>2. s[n + 1] = DropTable(t) /\ \A k \in 1..n : s[k] = DropIndex(nm[k])
        /\ nm[k] = s[k].name /\ nm[k] \in names
  BY <1>1 DEF Drops
<1> HIDE DEF n, nm
<1>3. /\ Fits(e, NotOf(t, C \cup D), NotOf(t, left), NotOf(t, K \cup L), SameLeft(same, t))
      /\ /\ ~d.aborted
         /\ \E c \in C \cup D : c.table = t
         /\ \A k \in K \cup L : k.to = t => k.table = t
         /\ AllNamed(I \cup J, nm, n)
         => ~e.aborted
  BY <1>1, <1>2, DropsBlock
<1>4. NotOf(t, C \cup D) = C /\ NotOf(t, K \cup L) = K
  BY DEF NotOf, Foreign, Owned
<1>5. NotOf(t, left) = I
  <2>1. \A i \in I : i.table # t /\ \A k \in 1..n : i.name # nm[k]
    BY <1>2 DEF Foreign
  <2>2. \A j \in J : j.table = t
    BY DEF Owned
  <2> QED BY <2>1, <2>2 DEF NotOf, NoneNamed
<1>6. D # {} => \E c \in C \cup D : c.table = t
  BY DEF Owned
<1>7. \A k \in K \cup L : k.to = t => k.table = t
  BY DEF Owned, Foreign
<1>8. NamesOnce(s, J) => AllNamed(I \cup J, nm, n)
  BY <1>2 DEF AllNamed, NamesOnce, n
<1> HIDE DEF left
<1>9. Fits(e, C, I, K, SameLeft(same, t))
  BY <1>3, <1>4, <1>5
<1> HIDE DEF e
<1>10. ~d.aborted /\ D # {} /\ NamesOnce(s, J) => ~e.aborted
  BY <1>3, <1>6, <1>7, <1>8
<1> QED BY <1>9, <1>10 DEF e

\* The field of a dropped index
LEMMA DropIs == \A n : DropIndex(n).name = n
BY DEF DropIndex

\* The scripts that drop the tables again drop blocks.
LEMMA DropListedInfoDrops == Drops(DropListedInfo, "listed_info", ListedInfoIndexes)
<1> DEFINE s == DropListedInfo
<1>1. Len(s) = 3 /\ DOMAIN s = 1..3 /\ s[3] = DropTable("listed_info")
  BY DEF DropListedInfo
<1>2. s[1] = DropIndex("idx_listed_info_date") /\ s[2] = DropIndex("idx_listed_info_code")
  BY DEF DropListedInfo
<1>3. \A k \in 1..2 : \E m \in ListedInfoIndexes : s[k] = DropIndex(m)
  BY <1>2 DEF ListedInfoIndexes
<1> HIDE DEF s
<1> QED BY <1>1, <1>3, DropIs DEF Drops, s

LEMMA DropPricesDrops == Drops(DropPrices, "prices", PriceIndexes)
<1> DEFINE s == DropPrices
<1>1. Len(s) = 4 /\ DOMAIN s = 1..4 /\ s[4] = DropTable("prices")
  BY DEF DropPrices
<1>2. s[1] = DropIndex("ix_prices_timestamp")
        /\ s[2] = DropIndex("ix_prices_ticker_symbol") /\ s[3] = DropIndex("ix_prices_id")
  BY DEF DropPrices
<1>3. \A k \in 1..3 : \E m \in PriceIndexes : s[k] = DropIndex(m)
  BY <1>2 DEF PriceIndexes
<1> HIDE DEF s
<1> QED BY <1>1, <1>3, DropIs DEF Drops, s

LEMMA DropStocksDrops == Drops(DropStocks, "stocks", StockIndexes)
<1> DEFINE s == DropStocks
<1>1. Len(s) = 5 /\ DOMAIN s = 1..5 /\ s[5] = DropTable("stocks")
  BY DEF DropStocks
<1>2. s[1] = DropIndex("ix_stocks_ticker_symbol") /\ s[2] = DropIndex("ix_stocks_sector")
        /\ s[3] = DropIndex("ix_stocks_market") /\ s[4] = DropIndex("ix_stocks_id")
  BY DEF DropStocks
<1>3. \A k \in 1..4 : \E m \in StockIndexes : s[k] = DropIndex(m)
  BY <1>2 DEF StockIndexes
<1> HIDE DEF s
<1> QED BY <1>1, <1>3, DropIs DEF Drops, s

LEMMA DropBeatSchedulesDrops == Drops(DropBeatSchedules, "celery_beat_schedules",
  BeatIndexes)
<1> DEFINE s == DropBeatSchedules
<1>1. Len(s) = 3 /\ DOMAIN s = 1..3 /\ s[3] = DropTable("celery_beat_schedules")
  BY DEF DropBeatSchedules
<1>2. s[1] = DropIndex("ix_celery_beat_schedules_name")
        /\ s[2] = DropIndex("ix_celery_beat_schedules_enabled")
  BY DEF DropBeatSchedules
<1>3. \A k \in 1..2 : \E m \in BeatIndexes : s[k] = DropIndex(m)
  BY <1>2 DEF BeatIndexes
<1> HIDE DEF s
<1> QED BY <1>1, <1>3, DropIs DEF Drops, s

LEMMA DropTaskLogsDrops == Drops(DropTaskLogs, "task_execution_logs", LogIndexes)
<1> DEFINE s == DropTaskLogs
<1>1. Len(s) = 6 /\ DOMAIN s = 1..6 /\ s[6] = DropTable("task_execution_logs")
  BY DEF DropTaskLogs
<1>2. s[1] = DropIndex("ix_task_execution_logs_task_name")
        /\ s[2] = DropIndex("ix_task_execution_logs_task_id")
             /\ s[3] = DropIndex("ix_task_execution_logs_status")
                  /\ s[4] = DropIndex("ix_task_execution_logs_started_at")
                       /\ s[5] = DropIndex("ix_task_execution_logs_schedule_id")
  BY DEF DropTaskLogs
<1>3. \A k \in 1..5 : \E m \in LogIndexes : s[k] = DropIndex(m)
  BY <1>2 DEF LogIndexes
<1> HIDE DEF s
<1> QED BY <1>1, <1>3, DropIs DEF Drops, s

LEMMA DownTradesSpecDrops == Drops(DownTradesSpec, "trades_spec", TradeIndexes)
<1> DEFINE s == DownTradesSpec
<1>1. Len(s) = 5 /\ DOMAIN s = 1..5 /\ s[5] = DropTable("trades_spec")
  BY DEF DownTradesSpec
<1>2. s[1] = DropIndex("idx_trades_spec_date_section")
        /\ s[2] = DropIndex("idx_trades_spec_section")
             /\ s[3] = DropIndex("idx_trades_spec_date")
                  /\ s[4] = DropIndex("idx_trades_spec_code")
  BY DEF DownTradesSpec
<1>3. \A k \in 1..4 : \E m \in TradeIndexes : s[k] = DropIndex(m)
  BY <1>2 DEF TradeIndexes
<1> HIDE DEF s
<1> QED BY <1>1, <1>3, DropIs DEF Drops, s

LEMMA DropWeeklyMarginInterestDrops == Drops(DropWeeklyMarginInterest,
  "weekly_margin_interest", MarginIndexes)
<1> DEFINE s == DropWeeklyMarginInterest
<1>1. Len(s) = 5 /\ DOMAIN s = 1..5 /\ s[5] = DropTable("weekly_margin_interest")
  BY DEF DropWeeklyMarginInterest
<1>2. s[1] = DropIndex("idx_weekly_margin_interest_issue_type")
        /\ s[2] = DropIndex("idx_weekly_margin_interest_date_issue_type")
             /\ s[3] = DropIndex("idx_weekly_margin_interest_date")
                  /\ s[4] = DropIndex("idx_weekly_margin_interest_code")
  BY DEF DropWeeklyMarginInterest
<1>3. \A k \in 1..4 : \E m \in MarginIndexes : s[k] = DropIndex(m)
  BY <1>2 DEF MarginIndexes
<1> HIDE DEF s
<1> QED BY <1>1, <1>3, DropIs DEF Drops, s

LEMMA DownAnnouncementsDrops == Drops(DownAnnouncements, "announcements",
  AnnouncementIndexes)
<1> DEFINE s == DownAnnouncements
<1>1. Len(s) = 3 /\ DOMAIN s = 1..3 /\ s[3] = DropTable("announcements")
  BY DEF DownAnnouncements
<1>2. s[1] = DropIndex("ix_announcements_date") /\ s[2] = DropIndex("ix_announcements_code")
  BY DEF DownAnnouncements
<1>3. \A k \in 1..2 : \E m \in AnnouncementIndexes : s[k] = DropIndex(m)
  BY <1>2 DEF AnnouncementIndexes
<1> HIDE DEF s
<1> QED BY <1>1, <1>3, DropIs DEF Drops, s

\* The dropped indexes are the created ones.
LEMMA NamesOfPrices == NamesOnce(DropPrices, Ixs(CreatePrices))
<1> DEFINE s == DropPrices
           q == CreatePrices
<1>1. Len(s) = 4 /\ Len(q) = 4
  BY DEF DropPrices, CreatePrices
<1>2. s[1].name = "ix_prices_timestamp" /\ s[2].name = "ix_prices_ticker_symbol"
        /\ s[3].name = "ix_prices_id"
  BY DropIs DEF DropPrices
<1>3. q[2].index.name = "ix_prices_id" /\ q[3].index.name = "ix_prices_ticker_symbol"
        /\ q[4].index.name = "ix_prices_timestamp"
  <2>1. /\ q[2] = CreateIndex(Index("ix_prices_id", "prices", {"id"}))
        /\ q[3] = CreateIndex(Index("ix_prices_ticker_symbol", "prices", {"ticker_symbol"}))
        /\ q[4] = CreateIndex(Index("ix_prices_timestamp", "prices", {"timestamp"}))
    BY IndexIs DEF CreatePrices
  <2> HIDE DEF q
  <2> QED BY <2>1, IndexIs
<1> HIDE DEF s, q
<1>4. \A k \in 1..3 : IndexesOf(q)[k] = q[k + 1].index /\ IndexesOf(q)[k] \in Ixs(q)
  BY <1>1 DEF IndexesOf, Ixs, Firsts
<1>5. q[2].index \in Ixs(q) /\ q[3].index \in Ixs(q) /\ q[4].index \in Ixs(q)
  BY <1>4
<1>6. \A k \in 1..3 : \E j \in Ixs(q) : j.name = s[k].name
  BY <1>2, <1>3, <1>5
<1>7. \A k, m \in 1..3 : s[m].name = s[k].name => m = k
  BY <1>2
<1> QED BY <1>1, <1>6, <1>7 DEF NamesOnce, s, q

LEMMA NamesOfStocks == NamesOnce(DropStocks, Ixs(CreateStocks))
<1> DEFINE s == DropStocks
           q == CreateStocks
<1>1. Len(s) = 5 /\ Len(q) = 5
  BY DEF DropStocks, CreateStocks
<1>2. /\ s[1].name = "ix_stocks_ticker_symbol" /\ s[2].name = "ix_stocks_sector"
      /\ s[3].name = "ix_stocks_market" /\ s[4].name = "ix_stocks_id"
  BY DropIs DEF DropStocks
<1>3. /\ q[2].index.name = "ix_stocks_id" /\ q[3].index.name = "ix_stocks_market"
      /\ q[4].index.name = "ix_stocks_sector" /\ q[5].index.name = "ix_stocks_ticker_symbol"
  <2>1. /\ q[2] = CreateIndex(Index("ix_stocks_id", "stocks", {"id"}))
        /\ q[3] = CreateIndex(Index("ix_stocks_market", "stocks", {"market"}))
        /\ q[4] = CreateIndex(Index("ix_stocks_sector", "stocks", {"sector"}))
        /\ q[5] = CreateIndex(Index("ix_stocks_ticker_symbol", "stocks", {"ticker_symbol"}))
    BY IndexIs DEF CreateStocks
  <2> HIDE DEF q
  <2> QED BY <2>1, IndexIs
<1> HIDE DEF s, q
<1>4. \A k \in 1..4 : IndexesOf(q)[k] = q[k + 1].index /\ IndexesOf(q)[k] \in Ixs(q)
  BY <1>1 DEF IndexesOf, Ixs, Firsts
<1>5. q[2].index \in Ixs(q) /\ q[3].index \in Ixs(q) /\ q[4].index \in Ixs(q)
        /\ q[5].index \in Ixs(q)
  BY <1>4
<1>6. \A k \in 1..4 : \E j \in Ixs(q) : j.name = s[k].name
  BY <1>2, <1>3, <1>5
<1>7. \A k, m \in 1..4 : s[m].name = s[k].name => m = k
  BY <1>2
<1> QED BY <1>1, <1>6, <1>7 DEF NamesOnce, s, q

\* The columns of a table
LEMMA ColumnIn ==
    ASSUME NEW t, NEW cs, NEW n \in cs
    PROVE  Column(t, n, "as declared") \in TableColumns(t, Plain(cs))
<1>1. <<n, "as declared">> \in Plain(cs)
  BY DEF Plain
<1>2. <<n, "as declared">>[1] = n /\ <<n, "as declared">>[2] = "as declared"
  OBVIOUS
<1>3. Column(t, <<n, "as declared">>[1], <<n, "as declared">>[2]) \in TableColumns(t,
        Plain(cs))
  BY <1>1 DEF TableColumns
<1> QED BY <1>2, <1>3

\* ... and nothing but them
LEMMA ColumnsIn ==
    ASSUME NEW t, NEW cs, NEW c \in TableColumns(t, Plain(cs))
    PROVE  c.table = t /\ c.name \in cs
<1>1. PICK p \in Plain(cs) : c = Column(t, p[1], p[2])
  BY DEF TableColumns
<1>2. PICK n \in cs : p = <<n, "as declared">>
  BY <1>1 DEF Plain
<1>3. p[1] = n
  BY <1>2
<1> QED BY <1>1, <1>3 DEF Column

\* The columns of a table, some of them of a type
Typed(t, plain, cs, type) == TableColumns(t, Plain(plain) \cup cs \X {type})

\* Changing the type of columns
LEMMA TypesAltered ==
    ASSUME NEW t, NEW plain, NEW cs, NEW from, NEW to, plain \cap cs = {}
    PROVE  AllAltered(Typed(t, plain, cs, from), t, cs, to) = Typed(t, plain, cs, to)
<1> USE DEF Typed
<1> DEFINE was == TableColumns(t, Plain(plain) \cup cs \X {from})
           is == TableColumns(t, Plain(plain) \cup cs \X {to})
<1>1. \A ty, c : c \in TableColumns(t, Plain(plain) \cup cs \X {ty}) <=>
        \/ \E n \in plain : c = Column(t, n, "as declared")
        \/ \E n \in cs : c = Column(t, n, ty)
  <2> SUFFICES ASSUME NEW ty, NEW c
               PROVE  c \in TableColumns(t, Plain(plain) \cup cs \X {ty}) <=>
                        \/ \E n \in plain : c = Column(t, n, "as declared")
                        \/ \E n \in cs : c = Column(t, n, ty)
    OBVIOUS
  <2> DEFINE S == Plain(plain) \cup cs \X {ty}
  <2>1. ASSUME c \in TableColumns(t, S)
        PROVE  \/ \E n \in plain : c = Column(t, n, "as declared")
               \/ \E n \in cs : c = Column(t, n, ty)
    <3>1. PICK p \in S : c = Column(t, p[1], p[2])
      BY <2>1 DEF TableColumns
    <3>2. CASE p \in Plain(plain)
      <4>1. PICK n \in plain : p = <<n, "as declared">>
        BY <3>2 DEF Plain
      <4> QED BY <3>1, <4>1
    <3>3. CASE p \in cs \X {ty}
      <4>1. PICK n \in cs : p = <<n, ty>>
        BY <3>3
      <4> QED BY <3>1, <4>1
    <3> QED BY <3>2, <3>3
  <2>2. ASSUME NEW n \in plain, c = Column(t, n, "as declared")
        PROVE  c \in TableColumns(t, S)
    <3>1. <<n, "as declared">> \in S
      BY DEF Plain
    <3>2. <<n, "as declared">>[1] = n /\ <<n, "as declared">>[2] = "as declared"
      OBVIOUS
    <3> HIDE DEF S
    <3>3. Column(t, <<n, "as declared">>[1], <<n, "as declared">>[2]) \in TableColumns(t, S)
      BY <3>1 DEF TableColumns
    <3> QED BY <2>2, <3>2, <3>3
  <2>3. ASSUME NEW n \in cs, c = Column(t, n, ty)
        PROVE  c \in TableColumns(t, S)
    <3>1. <<n, ty>> \in S
      OBVIOUS
    <3>2. <<n, ty>>[1] = n /\ <<n, ty>>[2] = ty
      OBVIOUS
    <3> HIDE DEF S
    <3>3. Column(t, <<n, ty>>[1], <<n, ty>>[2]) \in TableColumns(t, S)
      BY <3>1 DEF TableColumns
    <3> QED BY <2>3, <3>2, <3>3
  <2> QED BY <2>1, <2>2, <2>3
<1>2. \A n \in plain : Altered(Column(t, n, "as declared"), t, cs, to)
        = Column(t, n, "as declared")
  BY DEF Altered, Column
<1>3. \A n \in cs : Altered(Column(t, n, from), t, cs, to) = Column(t, n, to)
  BY DEF Altered, Column
<1> HIDE DEF was, is
<1>4. \A c : c \in AllAltered(was, t, cs, to) <=> \E x \in was : c = Altered(x, t, cs, to)
  BY DEF AllAltered
<1>5. \A c : c \in was <=> \/ \E n \in plain : c = Column(t, n, "as declared")
                          \/ \E n \in cs : c = Column(t, n, from)
  BY <1>1 DEF was
<1>6. \A c : c \in is <=> \/ \E n \in plain : c = Column(t, n, "as declared")
                         \/ \E n \in cs : c = Column(t, n, to)
  BY <1>1 DEF is
<1>7. ASSUME NEW c \in AllAltered(was, t, cs, to) PROVE c \in is
  <2>1. PICK x \in was : c = Altered(x, t, cs, to)
    BY <1>4
  <2>2. CASE \E n \in plain : x = Column(t, n, "as declared")
    BY <1>2, <1>6, <2>1, <2>2
  <2>3. CASE \E n \in cs : x = Column(t, n, from)
    BY <1>3, <1>6, <2>1, <2>3
  <2> QED BY <1>5, <2>2, <2>3
<1>8. ASSUME NEW c \in is PROVE c \in AllAltered(was, t, cs, to)
  <2>1. CASE \E n \in plain : c = Column(t, n, "as declared")
    <3>1. PICK n \in plain : c = Column(t, n, "as declared")
      BY <2>1
    <3> QED BY <1>2, <1>4, <1>5, <3>1
  <2>2. CASE \E n \in cs : c = Column(t, n, to)
    <3>1. PICK n \in cs : c = Column(t, n, to)
      BY <2>2
    <3> QED BY <1>3, <1>4, <1>5, <3>1
  <2> QED BY <1>6, <2>1, <2>2
<1> QED BY <1>7, <1>8 DEF was, is

\* Renaming a table
LEMMA ColumnsMoved ==
    ASSUME NEW t, NEW cs, NEW to
    PROVE  AllMoved(TableColumns(t, cs), t, to) = TableColumns(to, cs)
<1>1. \A n, ty : MovedTo(Column(t, n, ty), t, to) = Column(to, n, ty)
  BY DEF MovedTo, Column
<1>2. \A c : c \in AllMoved(TableColumns(t, cs), t, to) <=>
               \E x \in TableColumns(t, cs) : c = MovedTo(x, t, to)
  BY DEF AllMoved
<1>3. \A c, u : c \in TableColumns(u, cs) <=> \E p \in cs : c = Column(u, p[1], p[2])
  BY DEF TableColumns
<1>4. ASSUME NEW c \in AllMoved(TableColumns(t, cs), t, to) PROVE c \in TableColumns(to, cs)
  BY <1>1, <1>2, <1>3
<1>5. ASSUME NEW c \in TableColumns(to, cs) PROVE c \in AllMoved(TableColumns(t, cs), t, to)
  BY <1>1, <1>2, <1>3
<1> QED BY <1>4, <1>5

\* Columns of another table are not renamed with it.
LEMMA MovedApart ==
    ASSUME NEW A, NEW B, NEW t, NEW to, \A a \in A : a.table # t
    PROVE  AllMoved(A \cup B, t, to) = A \cup AllMoved(B, t, to)
BY DEF AllMoved, MovedTo
-----------------------------------------------------------------------------
(* Parts of a schema *)

\* Parts of a schema, and several of them together
Part(s) == [c |-> Cols(s), i |-> Ixs(s), k |-> Keys(s)]

A ++ B == [c |-> A.c \cup B.c, i |-> A.i \cup B.i, k |-> A.k \cup B.k]

\* The database has this part, this part is away from a table, or all of one
Holds(d, X, same) == Fits(d, X.c, X.i, X.k, same)

Away(X, t, names, keys) == Foreign(X.c, X.i, X.k, t, names, keys)

In(X, t, names, keys, tos) == Owned(X.c, X.i, X.k, t, names, keys, tos)

\* Parts are joined field by field.
LEMMA JoinParts ==
    \A A, B : (A ++ B).c = A.c \cup B.c /\ (A ++ B).i = A.i \cup B.i
      /\ (A ++ B).k = A.k \cup B.k
BY DEF ++

\* Their order does not matter.
LEMMA JoinSwaps == \A A, B, C : (A ++ B) ++ C = (A ++ C) ++ B
<1> SUFFICES ASSUME NEW A, NEW B, NEW C PROVE (A ++ B) ++ C = (A ++ C) ++ B
  OBVIOUS
<1>1. /\ (A.c \cup B.c) \cup C.c = (A.c \cup C.c) \cup B.c
      /\ (A.i \cup B.i) \cup C.i = (A.i \cup C.i) \cup B.i
      /\ (A.k \cup B.k) \cup C.k = (A.k \cup C.k) \cup B.k
  OBVIOUS
<1> QED BY <1>1 DEF ++

\* What is away from two parts is away from both together.
LEMMA AwayTogether ==
    ASSUME NEW A, NEW B, NEW t, NEW names, NEW keys,
           Away(A, t, names, keys), Away(B, t, names, keys)
    PROVE  Away(A ++ B, t, names, keys)
BY JoinParts DEF Away, Foreign

\* Parts of different tables with different names are away from each other.
LEMMA AwayFrom ==
    ASSUME NEW X, NEW u, NEW n1, NEW k1, NEW tos, In(X, u, n1, k1, tos),
           NEW t, NEW n2, NEW k2, t # u, t \notin tos, n1 \cap n2 = {}, k1 \cap k2 = {}
    PROVE  Away(X, t, n2, k2)
BY DEF In, Away, Owned, Foreign

\* Creating a block adds a part,
LEMMA Created ==
    ASSUME NEW d, NEW X, NEW same, Holds(d, X, same),
           NEW s, NEW t, NEW names, NEW keys, NEW tos, Block(s, t, names, keys, tos)
    PROVE  LET e == Run(s, d) IN
           /\ Holds(e, X ++ Part(s), same)
           /\ ~d.aborted /\ Away(X, t, names, keys) /\ Free(Ixs(s), same)
                => ~e.aborted
<1> DEFINE e == Run(s, d)
<1>1. Fits(d, X.c, X.i, X.k, same)
  BY DEF Holds
<1>2. Fits(e, X.c \cup Cols(s), X.i \cup Ixs(s), X.k \cup Keys(s), same)
  BY <1>1, BlockCreated
<1>6. ASSUME ~d.aborted, Foreign(X.c, X.i, X.k, t, names, keys), Free(Ixs(s), same)
      PROVE  ~e.aborted
  BY <1>1, <1>6, BlockCreated
<1> HIDE DEF e
<1>3. Part(s).c = Cols(s) /\ Part(s).i = Ixs(s) /\ Part(s).k = Keys(s)
  BY DEF Part
<1>4. Holds(e, X ++ Part(s), same)
  <2> DEFINE Y == X ++ Part(s)
  <2>1. Y.c = X.c \cup Cols(s) /\ Y.i = X.i \cup Ixs(s) /\ Y.k = X.k \cup Keys(s)
    BY <1>3, JoinParts
  <2> HIDE DEF Y
  <2>2. Holds(e, Y, same)
    BY <1>2, <2>1 DEF Holds
  <2> QED BY <2>2 DEF Y
<1>5. ~d.aborted /\ Away(X, t, names, keys) /\ Free(Ixs(s), same) => ~e.aborted
  BY <1>6 DEF Away
<1> QED BY <1>4, <1>5 DEF e

\* and dropping it takes the part away.
LEMMA Dropped ==
    ASSUME NEW d, NEW X, NEW Y, NEW same, Holds(d, X ++ Y, same),
           NEW t, NEW names, NEW keys, NEW tos, In(Y, t, names, keys, tos),
             Away(X, t, names, keys),
           NEW s, Drops(s, t, names)
    PROVE  LET e == Run(s, d) IN
           /\ Holds(e, X, SameLeft(same, t))
           /\ ~d.aborted /\ Y.c # {} /\ NamesOnce(s, Y.i) => ~e.aborted
<1>1. Fits(d, X.c \cup Y.c, X.i \cup Y.i, X.k \cup Y.k, same)
  BY JoinParts DEF Holds
<1> QED BY <1>1, BlockDropped DEF Holds, In, Away

\* Dropping the table alone
LEMMA TableDropped ==
    ASSUME NEW d, NEW X, NEW Y, NEW same, Holds(d, X ++ Y, same),
           NEW t, NEW names, NEW keys, NEW tos, In(Y, t, names, keys, tos),
           NEW n2, NEW k2, Away(X, t, n2, k2)
    PROVE  LET e == Apply(d, DropTable(t)) IN
           /\ Holds(e, X, SameLeft(same, t))
           /\ ~d.aborted /\ Y.c # {} => ~e.aborted
<1> DEFINE e == Apply(d, DropTable(t))
           C == X.c \cup Y.c
           I == X.i \cup Y.i
           K == X.k \cup Y.k
<1>1. Fits(d, C, I, K, same)
  BY JoinParts DEF Holds
<1>2. NotOf(t, C) = X.c /\ NotOf(t, I) = X.i /\ NotOf(t, K) = X.k
  BY DEF NotOf, In, Owned, Away, Foreign
<1>3. \A k \in K : k.to = t => k.table = t
  BY DEF In, Owned, Away, Foreign
<1>4. Y.c # {} => \E c \in C : c.table = t
  BY DEF In, Owned
<1> HIDE DEF C, I, K
<1>5. Fits(e, NotOf(t, C), NotOf(t, I), NotOf(t, K), SameLeft(same, t))
  BY <1>1, DropsTable
<1>6. ~d.aborted /\ (\E c \in C : c.table = t) => ~e.aborted
  BY <1>1, <1>3, DropsTable
<1> HIDE DEF e
<1> QED BY <1>2, <1>4, <1>5, <1>6 DEF Holds, e
-----------------------------------------------------------------------------
(* The tables of the revisions *)

\* The parts the revisions make
LI == Part(CreateListedInfo)
PR == Part(CreatePrices)
ST == Part(CreateStocks)
LOG == Part(CreateTaskLogs)
TS(type) == Part(TradesSpec(type))
WM == Part(WeeklyMarginInterest)
AN(code) == Part(Announcements(code))

B == "celery_beat_schedules"

\* The indexes and constraints of celery_beat_schedules
EnabledIndex == Index("ix_celery_beat_schedules_enabled", B, {"enabled"})
NameIndex == UniqueIndex("ix_celery_beat_schedules_name", B, {"name"})
FlexibleIndexes ==
    {Index("idx_celery_beat_schedules_name", B, {"name"}),
     Index("idx_celery_beat_schedules_category", B, {"category"}),
     Index("idx_celery_beat_schedules_tags", B, {"tags"})}
PlainIndexes ==
    {Index("ix_celery_beat_schedules_category", B, {"category"}),
     Index("ix_celery_beat_schedules_name", B, {"name"})}
LastRunIndex == Index("idx_celery_beat_schedules_last_run_at", B, {"last_run_at"})

BeatNames == {"ix_celery_beat_schedules_enabled", "ix_celery_beat_schedules_name",
              "idx_celery_beat_schedules_name", "idx_celery_beat_schedules_category",
              "idx_celery_beat_schedules_tags", "ix_celery_beat_schedules_category",
              "idx_celery_beat_schedules_last_run_at"}
PolicyKey == Key("ck_celery_beat_schedules_execution_policy", B)
AllBeatKeys == {"celery_beat_schedules_pkey", "ck_celery_beat_schedules_execution_policy",
  UniqueName}

\* Its columns
FlexibleColumns ==
    TableColumns(B, Plain({"category", "tags", "execution_policy", "auto_generated_name"}))

FirstColumns ==
    TableColumns(B, Plain({"id", "name", "task_name", "cron_expression", "enabled",
      "args", "kwargs",
                           "description", "created_at", "updated_at"}))

\* celery_beat_schedules as it is made, with the flexible columns, ...
B3 == [c |-> FirstColumns, i |-> {EnabledIndex, NameIndex},
  k |-> {Key("celery_beat_schedules_pkey", B)}]
B4 == [c |-> FirstColumns \cup FlexibleColumns, i |-> {EnabledIndex} \cup FlexibleIndexes,
       k |-> {Key("celery_beat_schedules_pkey", B), PolicyKey}]
B7 == [B4 EXCEPT !.i = {EnabledIndex} \cup PlainIndexes]
B12 == [c |-> B4.c \cup {Column(B, "last_run_at", "as declared")},
  i |-> B7.i \cup {LastRunIndex},
        k |-> B4.k]

\* listed_info after its renaming
JLI == [c |-> TableColumns("jquants_listed_info", Plain(ListedInfoColumns)),
        i |-> {Index("idx_jquants_listed_info_code", "jquants_listed_info", {"code"}),
               Index("idx_jquants_listed_info_date", "jquants_listed_info", {"date"})},
        k |-> {Key("jquants_listed_info_pkey", "jquants_listed_info")}]

Nothing == [c |-> {}, i |-> {}, k |-> {}]

\* A block makes a part of one table.
LEMMA PartIn ==
    ASSUME NEW s, NEW t, NEW names, NEW keys, NEW tos, Block(s, t, names, keys, tos)
    PROVE  In(Part(s), t, names, keys, tos)
BY DEF Part, In, Block

\* The parts of the revisions, each in its table
LEMMA PartsIn ==
    /\ In(LI, "listed_info", ListedInfoIndexes, ListedInfoKeys, {"listed_info"})
    /\ In(PR, "prices", PriceIndexes, PriceKeys, {"prices"})
    /\ In(ST, "stocks", StockIndexes, StockKeys, {"stocks"})
    /\ In(LOG, "task_execution_logs", LogIndexes, LogKeys, {"task_execution_logs", B})
    /\ \A ty : In(TS(ty), "trades_spec", TradeIndexes, TradeKeys, {"trades_spec"})
    /\ In(WM, "weekly_margin_interest", MarginIndexes, MarginKeys,
         {"weekly_margin_interest"})
    /\ \A ty : In(AN(ty), "announcements", AnnouncementIndexes, AnnouncementKeys,
         {"announcements"})
BY PartIn, ListedInfoBlock, PriceBlock, StockBlock, LogBlock, TradeBlock, MarginBlock,
   AnnouncementBlock
   DEF LI, PR, ST, LOG, TS, WM, AN, B

\* celery_beat_schedules at every version
LEMMA BeatsIn ==
    /\ In(B3, B, BeatNames, AllBeatKeys, {B})
    /\ In(B4, B, BeatNames, AllBeatKeys, {B})
    /\ In(B7, B, BeatNames, AllBeatKeys, {B})
    /\ In(B12, B, BeatNames, AllBeatKeys, {B})
<1>1. \A i \in {EnabledIndex, NameIndex, LastRunIndex} \cup FlexibleIndexes
        \cup PlainIndexes :
         i.table = B /\ i.name \in BeatNames
  BY IndexIs DEF EnabledIndex, NameIndex, LastRunIndex, FlexibleIndexes, PlainIndexes,
     BeatNames
<1>2. \A k \in {Key("celery_beat_schedules_pkey", B), PolicyKey} :
         k.table = B /\ k.to = B /\ k.name \in AllBeatKeys
  BY KeyIs DEF PolicyKey, AllBeatKeys
<1>3. \A c \in FirstColumns \cup FlexibleColumns
        \cup {Column(B, "last_run_at", "as declared")} : c.table = B
  <2>1. Column(B, "last_run_at", "as declared").table = B
    BY DEF Column
  <2>2. \A c \in FirstColumns : c.table = B
    BY ColumnsIn DEF FirstColumns
  <2>3. \A c \in FlexibleColumns : c.table = B
    BY ColumnsIn DEF FlexibleColumns
  <2> QED BY <2>1, <2>2, <2>3
<1> QED BY <1>1, <1>2, <1>3 DEF In, Owned, B3, B4, B7, B12

\* jquants_listed_info
LEMMA JLIIn == In(JLI, "jquants_listed_info",
                  {"idx_jquants_listed_info_code", "idx_jquants_listed_info_date"},
                  {"jquants_listed_info_pkey"}, {"jquants_listed_info"})
BY IndexIs, KeyIs, ColumnsIn DEF JLI, In, Owned

\* 87e8a6480680 makes celery_beat_schedules as it is at version 3.
LEMMA FirstBeatPart == Part(CreateBeatSchedules) = B3
<1> DEFINE s == CreateBeatSchedules
<1>1. Len(s) = 3
  BY DEF CreateBeatSchedules
<1>2. s[2] = CreateIndex(EnabledIndex) /\ s[3] = CreateIndex(NameIndex)
  BY IndexIs DEF CreateBeatSchedules, EnabledIndex, NameIndex, B
<1>3. s[1] = CreateTable(B, Plain({"id", "name", "task_name", "cron_expression",
        "enabled", "args", "kwargs",
                           "description", "created_at", "updated_at"}),
                             {Key("celery_beat_schedules_pkey", B)})
  BY DEF CreateBeatSchedules, B
<1> HIDE DEF s
<1>4. s[2].index = EnabledIndex /\ s[3].index = NameIndex
  BY <1>2, IndexIs
<1>5. Ixs(s) = {EnabledIndex, NameIndex}
  <2>1. IndexesOf(s)[1] = EnabledIndex /\ IndexesOf(s)[2] = NameIndex
    BY <1>1, <1>4 DEF IndexesOf
  <2>2. 1..2 = {1, 2}
    OBVIOUS
  <2> QED BY <1>1, <2>1, <2>2 DEF Ixs, Firsts
<1>6. Cols(s) = FirstColumns /\ Keys(s) = {Key("celery_beat_schedules_pkey", B)}
  BY <1>3, TableIs DEF Cols, Keys, FirstColumns
<1> QED BY <1>5, <1>6 DEF Part, B3, s

\* The pieces of the scripts are lists of statements.
LEMMA PiecesAreStatements ==
    /\ Statements(CreateListedInfo) /\ Statements(DropListedInfo)
    /\ Statements(CreateStocks) /\ Statements(DropStocks)
    /\ Statements(CreatePrices) /\ Statements(DropPrices)
    /\ Statements(CreateBeatSchedules) /\ Statements(DropBeatSchedules)
    /\ Statements(CreateTaskLogs) /\ Statements(DropTaskLogs)
    /\ \A type : Statements(TradesSpec(type))
    /\ Statements(DownTradesSpec)
    /\ Statements(WeeklyMarginInterest) /\ Statements(DropWeeklyMarginInterest)
    /\ \A code : Statements(Announcements(code))
    /\ Statements(DownAnnouncements)
<1>1. /\ Statements(CreateStocks) /\ Statements(DropStocks)
      /\ Statements(CreatePrices) /\ Statements(DropPrices)
  BY StatementKinds, Tuple5, Tuple4 DEF CreateStocks, DropStocks, CreatePrices, DropPrices
<1>2. Statements(CreateListedInfo) /\ Statements(DropListedInfo)
  BY StatementKinds, Tuple3 DEF CreateListedInfo, DropListedInfo
<1>3. /\ Statements(CreateBeatSchedules) /\ Statements(DropBeatSchedules)
      /\ Statements(CreateTaskLogs) /\ Statements(DropTaskLogs)
  BY StatementKinds, Tuple3, Tuple6
     DEF CreateBeatSchedules, DropBeatSchedules, CreateTaskLogs, DropTaskLogs
<1>4. (\A type : Statements(TradesSpec(type))) /\ Statements(DownTradesSpec)
  BY StatementKinds, Tuple5 DEF TradesSpec, DownTradesSpec
<1>5. Statements(WeeklyMarginInterest) /\ Statements(DropWeeklyMarginInterest)
  BY StatementKinds, Tuple5 DEF WeeklyMarginInterest, DropWeeklyMarginInterest
<1>6. (\A code : Statements(Announcements(code))) /\ Statements(DownAnnouncements)
  BY StatementKinds, Tuple3 DEF Announcements, DownAnnouncements
<1> QED BY <1>1, <1>2, <1>3, <1>4, <1>5, <1>6

\* Where no names are shared, they may be.
LEMMA HoldsWeakly ==
    ASSUME NEW d, NEW X, NEW a, NEW b, Holds(d, X, a), a => b
    PROVE  Holds(d, X, b)
BY DEF Holds, Fits

\* Without unique indexes, or without shared names, nothing stands in the way.
LEMMA NothingUnique ==
    /\ \A J, same : (\A i \in J : ~i.unique) => Free(J, same)
    /\ \A J : Free(J, FALSE)
BY DEF Free

\* No table of a version stands in the way of another.
LEMMA ListedInfoAway ==
    /\ Away(LI, "prices", PriceIndexes, PriceKeys)
    /\ Away(LI, "stocks", StockIndexes, StockKeys)
    /\ Away(LI, B, BeatNames, AllBeatKeys)
    /\ Away(LI, "task_execution_logs", LogIndexes, LogKeys)
    /\ Away(LI, "trades_spec", TradeIndexes, TradeKeys)
    /\ Away(LI, "weekly_margin_interest", MarginIndexes, MarginKeys)
    /\ Away(LI, "announcements", AnnouncementIndexes, AnnouncementKeys)
BY PartsIn, BeatsIn, AwayFrom
   DEF ListedInfoIndexes, ListedInfoKeys, PriceIndexes, PriceKeys, StockIndexes,
     StockKeys, BeatNames, AllBeatKeys, LogIndexes, LogKeys, TradeIndexes, TradeKeys,
       MarginIndexes, MarginKeys, AnnouncementIndexes, AnnouncementKeys, UniqueName, B

LEMMA PricesAway ==
    /\ Away(PR, "stocks", StockIndexes, StockKeys)
    /\ Away(ST, "prices", PriceIndexes, PriceKeys)
BY PartsIn, BeatsIn, AwayFrom
   DEF PriceIndexes, PriceKeys, StockIndexes, StockKeys, B

LEMMA BeatAway ==
    /\ Away(B3, "task_execution_logs", LogIndexes, LogKeys)
    /\ Away(B4, "trades_spec", TradeIndexes, TradeKeys)
    /\ Away(B4, "weekly_margin_interest", MarginIndexes, MarginKeys)
    /\ Away(B7, "weekly_margin_interest", MarginIndexes, MarginKeys)
    /\ Away(B7, "announcements", AnnouncementIndexes, AnnouncementKeys)
BY PartsIn, BeatsIn, AwayFrom
   DEF BeatNames, AllBeatKeys, LogIndexes, LogKeys, TradeIndexes, TradeKeys,
     MarginIndexes, MarginKeys, AnnouncementIndexes, AnnouncementKeys, UniqueName, B

LEMMA LogsAway ==
    /\ Away(LOG, "trades_spec", TradeIndexes, TradeKeys)
    /\ Away(LOG, "weekly_margin_interest", MarginIndexes, MarginKeys)
    /\ Away(LOG, "announcements", AnnouncementIndexes, AnnouncementKeys)
BY PartsIn, BeatsIn, AwayFrom
   DEF LogIndexes, LogKeys, TradeIndexes, TradeKeys, MarginIndexes, MarginKeys,
     AnnouncementIndexes, AnnouncementKeys, B

LEMMA ThreeAway ==
    /\ \A ty : Away(TS(ty), "weekly_margin_interest", MarginIndexes, MarginKeys)
    /\ \A ty : Away(TS(ty), "announcements", AnnouncementIndexes, AnnouncementKeys)
    /\ Away(WM, "announcements", AnnouncementIndexes, AnnouncementKeys)
    /\ Away(WM, "trades_spec", TradeIndexes, TradeKeys)
    /\ \A ty : Away(AN(ty), "trades_spec", TradeIndexes, TradeKeys)
    /\ \A ty : Away(AN(ty), "weekly_margin_interest", MarginIndexes, MarginKeys)
BY PartsIn, BeatsIn, AwayFrom
   DEF TradeIndexes, TradeKeys, MarginIndexes, MarginKeys, AnnouncementIndexes,
     AnnouncementKeys, B
-----------------------------------------------------------------------------
(* Scripts *)

\* A script takes a database that holds X to one that holds Y, without fail.
Takes(s, X, a, Y, b) ==
    \A d : Holds(d, X, a) => Holds(Run(s, d), Y, b) /\ (~d.aborted => ~Run(s, d).aborted)

\* ... or fails
Leads(s, X, a, Y, b) == \A d : Holds(d, X, a) => Holds(Run(s, d), Y, b)

\* Scripts one after the other
LEMMA TakesOn ==
    ASSUME NEW s, NEW t, Statements(s), Statements(t), NEW X, NEW a, NEW Y, NEW b, NEW Z,
           NEW c,
           Takes(s, X, a, Y, b), Takes(t, Y, b, Z, c)
    PROVE  Takes(s \o t, X, a, Z, c)
<1> SUFFICES ASSUME NEW d, Holds(d, X, a)
             PROVE  Holds(Run(s \o t, d), Z, c) /\ (~d.aborted => ~Run(s \o t, d).aborted)
  BY DEF Takes
<1>1. Run(s \o t, d) = Run(t, Run(s, d))
  BY RunConcat
<1> QED BY <1>1 DEF Takes

\* ... that may fail
LEMMA LeadsOn ==
    ASSUME NEW s, NEW t, Statements(s), Statements(t), NEW X, NEW a, NEW Y, NEW b, NEW Z,
           NEW c,
           Leads(s, X, a, Y, b), Leads(t, Y, b, Z, c)
    PROVE  Leads(s \o t, X, a, Z, c)
<1> SUFFICES ASSUME NEW d, Holds(d, X, a) PROVE Holds(Run(s \o t, d), Z, c)
  BY DEF Leads
<1>1. Run(s \o t, d) = Run(t, Run(s, d))
  BY RunConcat
<1> QED BY <1>1 DEF Leads

\* A script that does not fail is one that may.
LEMMA TakesLeads ==
    ASSUME NEW s, NEW X, NEW a, NEW Y, NEW b, Takes(s, X, a, Y, b)
    PROVE  Leads(s, X, a, Y, b)
BY DEF Takes, Leads

\* Creating a block does not fail where it is away,
LEMMA CreateTakes ==
    ASSUME NEW s, NEW t, NEW names, NEW keys, NEW tos, Block(s, t, names, keys, tos),
           NEW X, Away(X, t, names, keys), NEW same, Free(Ixs(s), same)
    PROVE  Takes(s, X, same, X ++ Part(s), same)
BY Created DEF Takes

\* and leaves the same, or fails, elsewhere.
LEMMA CreateLeads ==
    ASSUME NEW s, NEW t, NEW names, NEW keys, NEW tos, Block(s, t, names, keys, tos),
           NEW X, NEW same
    PROVE  Leads(s, X, same, X ++ Part(s), same)
BY Created DEF Leads

\* Dropping a block does not fail where all of it is there,
LEMMA DropTakes ==
    ASSUME NEW X, NEW Y, NEW t, NEW names, NEW keys, NEW tos, In(Y, t, names, keys, tos),
           Away(X, t, names, keys), NEW s, Drops(s, t, names), Y.c # {}, NamesOnce(s, Y.i),
           NEW same, NEW left, SameLeft(same, t) => left
    PROVE  Takes(s, X ++ Y, same, X, left)
BY Dropped, HoldsWeakly DEF Takes

\* and leaves the same, or fails, elsewhere.
LEMMA DropLeads ==
    ASSUME NEW X, NEW Y, NEW t, NEW names, NEW keys, NEW tos, In(Y, t, names, keys, tos),
           Away(X, t, names, keys), NEW s, Drops(s, t, names),
           NEW same, NEW left, SameLeft(same, t) => left
    PROVE  Leads(s, X ++ Y, same, X, left)
BY Dropped, HoldsWeakly DEF Leads

\* Dropping the table alone takes its indexes and constraints along.
LEMMA TableDropTakes ==
    ASSUME NEW X, NEW Y, NEW t, NEW names, NEW keys, NEW tos, In(Y, t, names, keys, tos),
           NEW n2, NEW k2, Away(X, t, n2, k2), Y.c # {}
    PROVE  Takes(<<DropTable(t)>>, X ++ Y, TRUE, X, TRUE)
<1> SUFFICES ASSUME NEW d, Holds(d, X ++ Y, TRUE)
             PROVE  LET e == Run(<<DropTable(t)>>, d) IN Holds(e, X, TRUE)
                          /\ (~d.aborted => ~e.aborted)
  BY DEF Takes
<1> DEFINE e == Apply(d, DropTable(t))
<1>1. Run(<<DropTable(t)>>, d) = e
  BY OneStatement
<1>2. Holds(e, X, SameLeft(TRUE, t)) /\ (~d.aborted => ~e.aborted)
  BY TableDropped
<1> HIDE DEF e
<1>3. Holds(e, X, TRUE)
  BY <1>2, HoldsWeakly
<1> QED BY <1>1, <1>2, <1>3
-----------------------------------------------------------------------------
(* Versions *)

\* What is in the database at each version
Core == LI ++ LOG
Rest(type) == (Core ++ TS(type)) ++ WM

At(v) ==
    CASE v = 0 -> Nothing
      [] v = 1 -> (LI ++ PR) ++ ST
      [] v = 2 -> LI
      [] v = 3 -> (LI ++ B3) ++ LOG
      [] v = 4 -> Core ++ B4
      [] v = 5 -> (Core ++ TS("integer")) ++ B4
      [] v = 6 -> (Core ++ TS("bigint")) ++ B4
      [] v = 7 -> Rest("bigint") ++ B7
      [] v = 8 -> (Rest("bigint") ++ AN("varchar4")) ++ B7
      [] v = 9 -> (Rest("bigint") ++ AN("varchar5")) ++ B7
      [] v = 10 -> Core ++ B7
      [] v = 11 -> (JLI ++ LOG) ++ B7
      [] v = 12 -> (JLI ++ LOG) ++ B12

\* Schedules, and with them names, are there from version 3 on.
Shared(v) == v >= 3

\* A block whose indexes are not unique
LEMMA IndexesNotUnique ==
    ASSUME NEW s, NEW t, Creates(s, t), \A k \in 2..Len(s) : ~s[k].index.unique, NEW same
    PROVE  Free(Ixs(s), same)
<1> SUFFICES ASSUME NEW i \in Ixs(s) PROVE ~i.unique
  BY DEF Free
<1>1. PICK k \in 1..(Len(s) - 1) : i = s[k + 1].index
  BY DEF Ixs, Firsts, IndexesOf
<1>2. k + 1 \in 2..Len(s)
  BY DEF Creates
<1> QED BY <1>1, <1>2

\* Small ranges, number by number
LEMMA TwoToFive ==
    /\ \A k \in 2..3 : k = 2 \/ k = 3
    /\ \A k \in 2..4 : k = 2 \/ k = 3 \/ k = 4
    /\ \A k \in 2..5 : k = 2 \/ k = 3 \/ k = 4 \/ k = 5
    /\ \A k \in 2..6 : k = 2 \/ k = 3 \/ k = 4 \/ k = 5 \/ k = 6
OBVIOUS

\* No index of these tables is unique: that of the names of schedules is the only one.
LEMMA ListedInfoFree ==
    ASSUME NEW same PROVE Free(Ixs(CreateListedInfo), same)
<1> DEFINE s == CreateListedInfo
<1>1. Len(s) = 3
  BY DEF CreateListedInfo
<1>2. /\ s[2] = CreateIndex(Index("idx_listed_info_code", "listed_info", {"code"}))
      /\ s[3] = CreateIndex(Index("idx_listed_info_date", "listed_info", {"date"}))
  BY IndexIs DEF CreateListedInfo
<1> HIDE DEF s
<1>3. \A k \in 2..3 : ~s[k].index.unique
  BY <1>2, IndexIs, TwoToFive
<1> QED BY <1>1, <1>3, IndexesNotUnique, ListedInfoBlock DEF Block, s

LEMMA PriceFree ==
    ASSUME NEW same PROVE Free(Ixs(CreatePrices), same)
<1> DEFINE s == CreatePrices
<1>1. Len(s) = 4
  BY DEF CreatePrices
<1>2. /\ s[2] = CreateIndex(Index("ix_prices_id", "prices", {"id"}))
      /\ s[3] = CreateIndex(Index("ix_prices_ticker_symbol", "prices", {"ticker_symbol"}))
      /\ s[4] = CreateIndex(Index("ix_prices_timestamp", "prices", {"timestamp"}))
  BY IndexIs DEF CreatePrices
<1> HIDE DEF s
<1>3. \A k \in 2..4 : ~s[k].index.unique
  BY <1>2, IndexIs, TwoToFive
<1> QED BY <1>1, <1>3, IndexesNotUnique, PriceBlock DEF Block, s

LEMMA StockFree ==
    ASSUME NEW same PROVE Free(Ixs(CreateStocks), same)
<1> DEFINE s == CreateStocks
<1>1. Len(s) = 5
  BY DEF CreateStocks
<1>2. /\ s[2] = CreateIndex(Index("ix_stocks_id", "stocks", {"id"}))
      /\ s[3] = CreateIndex(Index("ix_stocks_market", "stocks", {"market"}))
      /\ s[4] = CreateIndex(Index("ix_stocks_sector", "stocks", {"sector"}))
      /\ s[5] = CreateIndex(Index("ix_stocks_ticker_symbol", "stocks", {"ticker_symbol"}))
  BY IndexIs DEF CreateStocks
<1> HIDE DEF s
<1>3. \A k \in 2..5 : ~s[k].index.unique
  BY <1>2, IndexIs, TwoToFive
<1> QED BY <1>1, <1>3, IndexesNotUnique, StockBlock DEF Block, s

LEMMA LogFree ==
    ASSUME NEW same PROVE Free(Ixs(CreateTaskLogs), same)
<1> DEFINE s == CreateTaskLogs
<1>1. Len(s) = 6
  BY DEF CreateTaskLogs
<1>2. /\ s[2] = CreateIndex(Index("ix_task_execution_logs_schedule_id",
           "task_execution_logs", {"schedule_id"}))
      /\ s[3] = CreateIndex(Index("ix_task_execution_logs_started_at",
           "task_execution_logs", {"started_at"}))
      /\ s[4] = CreateIndex(Index("ix_task_execution_logs_status", "task_execution_logs",
           {"status"}))
      /\ s[5] = CreateIndex(Index("ix_task_execution_logs_task_id", "task_execution_logs",
           {"task_id"}))
      /\ s[6] = CreateIndex(Index("ix_task_execution_logs_task_name",
           "task_execution_logs", {"task_name"}))
  BY IndexIs DEF CreateTaskLogs
<1> HIDE DEF s
<1>3. \A k \in 2..6 : ~s[k].index.unique
  BY <1>2, IndexIs, TwoToFive
<1> QED BY <1>1, <1>3, IndexesNotUnique, LogBlock DEF Block, s

LEMMA TradeFree ==
    ASSUME NEW type, NEW same PROVE Free(Ixs(TradesSpec(type)), same)
<1> DEFINE s == TradesSpec(type)
<1>1. Len(s) = 5
  BY DEF TradesSpec
<1>2. /\ s[2] = CreateIndex(Index("idx_trades_spec_code", "trades_spec", {"code"}))
      /\ s[3] = CreateIndex(Index("idx_trades_spec_date", "trades_spec", {"trade_date"}))
      /\ s[4] = CreateIndex(Index("idx_trades_spec_section", "trades_spec", {"section"}))
      /\ s[5] = CreateIndex(Index("idx_trades_spec_date_section", "trades_spec",
           {"trade_date", "section"}))
  BY IndexIs DEF TradesSpec
<1> HIDE DEF s
<1>3. \A k \in 2..5 : ~s[k].index.unique
  BY <1>2, IndexIs, TwoToFive
<1> QED BY <1>1, <1>3, IndexesNotUnique, TradeBlock DEF Block, s

LEMMA MarginFree ==
    ASSUME NEW same PROVE Free(Ixs(WeeklyMarginInterest), same)
<1> DEFINE s == WeeklyMarginInterest
<1>1. Len(s) = 5
  BY DEF WeeklyMarginInterest
<1>2. /\ s[2] = CreateIndex(Index("idx_weekly_margin_interest_code",
           "weekly_margin_interest", {"code"}))
      /\ s[3] = CreateIndex(Index("idx_weekly_margin_interest_date",
           "weekly_margin_interest", {"date"}))
      /\ s[4] = CreateIndex(Index("idx_weekly_margin_interest_date_issue_type",
           "weekly_margin_interest", {"date", "issue_type"}))
      /\ s[5] = CreateIndex(Index("idx_weekly_margin_interest_issue_type",
           "weekly_margin_interest", {"issue_type"}))
  BY IndexIs DEF WeeklyMarginInterest
<1> HIDE DEF s
<1>3. \A k \in 2..5 : ~s[k].index.unique
  BY <1>2, IndexIs, TwoToFive
<1> QED BY <1>1, <1>3, IndexesNotUnique, MarginBlock DEF Block, s

LEMMA AnnouncementFree ==
    ASSUME NEW code, NEW same PROVE Free(Ixs(Announcements(code)), same)
<1> DEFINE s == Announcements(code)
<1>1. Len(s) = 3
  BY DEF Announcements
<1>2. /\ s[2] = CreateIndex(Index("ix_announcements_code", "announcements", {"code"}))
      /\ s[3] = CreateIndex(Index("ix_announcements_date", "announcements", {"date"}))
  BY IndexIs DEF Announcements
<1> HIDE DEF s
<1>3. \A k \in 2..3 : ~s[k].index.unique
  BY <1>2, IndexIs, TwoToFive
<1> QED BY <1>1, <1>3, IndexesNotUnique, AnnouncementBlock DEF Block, s

\* The versions one by one
LEMMA AtIs ==
    /\ At(0) = Nothing /\ At(1) = (LI ++ PR) ++ ST /\ At(2) = LI
         /\ At(3) = (LI ++ B3) ++ LOG
    /\ At(4) = Core ++ B4 /\ At(5) = (Core ++ TS("integer")) ++ B4
    /\ At(6) = (Core ++ TS("bigint")) ++ B4 /\ At(7) = Rest("bigint") ++ B7
    /\ At(8) = (Rest("bigint") ++ AN("varchar4")) ++ B7
    /\ At(9) = (Rest("bigint") ++ AN("varchar5")) ++ B7
    /\ At(10) = Core ++ B7 /\ At(11) = (JLI ++ LOG) ++ B7 /\ At(12) = (JLI ++ LOG) ++ B12
BY DEF At

\* Names may be shared from version 3 on.
LEMMA SharedIs ==
    /\ Shared(0) = FALSE /\ Shared(1) = FALSE /\ Shared(2) = FALSE
    /\ \A v \in 3..12 : Shared(v) = TRUE
BY DEF Shared

\* data_sources, a table from before the revisions, may be there.
Legacy(X) == (\A c \in X.c : c.table = "data_sources") /\ X.i = {} /\ X.k = {}

\* The first revision, over whatever legacy table is there
LEMMA UpTo1 ==
    ASSUME NEW X, Legacy(X)
    PROVE  Takes(UpInitial, X, FALSE, At(1), FALSE)
<1>1. /\ Away(X, "listed_info", ListedInfoIndexes, ListedInfoKeys)
      /\ Away(X, "prices", PriceIndexes, PriceKeys)
      /\ Away(X, "stocks", StockIndexes, StockKeys)
  BY DEF Legacy, Away, Foreign
<1> DEFINE X1 == X ++ LI
           X2 == X1 ++ PR
           X3 == X2 ++ ST
           last == <<DropTableIfExists("data_sources")>>
<1>2. Takes(CreateListedInfo, X, FALSE, X1, FALSE)
  BY <1>1, CreateTakes, ListedInfoBlock, ListedInfoFree DEF LI
<1>3. Takes(CreatePrices, X1, FALSE, X2, FALSE)
  <2>1. Away(X1, "prices", PriceIndexes, PriceKeys)
    BY <1>1, ListedInfoAway, AwayTogether
  <2> HIDE DEF X1
  <2> QED BY <2>1, CreateTakes, PriceBlock, PriceFree DEF PR
<1>4. Takes(CreateStocks, X2, FALSE, X3, FALSE)
  <2>1. Away(X2, "stocks", StockIndexes, StockKeys)
    BY <1>1, ListedInfoAway, PricesAway, AwayTogether
  <2> HIDE DEF X2
  <2> QED BY <2>1, CreateTakes, StockBlock, StockFree DEF ST
<1>5. Takes(last, X3, FALSE, At(1), FALSE)
  <2> SUFFICES ASSUME NEW d, Holds(d, X3, FALSE)
               PROVE  Holds(Run(last, d), At(1), FALSE)
                      /\ (~d.aborted => ~Run(last, d).aborted)
    BY DEF Takes
  <2> DEFINE t == "data_sources"
             e == Apply(d, DropTableIfExists(t))
             A1 == At(1)
  <2>1. Run(last, d) = e
    BY OneStatement
  <2>2. /\ Fits(e, NotOf(t, X3.c), NotOf(t, X3.i), NotOf(t, X3.k), SameLeft(FALSE, t))
        /\ ~d.aborted => ~e.aborted
    BY DropsTableIfExists DEF Holds
  <2>3. /\ X3.c = ((X.c \cup LI.c) \cup PR.c) \cup ST.c /\ A1.c = (LI.c \cup PR.c) \cup ST.c
        /\ X3.i = ((X.i \cup LI.i) \cup PR.i) \cup ST.i /\ A1.i = (LI.i \cup PR.i) \cup ST.i
        /\ X3.k = ((X.k \cup LI.k) \cup PR.k) \cup ST.k /\ A1.k = (LI.k \cup PR.k) \cup ST.k
    BY JoinParts, AtIs
  <2>4. \A u \in {"listed_info", "prices", "stocks"} : u # t
    OBVIOUS
  <2>5. /\ \A x \in LI.c \cup LI.i \cup LI.k : x.table # t
        /\ \A x \in PR.c \cup PR.i \cup PR.k : x.table # t
        /\ \A x \in ST.c \cup ST.i \cup ST.k : x.table # t
    BY PartsIn DEF In, Owned
  <2>6. NotOf(t, X3.c) = A1.c
    BY <2>3, <2>5 DEF NotOf, Legacy
  <2>7. NotOf(t, X3.i) = A1.i /\ NotOf(t, X3.k) = A1.k
    BY <2>3, <2>5 DEF NotOf, Legacy
  <2> HIDE DEF e, A1, X3, last
  <2>8. Holds(e, A1, SameLeft(FALSE, t))
    BY <2>2, <2>6, <2>7 DEF Holds
  <2>9. Holds(e, A1, FALSE)
    BY <2>8, HoldsWeakly DEF SameLeft
  <2> QED BY <2>1, <2>2, <2>9 DEF A1
<1> HIDE DEF X1, X2, X3
<1>6. Statements(last)
  BY StatementKinds, Tuple1
<1> HIDE DEF last
<1>7. /\ Statements(CreateListedInfo) /\ Statements(CreatePrices)
           /\ Statements(CreateStocks)
      /\ Statements(CreateListedInfo \o CreatePrices)
      /\ Statements((CreateListedInfo \o CreatePrices) \o CreateStocks)
  BY PiecesAreStatements, StatementsTogether
<1>8. Takes(CreateListedInfo \o CreatePrices, X, FALSE, X2, FALSE)
  BY <1>2, <1>3, <1>7, TakesOn
<1>9. Takes((CreateListedInfo \o CreatePrices) \o CreateStocks, X, FALSE, X3, FALSE)
  BY <1>4, <1>7, <1>8, TakesOn
<1>10. Takes(((CreateListedInfo \o CreatePrices) \o CreateStocks) \o last, X, FALSE,
         At(1), FALSE)
  BY <1>5, <1>6, <1>7, <1>9, TakesOn
<1> QED BY <1>10 DEF UpInitial, last

\* A block with an index has a column.
LEMMA ColumnThere ==
    ASSUME NEW s, NEW t, Creates(s, t), 2 \in 2..Len(s), NEW c, c \in s[2].index.columns
    PROVE  Part(s).c # {}
<1>1. PICK i : s[2] = CreateIndex(i) /\ i.columns \subseteq Heads(s[1].columns)
  BY DEF Creates
<1>2. c \in Heads(s[1].columns)
  BY <1>1, IndexIs
<1>3. PICK p \in s[1].columns : c = p[1]
  BY <1>2 DEF Heads
<1>4. Column(s[1].table, p[1], p[2]) \in Cols(s)
  BY DEF Cols, TableColumns
<1> QED BY <1>4 DEF Part

\* The tables of the revisions have columns.
LEMMA SomeColumns ==
    /\ LI.c # {} /\ PR.c # {} /\ ST.c # {}
    /\ \A ty : TS(ty).c # {} /\ AN(ty).c # {}
    /\ WM.c # {}
<1>1. LI.c # {}
  <2> DEFINE s == CreateListedInfo
  <2>1. Len(s) = 3 /\ s[2] = CreateIndex(Index("idx_listed_info_code", "listed_info",
          {"code"}))
    BY IndexIs DEF CreateListedInfo
  <2> HIDE DEF s
  <2>2. "code" \in s[2].index.columns /\ 2 \in 2..Len(s)
    BY <2>1, IndexIs
  <2> QED BY <2>2, ColumnThere, ListedInfoBlock DEF Block, s, LI
<1>2. PR.c # {}
  <2> DEFINE s == CreatePrices
  <2>1. Len(s) = 4 /\ s[2] = CreateIndex(Index("ix_prices_id", "prices", {"id"}))
    BY IndexIs DEF CreatePrices
  <2> HIDE DEF s
  <2>2. "id" \in s[2].index.columns /\ 2 \in 2..Len(s)
    BY <2>1, IndexIs
  <2> QED BY <2>2, ColumnThere, PriceBlock DEF Block, s, PR
<1>3. ST.c # {}
  <2> DEFINE s == CreateStocks
  <2>1. Len(s) = 5 /\ s[2] = CreateIndex(Index("ix_stocks_id", "stocks", {"id"}))
    BY IndexIs DEF CreateStocks
  <2> HIDE DEF s
  <2>2. "id" \in s[2].index.columns /\ 2 \in 2..Len(s)
    BY <2>1, IndexIs
  <2> QED BY <2>2, ColumnThere, StockBlock DEF Block, s, ST
<1>4. ASSUME NEW ty PROVE TS(ty).c # {}
  <2> DEFINE s == TradesSpec(ty)
  <2>1. Len(s) = 5 /\ s[2] = CreateIndex(Index("idx_trades_spec_code", "trades_spec",
          {"code"}))
    BY IndexIs DEF TradesSpec
  <2> HIDE DEF s
  <2>2. "code" \in s[2].index.columns /\ 2 \in 2..Len(s)
    BY <2>1, IndexIs
  <2> QED BY <2>2, ColumnThere, TradeBlock DEF Block, s, TS
<1>5. WM.c # {}
  <2> DEFINE s == WeeklyMarginInterest
  <2>1. Len(s) = 5 /\ s[2] = CreateIndex(Index("idx_weekly_margin_interest_code",
          "weekly_margin_interest", {"code"}))
    BY IndexIs DEF WeeklyMarginInterest
  <2> HIDE DEF s
  <2>2. "code" \in s[2].index.columns /\ 2 \in 2..Len(s)
    BY <2>1, IndexIs
  <2> QED BY <2>2, ColumnThere, MarginBlock DEF Block, s, WM
<1>6. ASSUME NEW ty PROVE AN(ty).c # {}
  <2> DEFINE s == Announcements(ty)
  <2>1. Len(s) = 3 /\ s[2] = CreateIndex(Index("ix_announcements_code", "announcements",
          {"code"}))
    BY IndexIs DEF Announcements
  <2> HIDE DEF s
  <2>2. "code" \in s[2].index.columns /\ 2 \in 2..Len(s)
    BY <2>1, IndexIs
  <2> QED BY <2>2, ColumnThere, AnnouncementBlock DEF Block, s, AN
<1> QED BY <1>1, <1>2, <1>3, <1>4, <1>5, <1>6

\* 7c1fab59358e drops prices and stocks, which the first revision has made.
LEMMA UpTo2 == Takes(UpRemoveUnused, At(1), FALSE, At(2), FALSE)
<1>1. At(1) = (LI ++ ST) ++ PR
  BY AtIs, JoinSwaps
<1>2. Takes(DropPrices, (LI ++ ST) ++ PR, FALSE, LI ++ ST, FALSE)
  <2>1. Away(LI ++ ST, "prices", PriceIndexes, PriceKeys)
    BY ListedInfoAway, PricesAway, AwayTogether
  <2>2. NamesOnce(DropPrices, PR.i)
    BY NamesOfPrices DEF PR, Part
  <2> QED BY <2>1, <2>2, DropTakes, PartsIn, DropPricesDrops, SomeColumns DEF SameLeft
<1>3. Takes(DropStocks, LI ++ ST, FALSE, LI, FALSE)
  <2>1. NamesOnce(DropStocks, ST.i)
    BY NamesOfStocks DEF ST, Part
  <2> QED BY <2>1, ListedInfoAway, DropTakes, PartsIn, DropStocksDrops, SomeColumns
             DEF SameLeft
<1> QED BY <1>1, <1>2, <1>3, TakesOn, PiecesAreStatements, AtIs DEF UpRemoveUnused

\* 87e8a6480680 creates the tables of Celery Beat.
LEMMA UpTo3 == Takes(UpBeatTables, At(2), FALSE, At(3), TRUE)
<1>1. Takes(CreateBeatSchedules, LI, FALSE, LI ++ B3, FALSE)
  <2>1. Away(LI, "celery_beat_schedules", BeatIndexes, BeatKeys)
    <3>1. BeatIndexes \subseteq BeatNames /\ BeatKeys \subseteq AllBeatKeys
      BY DEF BeatIndexes, BeatKeys, BeatNames, AllBeatKeys
    <3> QED BY <3>1, ListedInfoAway DEF Away, Foreign, B
  <2>2. Free(Ixs(CreateBeatSchedules), FALSE)
    BY NothingUnique
  <2> QED BY <2>1, <2>2, BeatBlock, CreateTakes, FirstBeatPart
<1>2. Takes(CreateTaskLogs, LI ++ B3, FALSE, (LI ++ B3) ++ LOG, FALSE)
  <2>1. Away(LI ++ B3, "task_execution_logs", LogIndexes, LogKeys)
    BY ListedInfoAway, BeatAway, AwayTogether
  <2> QED BY <2>1, LogBlock, LogFree, CreateTakes DEF LOG
<1>3. Takes(UpBeatTables, LI, FALSE, (LI ++ B3) ++ LOG, FALSE)
  BY <1>1, <1>2, TakesOn, PiecesAreStatements DEF UpBeatTables
<1>4. Takes(UpBeatTables, LI, FALSE, (LI ++ B3) ++ LOG, TRUE)
  BY <1>3, HoldsWeakly DEF Takes
<1> QED BY <1>4, AtIs

\* Down from the first revision nothing is left,
LEMMA DownTo0 == Leads(DownInitial, At(1), FALSE, At(0), FALSE)
<1>1. Leads(DropStocks, (LI ++ PR) ++ ST, FALSE, LI ++ PR, FALSE)
  <2>1. Away(LI ++ PR, "stocks", StockIndexes, StockKeys)
    BY ListedInfoAway, PricesAway, AwayTogether
  <2> QED BY <2>1, DropLeads, PartsIn, DropStocksDrops DEF SameLeft
<1>2. Leads(DropPrices, LI ++ PR, FALSE, LI, FALSE)
  BY ListedInfoAway, DropLeads, PartsIn, DropPricesDrops DEF SameLeft
<1>3. Leads(DropListedInfo, LI, FALSE, Nothing, FALSE)
  <2>1. Nothing ++ LI = LI
    BY DEF ++, Nothing, LI, Part
  <2>2. Away(Nothing, "listed_info", ListedInfoIndexes, ListedInfoKeys)
    BY DEF Nothing, Away, Foreign
  <2>3. Leads(DropListedInfo, Nothing ++ LI, FALSE, Nothing, FALSE)
    BY <2>2, DropLeads, PartsIn, DropListedInfoDrops DEF SameLeft
  <2> QED BY <2>1, <2>3
<1>4. /\ Statements(DropStocks) /\ Statements(DropPrices) /\ Statements(DropListedInfo)
      /\ Statements(DropStocks \o DropPrices)
  BY PiecesAreStatements, StatementsTogether
<1>5. Leads(DropStocks \o DropPrices, (LI ++ PR) ++ ST, FALSE, LI, FALSE)
  BY <1>1, <1>2, <1>4, LeadsOn
<1>6. Leads((DropStocks \o DropPrices) \o DropListedInfo, (LI ++ PR) ++ ST, FALSE,
        Nothing, FALSE)
  BY <1>3, <1>4, <1>5, LeadsOn
<1> QED BY <1>6, AtIs DEF DownInitial

\* from the second prices and stocks are back,
LEMMA DownTo1 == Leads(DownRemoveUnused, At(2), FALSE, At(1), FALSE)
<1>1. Leads(CreateStocks, LI, FALSE, LI ++ ST, FALSE)
  BY CreateLeads, StockBlock DEF ST
<1>2. Leads(CreatePrices, LI ++ ST, FALSE, (LI ++ ST) ++ PR, FALSE)
  BY CreateLeads, PriceBlock DEF PR
<1>3. (LI ++ ST) ++ PR = (LI ++ PR) ++ ST
  BY JoinSwaps
<1> QED BY <1>1, <1>2, <1>3, LeadsOn, PiecesAreStatements, AtIs DEF DownRemoveUnused

\* and from the third the tables of Celery Beat are gone, with all shared names.
LEMMA DownTo2 == Leads(DownBeatTables, At(3), TRUE, At(2), FALSE)
<1>1. Leads(DropTaskLogs, (LI ++ B3) ++ LOG, TRUE, LI ++ B3, TRUE)
  <2>1. Away(LI ++ B3, "task_execution_logs", LogIndexes, LogKeys)
    BY ListedInfoAway, BeatAway, AwayTogether
  <2> QED BY <2>1, DropLeads, PartsIn, DropTaskLogsDrops
<1>2. Leads(DropBeatSchedules, LI ++ B3, TRUE, LI, FALSE)
  <2>1. Drops(DropBeatSchedules, B, BeatNames)
    <3>1. BeatIndexes \subseteq BeatNames
      BY DEF BeatIndexes, BeatNames
    <3> QED BY <3>1, DropBeatSchedulesDrops DEF Drops, B
  <2>2. SameLeft(TRUE, B) => FALSE
    BY DEF SameLeft, B
  <2> QED BY <2>1, <2>2, DropLeads, BeatsIn, ListedInfoAway
<1> QED BY <1>1, <1>2, LeadsOn, PiecesAreStatements, AtIs DEF DownBeatTables
-----------------------------------------------------------------------------
(* celery_beat_schedules *)

\* The part of celery_beat_schedules with these columns, indexes and constraints
BeatPart(C, I, K) == [c |-> C, i |-> I, k |-> K]

\* A part that has nothing of it
BeatFree(X) ==
    /\ \A c \in X.c : c.table # B
    /\ \A i \in X.i : i.table # B /\ i.name \notin BeatNames
    /\ \A k \in X.k : k.name \notin AllBeatKeys

\* It has these columns, and nothing is called so.
BeatHas(C, cs) == HasColumns(C, B, cs)

Unused(I, n) == \A i \in I : i.name # n

\* Its fields, beside another part
LEMMA BeatPartIs ==
    \A X, C, I, K : /\ (X ++ BeatPart(C, I, K)).c = X.c \cup C
                    /\ (X ++ BeatPart(C, I, K)).i = X.i \cup I
                    /\ (X ++ BeatPart(C, I, K)).k = X.k \cup K
BY DEF ++, BeatPart

\* A database that holds it beside another part
LEMMA BeatHolds ==
    \A d, X, C, I, K : Holds(d, X ++ BeatPart(C, I, K), TRUE)
                         <=> Fits(d, X.c \cup C, X.i \cup I, X.k \cup K, TRUE)
<1> SUFFICES ASSUME NEW d, NEW X, NEW C, NEW I, NEW K
             PROVE  Holds(d, X ++ BeatPart(C, I, K), TRUE)
                      <=> Fits(d, X.c \cup C, X.i \cup I, X.k \cup K, TRUE)
  OBVIOUS
<1> DEFINE Y == X ++ BeatPart(C, I, K)
<1>1. Y.c = X.c \cup C /\ Y.i = X.i \cup I /\ Y.k = X.k \cup K
  BY BeatPartIs
<1> HIDE DEF Y
<1>2. Holds(d, Y, TRUE) <=> Fits(d, X.c \cup C, X.i \cup I, X.k \cup K, TRUE)
  BY <1>1 DEF Holds
<1> QED BY <1>2 DEF Y

\* Statements about celery_beat_schedules leave what is beside it alone: drop_index,
LEMMA BeatIndexDropped ==
    ASSUME NEW X, BeatFree(X), NEW C, NEW I, NEW K, NEW d,
           Holds(d, X ++ BeatPart(C, I, K), TRUE),
           NEW n \in BeatNames
    PROVE  LET e == Apply(d, DropIndex(n)) IN
           /\ Holds(e, X ++ BeatPart(C, Unnamed(n, I), K), TRUE)
           /\ ~d.aborted /\ (\E i \in I : i.name = n) => ~e.aborted
<1> DEFINE e == Apply(d, DropIndex(n))
           J == X.i \cup I
<1>1. Fits(d, X.c \cup C, J, X.k \cup K, TRUE)
  BY BeatHolds
<1>2. Unnamed(n, J) = X.i \cup Unnamed(n, I)
  BY DEF Unnamed, BeatFree
<1>3. (\E i \in I : i.name = n) => \E i \in J : i.name = n
  OBVIOUS
<1> HIDE DEF J
<1>4. Fits(e, X.c \cup C, Unnamed(n, J), X.k \cup K, TRUE)
  BY <1>1, DropsIndex
<1>5. ~d.aborted /\ (\E i \in J : i.name = n) => ~e.aborted
  BY <1>1, DropsIndex
<1> HIDE DEF e
<1>6. Holds(e, X ++ BeatPart(C, Unnamed(n, I), K), TRUE)
  BY <1>2, <1>4, BeatHolds
<1> QED BY <1>3, <1>5, <1>6 DEF e

\* create_index,
LEMMA BeatIndexCreated ==
    ASSUME NEW X, BeatFree(X), NEW C, NEW I, NEW K, NEW d,
           Holds(d, X ++ BeatPart(C, I, K), TRUE),
           NEW n \in BeatNames, NEW cs
    PROVE  LET i == Index(n, B, cs)
               e == Apply(d, CreateIndex(i)) IN
           /\ Holds(e, X ++ BeatPart(C, I \cup {i}, K), TRUE)
           /\ ~d.aborted /\ BeatHas(C, cs) /\ Unused(I, n) => ~e.aborted
<1> DEFINE i == Index(n, B, cs)
           e == Apply(d, CreateIndex(i))
           J == X.i \cup I
           D == X.c \cup C
<1>1. Fits(d, D, J, X.k \cup K, TRUE)
  BY BeatHolds
<1>2. i.name = n /\ i.table = B /\ i.columns = cs /\ ~i.unique
  BY IndexIs
<1>3. J \cup {i} = X.i \cup (I \cup {i})
  OBVIOUS
<1> HIDE DEF i
<1>4. BeatHas(C, cs) /\ Unused(I, n) => MayIndex(D, J, TRUE, i)
  BY <1>2 DEF BeatHas, Unused, MayIndex, HasColumns, BeatFree
<1> HIDE DEF J, D
<1>5. Fits(e, D, J \cup {i}, X.k \cup K, TRUE)
  BY <1>1, CreatesIndex
<1>6. ~d.aborted /\ MayIndex(D, J, TRUE, i) => ~e.aborted
  BY <1>1, CreatesIndex
<1> HIDE DEF e
<1>7. Holds(e, X ++ BeatPart(C, I \cup {i}, K), TRUE)
  BY <1>3, <1>5, BeatHolds DEF D
<1> QED BY <1>4, <1>6, <1>7 DEF e, i

\* add_column,
LEMMA BeatColumnAdded ==
    ASSUME NEW X, BeatFree(X), NEW C, NEW I, NEW K, NEW d,
           Holds(d, X ++ BeatPart(C, I, K), TRUE),
           NEW n
    PROVE  LET e == Apply(d, AddColumn(B, n)) IN
           /\ Holds(e, X ++ BeatPart(C \cup {Column(B, n, "as declared")}, I, K), TRUE)
           /\ /\ ~d.aborted
              /\ \E c \in C : c.table = B
              /\ Unused(C, n)
              => ~e.aborted
<1> DEFINE e == Apply(d, AddColumn(B, n))
           D == X.c \cup C
           new == Column(B, n, "as declared")
<1>1. Fits(d, D, X.i \cup I, X.k \cup K, TRUE)
  BY BeatHolds
<1>2. D \cup {new} = X.c \cup (C \cup {new})
  OBVIOUS
<1>3. (\E c \in C : c.table = B) => \E c \in D : c.table = B
  OBVIOUS
<1>4. Unused(C, n) => \A c \in D : c.table = B => c.name # n
  BY DEF Unused, BeatFree
<1> HIDE DEF D
<1>5. Fits(e, D \cup {new}, X.i \cup I, X.k \cup K, TRUE)
  BY <1>1, AddsColumn
<1>6. ~d.aborted /\ (\E c \in D : c.table = B) /\ (\A c \in D : c.table = B => c.name # n)
        => ~e.aborted
  BY <1>1, AddsColumn
<1> HIDE DEF e, new
<1>7. Holds(e, X ++ BeatPart(C \cup {new}, I, K), TRUE)
  BY <1>2, <1>5, BeatHolds
<1> QED BY <1>3, <1>4, <1>6, <1>7 DEF e, new

\* drop_column,
LEMMA BeatColumnDropped ==
    ASSUME NEW X, BeatFree(X), NEW C, NEW I, NEW K, NEW d,
           Holds(d, X ++ BeatPart(C, I, K), TRUE),
           NEW n
    PROVE  Holds(Apply(d, DropColumn(B, n)),
           X ++ BeatPart(LessColumn(C, B, n), LessIndexes(I, B, n), K), TRUE)
<1> DEFINE e == Apply(d, DropColumn(B, n))
           D == X.c \cup C
           J == X.i \cup I
<1>1. Fits(d, D, J, X.k \cup K, TRUE)
  BY BeatHolds
<1>2. LessColumn(D, B, n) = X.c \cup LessColumn(C, B, n)
  BY DEF LessColumn, BeatFree
<1>3. LessIndexes(J, B, n) = X.i \cup LessIndexes(I, B, n)
  BY DEF LessIndexes, BeatFree
<1> HIDE DEF D, J
<1>5. Fits(e, LessColumn(D, B, n), LessIndexes(J, B, n), X.k \cup K, TRUE)
  BY <1>1, DropsColumn
<1> HIDE DEF e
<1>6. Fits(e, X.c \cup LessColumn(C, B, n), X.i \cup LessIndexes(I, B, n), X.k \cup K, TRUE)
  BY <1>2, <1>3, <1>5
<1> QED BY <1>6, BeatHolds DEF e

\* create_check_constraint,
LEMMA BeatConstraintAdded ==
    ASSUME NEW X, BeatFree(X), NEW C, NEW I, NEW K, NEW d,
           Holds(d, X ++ BeatPart(C, I, K), TRUE),
           NEW n \in AllBeatKeys
    PROVE  LET e == Apply(d, AddConstraint(Key(n, B))) IN
           /\ Holds(e, X ++ BeatPart(C, I, K \cup {Key(n, B)}), TRUE)
           /\ /\ ~d.aborted
              /\ \E c \in C : c.table = B
              /\ Unused(K, n)
              => ~e.aborted
<1> DEFINE new == Key(n, B)
           e == Apply(d, AddConstraint(new))
           D == X.c \cup C
           L == X.k \cup K
<1>1. Fits(d, D, X.i \cup I, L, TRUE)
  BY BeatHolds
<1>2. L \cup {new} = X.k \cup (K \cup {new})
  OBVIOUS
<1>3. new.name = n /\ new.table = B
  BY KeyIs
<1> HIDE DEF new
<1>4. (\E c \in C : c.table = B) => \E c \in D : c.table = new.table
  BY <1>3
<1>5. Unused(K, n) => \A j \in L : j.name # new.name
  BY <1>3 DEF Unused, BeatFree
<1> HIDE DEF D, L
<1>6. Fits(e, D, X.i \cup I, L \cup {new}, TRUE)
  BY <1>1, AddsConstraint
<1>7. ~d.aborted /\ (\E c \in D : c.table = new.table) /\ (\A j \in L : j.name # new.name)
        => ~e.aborted
  BY <1>1, AddsConstraint
<1> HIDE DEF e
<1>8. Holds(e, X ++ BeatPart(C, I, K \cup {new}), TRUE)
  BY <1>2, <1>6, BeatHolds DEF D
<1> QED BY <1>4, <1>5, <1>7, <1>8 DEF e, new

\* and dropping a constraint that need not be there.
LEMMA BeatConstraintDropped ==
    ASSUME NEW X, BeatFree(X), NEW C, NEW I, NEW K, NEW d,
           Holds(d, X ++ BeatPart(C, I, K), TRUE),
           NEW n \in AllBeatKeys
    PROVE  LET e == Apply(d, DropConstraintIfThere(n)) IN
           /\ Holds(e, X ++ BeatPart(C, I, Unnamed(n, K)), TRUE)
           /\ ~d.aborted => ~e.aborted
<1> DEFINE e == Apply(d, DropConstraintIfThere(n))
           L == X.k \cup K
<1>1. Fits(d, X.c \cup C, X.i \cup I, L, TRUE)
  BY BeatHolds
<1>2. Unnamed(n, L) = X.k \cup Unnamed(n, K)
  BY DEF Unnamed, BeatFree
<1> HIDE DEF L
<1>3. Fits(e, X.c \cup C, X.i \cup I, Unnamed(n, L), TRUE) /\ (~d.aborted => ~e.aborted)
  BY <1>1, DropsConstraintIfThere
<1> HIDE DEF e
<1>4. Holds(e, X ++ BeatPart(C, I, Unnamed(n, K)), TRUE)
  BY <1>2, <1>3, BeatHolds
<1> QED BY <1>3, <1>4 DEF e

\* The columns of celery_beat_schedules, one by one
LEMMA FlexibleColumnsAre ==
    FlexibleColumns = (({Column(B, "category", "as declared")}
      \cup {Column(B, "tags", "as declared")})
                        \cup {Column(B, "execution_policy", "as declared")})
                        \cup {Column(B, "auto_generated_name", "as declared")}
<1> DEFINE cs == {"category", "tags", "execution_policy", "auto_generated_name"}
<1>1. \A n \in cs : Column(B, n, "as declared") \in FlexibleColumns
  BY ColumnIn DEF FlexibleColumns
<1>2. ASSUME NEW c \in FlexibleColumns PROVE \E n \in cs : c = Column(B, n, "as declared")
  <2>1. PICK p \in Plain(cs) : c = Column(B, p[1], p[2])
    BY DEF FlexibleColumns, TableColumns
  <2>2. PICK n \in cs : p = <<n, "as declared">>
    BY <2>1 DEF Plain
  <2>3. p[1] = n /\ p[2] = "as declared"
    BY <2>2
  <2> QED BY <2>1, <2>2, <2>3
<1> QED BY <1>1, <1>2

\* The columns of 87e8a6480680, and those it does not make
LEMMA FirstColumnsHave ==
    /\ \A n \in {"id", "name", "enabled"} : \E c \in FirstColumns : c.table = B
         /\ c.name = n
    /\ \A n \in {"category", "tags", "execution_policy", "auto_generated_name",
         "last_run_at"} :
         Unused(FirstColumns, n)
<1> DEFINE cs == {"id", "name", "task_name", "cron_expression", "enabled", "args", "kwargs",
                  "description", "created_at", "updated_at"}
<1>1. \A n \in {"id", "name", "enabled"} : Column(B, n, "as declared") \in FirstColumns
  BY ColumnIn DEF FirstColumns
<1>2. \A c \in FirstColumns : c.name \in cs
  BY ColumnsIn DEF FirstColumns
<1>3. \A n \in {"category", "tags", "execution_policy", "auto_generated_name",
        "last_run_at"} : n \notin cs
  OBVIOUS
<1>4. \A n : Column(B, n, "as declared").table = B /\ Column(B, n, "as declared").name = n
  BY DEF Column
<1> QED BY <1>1, <1>2, <1>3, <1>4 DEF Unused

\* The fields of a column
LEMMA ColumnIs == \A n : /\ Column(B, n, "as declared").table = B
                         /\ Column(B, n, "as declared").name = n
BY DEF Column

\* What the indexes and the check are called
LEMMA IndexNames ==
    /\ EnabledIndex.name = "ix_celery_beat_schedules_enabled"
    /\ NameIndex.name = "ix_celery_beat_schedules_name"
    /\ LastRunIndex.name = "idx_celery_beat_schedules_last_run_at"
    /\ PolicyKey.name = "ck_celery_beat_schedules_execution_policy"
BY IndexIs, KeyIs DEF EnabledIndex, NameIndex, LastRunIndex, PolicyKey

\* A column of celery_beat_schedules
Declared(n) == Column(B, n, "as declared")

\* One statement takes a database that holds X to one that holds Y, ...
Goes(op, X, Y) ==
    \A d : Holds(d, X, TRUE) => /\ Holds(Apply(d, op), Y, TRUE)
                                /\ ~d.aborted => ~Apply(d, op).aborted

\* ... or fails
Might(op, X, Y) == \A d : Holds(d, X, TRUE) => Holds(Apply(d, op), Y, TRUE)

\* Statements that go make a script that takes,
LEMMA StepsTake ==
    ASSUME NEW ops, NEW n \in Nat, DOMAIN ops = 1..n, NEW P,
           \A k \in 1..n : Goes(ops[k], P[k], P[k + 1])
    PROVE  Takes(ops, P[1], TRUE, P[n + 1], TRUE)
<1> SUFFICES ASSUME NEW d, Holds(d, P[1], TRUE)
             PROVE  Holds(Run(ops, d), P[n + 1], TRUE)
                    /\ (~d.aborted => ~Run(ops, d).aborted)
  BY DEF Takes
<1>1. PICK r : Trace(r, ops, n, d) /\ r[n] = Run(ops, d)
  BY RunIsTrace
<1> DEFINE Ok(k) == Holds(r[k], P[k + 1], TRUE) /\ (~d.aborted => ~r[k].aborted)
           Good == {k \in Nat : k \in 0..n => Ok(k)}
<1>2. 0 \in Good
  <2>1. r[0] = d /\ 0 + 1 = 1
    BY <1>1 DEF Trace
  <2> QED BY <2>1
<1>3. ASSUME NEW k \in Nat, k \in Good PROVE k + 1 \in Good
  <2> SUFFICES ASSUME k + 1 \in 0..n PROVE Ok(k + 1)
    <3> HIDE DEF Ok
    <3> QED OBVIOUS
  <2>1. k \in 0..(n - 1) /\ k \in 0..n /\ k + 1 \in 1..n
    OBVIOUS
  <2>2. r[k + 1] = Apply(r[k], ops[k + 1])
    BY <1>1, <2>1 DEF Trace
  <2>3. Goes(ops[k + 1], P[k + 1], P[(k + 1) + 1])
    BY <2>1
  <2>4. Holds(r[k], P[k + 1], TRUE) /\ (~d.aborted => ~r[k].aborted)
    BY <1>3, <2>1
  <2> QED BY <2>2, <2>3, <2>4 DEF Goes
<1> HIDE DEF Good
<1>4. Nat \subseteq Good
  BY <1>2, <1>3, SetInduction
<1>5. n \in Good /\ n \in 0..n
  BY <1>4
<1> QED BY <1>1, <1>5 DEF Good

\* and statements that might one that leads.
LEMMA StepsLead ==
    ASSUME NEW ops, NEW n \in Nat, DOMAIN ops = 1..n, NEW P,
           \A k \in 1..n : Might(ops[k], P[k], P[k + 1])
    PROVE  Leads(ops, P[1], TRUE, P[n + 1], TRUE)
<1> SUFFICES ASSUME NEW d, Holds(d, P[1], TRUE)
             PROVE  Holds(Run(ops, d), P[n + 1], TRUE)
  BY DEF Leads
<1>1. PICK r : Trace(r, ops, n, d) /\ r[n] = Run(ops, d)
  BY RunIsTrace
<1> DEFINE Ok(k) == Holds(r[k], P[k + 1], TRUE)
           Good == {k \in Nat : k \in 0..n => Ok(k)}
<1>2. 0 \in Good
  <2>1. r[0] = d /\ 0 + 1 = 1
    BY <1>1 DEF Trace
  <2> QED BY <2>1
<1>3. ASSUME NEW k \in Nat, k \in Good PROVE k + 1 \in Good
  <2> SUFFICES ASSUME k + 1 \in 0..n PROVE Ok(k + 1)
    <3> HIDE DEF Ok
    <3> QED OBVIOUS
  <2>1. k \in 0..(n - 1) /\ k \in 0..n /\ k + 1 \in 1..n
    OBVIOUS
  <2>2. r[k + 1] = Apply(r[k], ops[k + 1])
    BY <1>1, <2>1 DEF Trace
  <2>3. Might(ops[k + 1], P[k + 1], P[(k + 1) + 1])
    BY <2>1
  <2>4. Holds(r[k], P[k + 1], TRUE)
    BY <1>3, <2>1
  <2> QED BY <2>2, <2>3, <2>4 DEF Might
<1> HIDE DEF Good
<1>4. Nat \subseteq Good
  BY <1>2, <1>3, SetInduction
<1>5. n \in Good /\ n \in 0..n
  BY <1>4
<1> QED BY <1>1, <1>5 DEF Good

\* The same statements as steps: an index is dropped,
LEMMA IndexDropGoes ==
    ASSUME NEW X, BeatFree(X), NEW C, NEW I, NEW K, NEW n \in BeatNames, NEW J,
           J = Unnamed(n, I)
    PROVE  /\ Might(DropIndex(n), X ++ BeatPart(C, I, K), X ++ BeatPart(C, J, K))
           /\ (\E i \in I : i.name = n)
                => Goes(DropIndex(n), X ++ BeatPart(C, I, K), X ++ BeatPart(C, J, K))
BY BeatIndexDropped DEF Might, Goes

\* created,
LEMMA IndexGoes ==
    ASSUME NEW X, BeatFree(X), NEW C, NEW I, NEW K, NEW n \in BeatNames, NEW cs
    PROVE  LET i == Index(n, B, cs) IN
           /\ Might(CreateIndex(i), X ++ BeatPart(C, I, K), X ++ BeatPart(C, I \cup {i}, K))
           /\ BeatHas(C, cs) /\ Unused(I, n)
                => Goes(CreateIndex(i), X ++ BeatPart(C, I, K),
                  X ++ BeatPart(C, I \cup {i}, K))
BY BeatIndexCreated DEF Might, Goes

\* a column added,
LEMMA ColumnGoes ==
    ASSUME NEW X, BeatFree(X), NEW C, NEW I, NEW K, NEW n, \E c \in C : c.table = B,
           Unused(C, n)
    PROVE  Goes(AddColumn(B, n), X ++ BeatPart(C, I, K),
                X ++ BeatPart(C \cup {Declared(n)}, I, K))
BY BeatColumnAdded DEF Goes, Declared

\* a constraint added,
LEMMA ConstraintGoes ==
    ASSUME NEW X, BeatFree(X), NEW C, NEW I, NEW K, NEW n \in AllBeatKeys,
           \E c \in C : c.table = B, Unused(K, n)
    PROVE  Goes(AddConstraint(Key(n, B)), X ++ BeatPart(C, I, K),
                X ++ BeatPart(C, I, K \cup {Key(n, B)}))
BY BeatConstraintAdded DEF Goes

\* and one that is not there not dropped.
LEMMA NoConstraintGoes ==
    ASSUME NEW X, BeatFree(X), NEW C, NEW I, NEW K, NEW n \in AllBeatKeys, Unnamed(n, K) = K
    PROVE  Goes(DropConstraintIfThere(n), X ++ BeatPart(C, I, K), X ++ BeatPart(C, I, K))
BY BeatConstraintDropped DEF Goes

\* The columns and indexes that UpFlexible makes
FlexibleIndex(c) ==
    CASE c = "name" -> Index("idx_celery_beat_schedules_name", B, {"name"})
      [] c = "category" -> Index("idx_celery_beat_schedules_category", B, {"category"})
      [] c = "tags" -> Index("idx_celery_beat_schedules_tags", B, {"tags"})

\* Indexes by their column
LEMMA FlexibleIndexIs ==
    /\ FlexibleIndex("name") = Index("idx_celery_beat_schedules_name", B, {"name"})
    /\ FlexibleIndex("category") = Index("idx_celery_beat_schedules_category", B,
         {"category"})
    /\ FlexibleIndex("tags") = Index("idx_celery_beat_schedules_tags", B, {"tags"})
    /\ FlexibleIndex("name").name = "idx_celery_beat_schedules_name"
    /\ FlexibleIndex("category").name = "idx_celery_beat_schedules_category"
    /\ FlexibleIndex("tags").name = "idx_celery_beat_schedules_tags"
    /\ FlexibleIndexes = {FlexibleIndex("name"), FlexibleIndex("category"),
         FlexibleIndex("tags")}
BY IndexIs DEF FlexibleIndex, FlexibleIndexes

\* The ten statements of dba980847750, one by one
LEMMA OneToTen ==
    /\ \A k \in 1..10 : \/ k = 1 \/ k = 2 \/ k = 3 \/ k = 4 \/ k = 5
                       \/ k = 6 \/ k = 7 \/ k = 8 \/ k = 9 \/ k = 10
    /\ 1 + 1 = 2 /\ 2 + 1 = 3 /\ 3 + 1 = 4 /\ 4 + 1 = 5 /\ 5 + 1 = 6 /\ 6 + 1 = 7
    /\ 7 + 1 = 8 /\ 8 + 1 = 9 /\ 9 + 1 = 10 /\ 10 + 1 = 11
OBVIOUS

\* dba980847750 over celery_beat_schedules as it was made, with shared names or not
LEMMA FlexibleTakes ==
    ASSUME NEW X, BeatFree(X)
    PROVE  Takes(UpFlexible, X ++ B3, TRUE, X ++ B4, TRUE)
<1> DEFINE ops == UpFlexible
           pkey == Key("celery_beat_schedules_pkey", B)
           K == {pkey}
           I0 == {EnabledIndex, NameIndex}
           I == {EnabledIndex}
           I1 == I \cup {FlexibleIndex("name")}
           I2 == I1 \cup {FlexibleIndex("category")}
           I3 == I2 \cup {FlexibleIndex("tags")}
           C == FirstColumns
           C1 == C \cup {Declared("category")}
           C2 == C1 \cup {Declared("tags")}
           C3 == C2 \cup {Declared("execution_policy")}
           C4 == C3 \cup {Declared("auto_generated_name")}
           L == K \cup {PolicyKey}
           At1(k) == CASE k = 1 -> X ++ BeatPart(C, I0, K) [] k
             = 2 -> X ++ BeatPart(C, I0, K)
                       [] k = 3 -> X ++ BeatPart(C, I, K) [] k
                         = 4 -> X ++ BeatPart(C, I1, K)
                       [] k = 5 -> X ++ BeatPart(C1, I1, K) [] k
                         = 6 -> X ++ BeatPart(C2, I1, K)
                       [] k = 7 -> X ++ BeatPart(C3, I1, K) [] k
                         = 8 -> X ++ BeatPart(C4, I1, K)
                       [] k = 9 -> X ++ BeatPart(C4, I1, L) [] k
                         = 10 -> X ++ BeatPart(C4, I2, L)
                       [] k = 11 -> X ++ BeatPart(C4, I3, L)
           P == [k \in 1..11 |-> At1(k)]
<1>1. DOMAIN ops = 1..10
  BY DEF UpFlexible
<1>2. /\ ops[1] = DropConstraintIfThere(UniqueName)
      /\ ops[2] = DropIndex("ix_celery_beat_schedules_name")
      /\ ops[3] = CreateIndex(FlexibleIndex("name"))
      /\ ops[4] = AddColumn(B, "category")
      /\ ops[5] = AddColumn(B, "tags")
      /\ ops[6] = AddColumn(B, "execution_policy")
      /\ ops[7] = AddColumn(B, "auto_generated_name")
      /\ ops[8] = AddConstraint(PolicyKey)
      /\ ops[9] = CreateIndex(FlexibleIndex("category"))
      /\ ops[10] = CreateIndex(FlexibleIndex("tags"))
  BY IndexIs, FlexibleIndexIs DEF UpFlexible, B, PolicyKey
<1> HIDE DEF ops
<1>3. Goes(ops[1], X ++ BeatPart(C, I0, K), X ++ BeatPart(C, I0, K))
  <2>1. Unnamed(UniqueName, K) = K /\ UniqueName \in AllBeatKeys
    BY KeyIs DEF Unnamed, UniqueName, AllBeatKeys
  <2> HIDE DEF K, I0, C
  <2> QED BY <1>2, <2>1, NoConstraintGoes
<1>4. Goes(ops[2], X ++ BeatPart(C, I0, K), X ++ BeatPart(C, I, K))
  <2>1. Unnamed("ix_celery_beat_schedules_name", I0) = I
        /\ \E i \in I0 : i.name = "ix_celery_beat_schedules_name"
    BY IndexNames DEF Unnamed
  <2>2. "ix_celery_beat_schedules_name" \in BeatNames
    BY DEF BeatNames
  <2> HIDE DEF K, I0, I, C
  <2> QED BY <1>2, <2>1, <2>2, IndexDropGoes
<1>5. Goes(ops[3], X ++ BeatPart(C, I, K), X ++ BeatPart(C, I1, K))
  <2>1. "idx_celery_beat_schedules_name" \in BeatNames
    BY DEF BeatNames
  <2>2. BeatHas(C, {"name"}) /\ Unused(I, "idx_celery_beat_schedules_name")
    BY FirstColumnsHave, IndexNames DEF BeatHas, HasColumns, Unused
  <2> HIDE DEF K, I, C
  <2> QED BY <1>2, <2>1, <2>2, FlexibleIndexIs, IndexGoes
<1>6. /\ \A D : C \subseteq D => \E c \in D : c.table = B
      /\ Unused(C, "category") /\ Unused(C1, "tags") /\ Unused(C2, "execution_policy")
      /\ Unused(C3, "auto_generated_name")
  BY FirstColumnsHave, ColumnIs DEF Unused, Declared
<1>7. C \subseteq C1 /\ C \subseteq C2 /\ C \subseteq C3 /\ C \subseteq C4
  OBVIOUS
<1>8. BeatHas(C4, {"category"}) /\ BeatHas(C4, {"tags"})
  BY ColumnIs DEF BeatHas, HasColumns, Declared
<1> HIDE DEF I1, K, C
<1>9. Goes(ops[4], X ++ BeatPart(C, I1, K), X ++ BeatPart(C1, I1, K))
  BY <1>2, <1>6, <1>7, ColumnGoes
<1> HIDE DEF C1
<1>10. Goes(ops[5], X ++ BeatPart(C1, I1, K), X ++ BeatPart(C2, I1, K))
  BY <1>2, <1>6, <1>7, ColumnGoes
<1> HIDE DEF C2
<1>11. Goes(ops[6], X ++ BeatPart(C2, I1, K), X ++ BeatPart(C3, I1, K))
  BY <1>2, <1>6, <1>7, ColumnGoes
<1> HIDE DEF C3
<1>12. Goes(ops[7], X ++ BeatPart(C3, I1, K), X ++ BeatPart(C4, I1, K))
  BY <1>2, <1>6, <1>7, ColumnGoes
<1> HIDE DEF C4
<1>13. Goes(ops[8], X ++ BeatPart(C4, I1, K), X ++ BeatPart(C4, I1, L))
  <2>1. Unused(K, "ck_celery_beat_schedules_execution_policy")
    BY KeyIs DEF Unused, K
  <2>2. "ck_celery_beat_schedules_execution_policy" \in AllBeatKeys
    BY DEF AllBeatKeys
  <2>3. PolicyKey = Key("ck_celery_beat_schedules_execution_policy", B)
    BY DEF PolicyKey
  <2> QED BY <1>2, <1>6, <1>7, <2>1, <2>2, <2>3, ConstraintGoes
<1>14. Goes(ops[9], X ++ BeatPart(C4, I1, L), X ++ BeatPart(C4, I2, L))
  <2>1. "idx_celery_beat_schedules_category" \in BeatNames
    BY DEF BeatNames
  <2>2. Unused(I1, "idx_celery_beat_schedules_category")
    BY FlexibleIndexIs, IndexNames DEF I1, Unused
  <2> HIDE DEF L
  <2> QED BY <1>2, <1>8, <2>1, <2>2, FlexibleIndexIs, IndexGoes
<1> HIDE DEF L
<1>15. Goes(ops[10], X ++ BeatPart(C4, I2, L), X ++ BeatPart(C4, I3, L))
  <2>1. "idx_celery_beat_schedules_tags" \in BeatNames
    BY DEF BeatNames
  <2>2. Unused(I2, "idx_celery_beat_schedules_tags")
    BY FlexibleIndexIs, IndexNames DEF I1, Unused
  <2> HIDE DEF I2
  <2> QED BY <1>2, <1>8, <2>1, <2>2, FlexibleIndexIs, IndexGoes
<1> HIDE DEF I2, I3, I, I0
<1>16. \A k \in 1..10 : Goes(ops[k], P[k], P[k + 1])
  <2>1. /\ P[1] = X ++ BeatPart(C, I0, K) /\ P[2] = X ++ BeatPart(C, I0, K)
        /\ P[3] = X ++ BeatPart(C, I, K) /\ P[4] = X ++ BeatPart(C, I1, K)
        /\ P[5] = X ++ BeatPart(C1, I1, K) /\ P[6] = X ++ BeatPart(C2, I1, K)
        /\ P[7] = X ++ BeatPart(C3, I1, K) /\ P[8] = X ++ BeatPart(C4, I1, K)
        /\ P[9] = X ++ BeatPart(C4, I1, L) /\ P[10] = X ++ BeatPart(C4, I2, L)
        /\ P[11] = X ++ BeatPart(C4, I3, L)
    OBVIOUS
  <2> HIDE DEF P
  <2>2. /\ Goes(ops[1], P[1], P[2]) /\ Goes(ops[2], P[2], P[3]) /\ Goes(ops[3], P[3], P[4])
        /\ Goes(ops[4], P[4], P[5]) /\ Goes(ops[5], P[5], P[6]) /\ Goes(ops[6], P[6], P[7])
        /\ Goes(ops[7], P[7], P[8]) /\ Goes(ops[8], P[8], P[9]) /\ Goes(ops[9], P[9], P[10])
        /\ Goes(ops[10], P[10], P[11])
    BY <1>3, <1>4, <1>5, <1>9, <1>10, <1>11, <1>12, <1>13, <1>14, <1>15, <2>1
  <2> QED BY <2>2, OneToTen
<1>17. P[1] = X ++ BeatPart(C, I0, K) /\ P[11] = X ++ BeatPart(C4, I3, L)
  OBVIOUS
<1> HIDE DEF P
<1>18. Takes(ops, P[1], TRUE, P[11], TRUE)
  <2>1. 10 \in Nat /\ 10 + 1 = 11
    OBVIOUS
  <2> QED BY <1>1, <1>16, <2>1, StepsTake
<1>19. BeatPart(C, I0, K) = B3
  BY DEF B3, BeatPart, C, I0, K
<1>20. C4 = FirstColumns \cup FlexibleColumns
  BY FlexibleColumnsAre DEF C4, C3, C2, C1, C, Declared
<1>21. I3 = {EnabledIndex} \cup FlexibleIndexes
  BY FlexibleIndexIs DEF I3, I2, I1, I
<1>22. L = {pkey, PolicyKey}
  BY DEF L, K
<1>23. BeatPart(C4, I3, L) = B4
  BY <1>20, <1>21, <1>22 DEF B4, BeatPart
<1> QED BY <1>17, <1>18, <1>19, <1>23 DEF ops

\* Joining parts is commutative and associative.
LEMMA JoinTurns ==
    /\ \A P, Q : P ++ Q = Q ++ P
    /\ \A P, Q, R : (P ++ Q) ++ R = P ++ (Q ++ R)
<1> SUFFICES ASSUME NEW P, NEW Q, NEW R
             PROVE  P ++ Q = Q ++ P /\ (P ++ Q) ++ R = P ++ (Q ++ R)
  OBVIOUS
<1>1. /\ P.c \cup Q.c = Q.c \cup P.c /\ (P.c \cup Q.c) \cup R.c = P.c \cup (Q.c \cup R.c)
      /\ P.i \cup Q.i = Q.i \cup P.i /\ (P.i \cup Q.i) \cup R.i = P.i \cup (Q.i \cup R.i)
      /\ P.k \cup Q.k = Q.k \cup P.k /\ (P.k \cup Q.k) \cup R.k = P.k \cup (Q.k \cup R.k)
  OBVIOUS
<1> QED BY <1>1 DEF ++

\* A part of another table has nothing of celery_beat_schedules.
LEMMA BeatFreeFrom ==
    ASSUME NEW X, NEW t, NEW names, NEW keys, NEW tos, In(X, t, names, keys, tos),
           t # B, names \cap BeatNames = {}, keys \cap AllBeatKeys = {}
    PROVE  BeatFree(X)
BY DEF In, Owned, BeatFree

\* Nor have two of them.
LEMMA BeatFreeTogether ==
    ASSUME NEW X, NEW Y, BeatFree(X), BeatFree(Y)
    PROVE  BeatFree(X ++ Y)
BY JoinParts DEF BeatFree

\* The parts that are beside it at some version
LEMMA WithoutBeat ==
    /\ BeatFree(LI) /\ BeatFree(LOG) /\ BeatFree(WM) /\ BeatFree(JLI)
    /\ \A ty : BeatFree(TS(ty)) /\ BeatFree(AN(ty))
    /\ BeatFree(Core) /\ BeatFree(Rest("bigint")) /\ BeatFree(JLI ++ LOG)
<1>1. BeatFree(LI)
  BY PartsIn, BeatFreeFrom DEF ListedInfoIndexes, ListedInfoKeys, BeatNames, AllBeatKeys,
     UniqueName, B
<1>2. BeatFree(LOG)
  BY PartsIn, BeatFreeFrom DEF LogIndexes, LogKeys, BeatNames, AllBeatKeys, UniqueName, B
<1>3. BeatFree(WM)
  BY PartsIn, BeatFreeFrom DEF MarginIndexes, MarginKeys, BeatNames, AllBeatKeys,
     UniqueName, B
<1>4. BeatFree(JLI)
  BY JLIIn, BeatFreeFrom DEF BeatNames, AllBeatKeys, UniqueName, B
<1>5. ASSUME NEW ty PROVE BeatFree(TS(ty))
  BY PartsIn, BeatFreeFrom DEF TradeIndexes, TradeKeys, BeatNames, AllBeatKeys,
     UniqueName, B
<1>6. ASSUME NEW ty PROVE BeatFree(AN(ty))
  BY PartsIn, BeatFreeFrom DEF AnnouncementIndexes, AnnouncementKeys, BeatNames,
     AllBeatKeys, UniqueName, B
<1>7. BeatFree(Core) /\ BeatFree(Rest("bigint")) /\ BeatFree(JLI ++ LOG)
  BY <1>1, <1>2, <1>3, <1>4, <1>5, BeatFreeTogether DEF Core, Rest
<1> QED BY <1>1, <1>2, <1>3, <1>4, <1>5, <1>6, <1>7

\* dba980847750: flexible schedules
LEMMA UpTo4 == Takes(UpFlexible, At(3), TRUE, At(4), TRUE)
<1>1. At(3) = Core ++ B3
  BY AtIs, JoinSwaps DEF Core
<1> QED BY <1>1, AtIs, WithoutBeat, FlexibleTakes

\* listed_info and task_execution_logs stand in the way of none of the three tables.
LEMMA CoreAway ==
    /\ Away(Core, "trades_spec", TradeIndexes, TradeKeys)
    /\ Away(Core, "weekly_margin_interest", MarginIndexes, MarginKeys)
    /\ Away(Core, "announcements", AnnouncementIndexes, AnnouncementKeys)
BY ListedInfoAway, LogsAway, AwayTogether DEF Core

\* e1a2b3c4d5e6: trades_spec
LEMMA UpTo5 == Takes(UpTradesSpec, At(4), TRUE, At(5), TRUE)
<1>1. Away(Core ++ B4, "trades_spec", TradeIndexes, TradeKeys)
  BY CoreAway, BeatAway, AwayTogether
<1>2. Takes(UpTradesSpec, Core ++ B4, TRUE, (Core ++ B4) ++ TS("integer"), TRUE)
  BY <1>1, TradeBlock, TradeFree, CreateTakes DEF UpTradesSpec, TS
<1>3. (Core ++ B4) ++ TS("integer") = (Core ++ TS("integer")) ++ B4
  BY JoinSwaps
<1> QED BY <1>2, <1>3, AtIs
-----------------------------------------------------------------------------
(* Types of columns *)

\* Changing the type of columns of a table
LEMMA TypesTake ==
    ASSUME NEW X, NEW t, \A c \in X.c : c.table # t, NEW plain, NEW cs, NEW from, NEW to,
           plain \cap cs = {}, NEW I, NEW K
    PROVE  LET Y == [c |-> Typed(t, plain, cs, from), i |-> I, k |-> K]
               Z == [c |-> Typed(t, plain, cs, to), i |-> I, k |-> K] IN
           Takes(<<AlterTypes(t, cs, to)>>, X ++ Y, TRUE, X ++ Z, TRUE)
<1> DEFINE CY == Typed(t, plain, cs, from)
           CZ == Typed(t, plain, cs, to)
           C == X.c \cup CY
           Y == [c |-> CY, i |-> I, k |-> K]
           Z == [c |-> CZ, i |-> I, k |-> K]
           op == AlterTypes(t, cs, to)
<1>1. HasColumns(C, t, cs)
  <2> SUFFICES ASSUME NEW n \in cs PROVE \E c \in C : c.table = t /\ c.name = n
    BY DEF HasColumns
  <2> DEFINE S == Plain(plain) \cup cs \X {from}
  <2>1. <<n, from>> \in S /\ <<n, from>>[1] = n /\ <<n, from>>[2] = from
    OBVIOUS
  <2> HIDE DEF S
  <2>2. Column(t, n, from) \in TableColumns(t, S)
    BY <2>1 DEF TableColumns
  <2>3. Column(t, n, from).table = t /\ Column(t, n, from).name = n
    BY DEF Column
  <2> QED BY <2>2, <2>3 DEF S, Typed
<1>2. AllAltered(CY, t, cs, to) = CZ
  BY TypesAltered
<1>3. AllAltered(C, t, cs, to) = X.c \cup CZ
  <2> HIDE DEF CY, CZ
  <2>1. AllAltered(X.c \cup CY, t, cs, to) = X.c \cup AllAltered(CY, t, cs, to)
    BY DEF AllAltered, Altered
  <2> QED BY <1>2, <2>1
<1>4. /\ Y.c = CY /\ Y.i = I /\ Y.k = K /\ Z.c = CZ /\ Z.i = I /\ Z.k = K
  OBVIOUS
<1> HIDE DEF CY, CZ, Y, Z, C
<1> SUFFICES ASSUME NEW d, Holds(d, X ++ Y, TRUE)
             PROVE  Holds(Run(<<op>>, d), X ++ Z, TRUE)
                    /\ (~d.aborted => ~Run(<<op>>, d).aborted)
  BY DEF Takes, Y, Z, CY, CZ
<1> DEFINE e == Apply(d, op)
<1>5. Run(<<op>>, d) = e
  BY OneStatement
<1>6. Fits(d, C, X.i \cup I, X.k \cup K, TRUE)
  <2>1. /\ (X ++ Y).c = C /\ (X ++ Y).i = X.i \cup I /\ (X ++ Y).k = X.k \cup K
    BY <1>4, JoinParts DEF C
  <2> QED BY <2>1 DEF Holds
<1>7. Fits(e, AllAltered(C, t, cs, to), X.i \cup I, X.k \cup K, TRUE)
        /\ (~d.aborted => ~e.aborted)
  BY <1>1, <1>6, AltersTypes
<1> HIDE DEF e
<1>8. Holds(e, X ++ Z, TRUE)
  <2>1. (X ++ Z).c = X.c \cup CZ /\ (X ++ Z).i = X.i \cup I /\ (X ++ Z).k = X.k \cup K
    BY <1>4, JoinParts
  <2> QED BY <1>3, <1>7, <2>1 DEF Holds
<1> QED BY <1>5, <1>7, <1>8

\* Blocks of two and of four indexes
LEMMA IndexesAre ==
    ASSUME NEW s
    PROVE  /\ Len(s) = 3 => Ixs(s) = {s[2].index, s[3].index}
           /\ Len(s) = 5 => Ixs(s) = {s[2].index, s[3].index, s[4].index, s[5].index}
<1>1. ASSUME Len(s) = 3 PROVE Ixs(s) = {s[2].index, s[3].index}
  <2>1. IndexesOf(s)[1] = s[2].index /\ IndexesOf(s)[2] = s[3].index
    BY <1>1 DEF IndexesOf
  <2>2. 1..2 = {1, 2}
    OBVIOUS
  <2> QED BY <1>1, <2>1, <2>2 DEF Ixs, Firsts
<1>2. ASSUME Len(s) = 5 PROVE Ixs(s) = {s[2].index, s[3].index, s[4].index, s[5].index}
  <2>1. /\ IndexesOf(s)[1] = s[2].index /\ IndexesOf(s)[2] = s[3].index
        /\ IndexesOf(s)[3] = s[4].index /\ IndexesOf(s)[4] = s[5].index
    BY <1>2 DEF IndexesOf
  <2>2. 1..4 = {1, 2, 3, 4}
    OBVIOUS
  <2> QED BY <1>2, <2>1, <2>2 DEF Ixs, Firsts
<1> QED BY <1>1, <1>2

\* The plain columns of trades_spec, and its indexes
TradeColumns == {"code", "trade_date", "section", "created_at", "updated_at"}

TradeIxs ==
    {Index("idx_trades_spec_code", "trades_spec", {"code"}),
     Index("idx_trades_spec_date", "trades_spec", {"trade_date"}),
     Index("idx_trades_spec_section", "trades_spec", {"section"}),
     Index("idx_trades_spec_date_section", "trades_spec", {"trade_date", "section"})}

\* The part of a table some of whose columns are of a type
TypedPart(t, plain, cs, type, I, K) == [c |-> Typed(t, plain, cs, type), i |-> I, k |-> K]

\* trades_spec, with the type of its amounts
LEMMA TradesTyped ==
    ASSUME NEW ty
    PROVE  TS(ty) = TypedPart("trades_spec", TradeColumns, Amounts, ty, TradeIxs,
                              {Key("trades_spec_pkey", "trades_spec")})
<1> DEFINE s == TradesSpec(ty)
           cs == Plain(TradeColumns) \cup Amounts \X {ty}
           ks == {Key("trades_spec_pkey", "trades_spec")}
<1>1. Len(s) = 5 /\ s[1] = CreateTable("trades_spec", cs, ks)
  BY DEF TradesSpec, TradeColumns
<1>2. /\ s[2] = CreateIndex(Index("idx_trades_spec_code", "trades_spec", {"code"}))
      /\ s[3] = CreateIndex(Index("idx_trades_spec_date", "trades_spec", {"trade_date"}))
      /\ s[4] = CreateIndex(Index("idx_trades_spec_section", "trades_spec", {"section"}))
      /\ s[5] = CreateIndex(Index("idx_trades_spec_date_section", "trades_spec",
           {"trade_date", "section"}))
  BY IndexIs DEF TradesSpec
<1> HIDE DEF s, cs, ks
<1>3. Ixs(s) = TradeIxs
  BY <1>1, <1>2, IndexIs, IndexesAre DEF TradeIxs
<1>4. Cols(s) = TableColumns("trades_spec", cs) /\ Keys(s) = ks
  BY <1>1, TableIs DEF Cols, Keys
<1>5. TableColumns("trades_spec", cs) = Typed("trades_spec", TradeColumns, Amounts, ty)
  BY DEF cs, Typed
<1> QED BY <1>3, <1>4, <1>5 DEF TS, Part, TypedPart, s, ks

\* Those of announcements
AnnouncementColumns ==
    {"date", "fiscal_quarter", "company_name", "fiscal_year", "sector_name", "section"}

AnnouncementIxs ==
    {Index("ix_announcements_code", "announcements", {"code"}),
     Index("ix_announcements_date", "announcements", {"date"})}

\* announcements, with the type of its code
LEMMA AnnouncementsTyped ==
    ASSUME NEW ty
    PROVE  AN(ty) = TypedPart("announcements", AnnouncementColumns, {"code"}, ty,
           AnnouncementIxs,
                              {Key("announcements_pkey", "announcements"),
                               Key("uq_announcement", "announcements")})
<1> DEFINE s == Announcements(ty)
           cs == Plain(AnnouncementColumns) \cup {<<"code", ty>>}
           ks == {Key("announcements_pkey", "announcements"),
             Key("uq_announcement", "announcements")}
<1>1. Len(s) = 3 /\ s[1] = CreateTable("announcements", cs, ks)
  BY DEF Announcements, AnnouncementColumns
<1>2. /\ s[2] = CreateIndex(Index("ix_announcements_code", "announcements", {"code"}))
      /\ s[3] = CreateIndex(Index("ix_announcements_date", "announcements", {"date"}))
  BY IndexIs DEF Announcements
<1>3. {<<"code", ty>>} = {"code"} \X {ty}
  OBVIOUS
<1>4. TableColumns("announcements", cs)
        = Typed("announcements", AnnouncementColumns, {"code"}, ty)
  BY <1>3, Zenon DEF Typed
<1> HIDE DEF s, cs, ks
<1>5. Ixs(s) = AnnouncementIxs
  BY <1>1, <1>2, IndexIs, IndexesAre DEF AnnouncementIxs
<1>6. Cols(s) = TableColumns("announcements", cs) /\ Keys(s) = ks
  BY <1>1, TableIs DEF Cols, Keys
<1> QED BY <1>4, <1>5, <1>6 DEF AN, Part, TypedPart, s, ks

\* alter_column on a part, beside another one
LEMMA TypedTakes ==
    ASSUME NEW X, NEW t, \A c \in X.c : c.table # t, NEW plain, NEW cs, NEW from, NEW to,
           plain \cap cs = {}, NEW I, NEW K
    PROVE  Takes(<<AlterTypes(t, cs, to)>>, X ++ TypedPart(t, plain, cs, from, I, K), TRUE,
                 X ++ TypedPart(t, plain, cs, to, I, K), TRUE)
BY TypesTake DEF TypedPart

\* ... on trades_spec,
LEMMA AmountsTake ==
    ASSUME NEW X, \A c \in X.c : c.table # "trades_spec", NEW from, NEW to
    PROVE  Takes(<<AlterTypes("trades_spec", Amounts, to)>>, X ++ TS(from), TRUE,
           X ++ TS(to), TRUE)
<1>1. TradeColumns \cap Amounts = {}
  BY DEF TradeColumns, Amounts
<1> QED BY <1>1, TradesTyped, TypedTakes

\* ... and on announcements.
LEMMA CodeTakes ==
    ASSUME NEW X, \A c \in X.c : c.table # "announcements", NEW from, NEW to
    PROVE  Takes(<<AlterTypes("announcements", {"code"}, to)>>, X ++ AN(from), TRUE,
           X ++ AN(to), TRUE)
<1>1. AnnouncementColumns \cap {"code"} = {}
  BY DEF AnnouncementColumns
<1> QED BY <1>1, AnnouncementsTyped, TypedTakes

\* Elsewhere there are no columns of these tables.
LEMMA NoneOfThese ==
    /\ \A c \in (Core ++ B4).c : c.table # "trades_spec"
    /\ \A c \in (Rest("bigint") ++ B7).c : c.table # "announcements"
<1>1. \A c \in (Core ++ B4).c : c.table # "trades_spec"
  <2>1. Away(Core ++ B4, "trades_spec", TradeIndexes, TradeKeys)
    BY CoreAway, BeatAway, AwayTogether
  <2> QED BY <2>1 DEF Away, Foreign
<1>2. \A c \in (Rest("bigint") ++ B7).c : c.table # "announcements"
  <2>1. Away(Rest("bigint") ++ B7, "announcements", AnnouncementIndexes, AnnouncementKeys)
    BY CoreAway, ThreeAway, BeatAway, AwayTogether DEF Rest
  <2> QED BY <2>1 DEF Away, Foreign
<1> QED BY <1>1, <1>2

\* 46d1fb0fb953 and its downgrade are one statement with two types,
LEMMA BigIntegerTakes ==
    ASSUME NEW from, NEW to
    PROVE  Takes(<<AlterTypes("trades_spec", Amounts, to)>>, (Core ++ TS(from)) ++ B4, TRUE,
                 (Core ++ TS(to)) ++ B4, TRUE)
<1>1. \A ty : (Core ++ TS(ty)) ++ B4 = (Core ++ B4) ++ TS(ty)
  BY JoinSwaps
<1> QED BY <1>1, NoneOfThese, AmountsTake

\* and so are da6b106853ae and its downgrade.
LEMMA CodeLengthTakes ==
    ASSUME NEW from, NEW to
    PROVE  Takes(<<AlterTypes("announcements", {"code"}, to)>>,
           (Rest("bigint") ++ AN(from)) ++ B7, TRUE,
                 (Rest("bigint") ++ AN(to)) ++ B7, TRUE)
<1>1. \A ty : (Rest("bigint") ++ AN(ty)) ++ B7 = (Rest("bigint") ++ B7) ++ AN(ty)
  BY JoinSwaps
<1> QED BY <1>1, NoneOfThese, CodeTakes

\* 46d1fb0fb953: the amounts of trades_spec become bigint,
LEMMA UpTo6 == Takes(UpBigInteger, At(5), TRUE, At(6), TRUE)
BY BigIntegerTakes, AtIs DEF UpBigInteger

\* and integer again.
LEMMA DownTo5 == Leads(DownBigInteger, At(6), TRUE, At(5), TRUE)
<1>1. Takes(DownBigInteger, At(6), TRUE, At(5), TRUE)
  BY BigIntegerTakes, AtIs DEF DownBigInteger
<1> QED BY <1>1, TakesLeads

\* da6b106853ae: the code of announcements gets five characters,
LEMMA UpTo9 == Takes(UpCodeLength, At(8), TRUE, At(9), TRUE)
BY CodeLengthTakes, AtIs DEF UpCodeLength

\* and four again.
LEMMA DownTo8 == Leads(DownCodeLength, At(9), TRUE, At(8), TRUE)
<1>1. Takes(DownCodeLength, At(9), TRUE, At(8), TRUE)
  BY CodeLengthTakes, AtIs DEF DownCodeLength
<1> QED BY <1>1, TakesLeads

\* Down from e1a2b3c4d5e6 trades_spec is gone.
LEMMA DownTo4 == Leads(DownTradesSpec, At(5), TRUE, At(4), TRUE)
<1>1. At(5) = (Core ++ B4) ++ TS("integer")
  BY AtIs, JoinSwaps
<1>2. Away(Core ++ B4, "trades_spec", TradeIndexes, TradeKeys)
  BY CoreAway, BeatAway, AwayTogether
<1>3. Leads(DownTradesSpec, (Core ++ B4) ++ TS("integer"), TRUE, Core ++ B4, TRUE)
  BY <1>2, DropLeads, PartsIn, DownTradesSpecDrops
<1> QED BY <1>1, <1>3, AtIs

\* 7e6aec3a2399: announcements
LEMMA UpTo8 == Takes(UpAnnouncements, At(7), TRUE, At(8), TRUE)
<1>1. Away(Rest("bigint") ++ B7, "announcements", AnnouncementIndexes, AnnouncementKeys)
  BY CoreAway, ThreeAway, BeatAway, AwayTogether DEF Rest
<1>2. Takes(UpAnnouncements, Rest("bigint") ++ B7, TRUE,
        (Rest("bigint") ++ B7) ++ AN("varchar4"), TRUE)
  BY <1>1, AnnouncementBlock, AnnouncementFree, CreateTakes DEF UpAnnouncements, AN
<1>3. (Rest("bigint") ++ B7) ++ AN("varchar4") = (Rest("bigint") ++ AN("varchar4")) ++ B7
  BY JoinSwaps
<1> QED BY <1>2, <1>3, AtIs

\* ... gone again
LEMMA DownTo7 == Leads(DownAnnouncements, At(8), TRUE, At(7), TRUE)
<1>1. (Rest("bigint") ++ B7) ++ AN("varchar4") = (Rest("bigint") ++ AN("varchar4")) ++ B7
  BY JoinSwaps
<1>2. Away(Rest("bigint") ++ B7, "announcements", AnnouncementIndexes, AnnouncementKeys)
  BY CoreAway, ThreeAway, BeatAway, AwayTogether DEF Rest
<1>3. Leads(DownAnnouncements, (Rest("bigint") ++ B7) ++ AN("varchar4"), TRUE,
        Rest("bigint") ++ B7, TRUE)
  BY <1>2, DropLeads, PartsIn, DownAnnouncementsDrops
<1> QED BY <1>1, <1>3, AtIs
-----------------------------------------------------------------------------
(* The indexes of celery_beat_schedules *)

\* The indexes of celery_beat_schedules from a6c57c53eda3 on, by their column
PlainIndex(c) ==
    CASE c = "name" -> Index("ix_celery_beat_schedules_name", B, {"name"})
      [] c = "category" -> Index("ix_celery_beat_schedules_category", B, {"category"})

\* Its values
LEMMA PlainIndexIs ==
    /\ PlainIndex("name") = Index("ix_celery_beat_schedules_name", B, {"name"})
    /\ PlainIndex("category") = Index("ix_celery_beat_schedules_category", B, {"category"})
    /\ PlainIndex("name").name = "ix_celery_beat_schedules_name"
    /\ PlainIndex("category").name = "ix_celery_beat_schedules_category"
    /\ PlainIndexes = {PlainIndex("name"), PlainIndex("category")}
BY IndexIs DEF PlainIndex, PlainIndexes

\* The columns and constraints of celery_beat_schedules at version 4
FlexibleC == FirstColumns \cup FlexibleColumns
FlexibleK == {Key("celery_beat_schedules_pkey", B), PolicyKey}

\* celery_beat_schedules as it is from version 4 on, with these indexes
Beat(I) == BeatPart(FlexibleC, {EnabledIndex} \cup I, FlexibleK)

\* The versions of celery_beat_schedules differ in their indexes and in last_run_at.
LEMMA BeatsAre ==
    /\ B4 = Beat({FlexibleIndex("name"), FlexibleIndex("category"), FlexibleIndex("tags")})
    /\ B7 = Beat({PlainIndex("name"), PlainIndex("category")})
    /\ B12 = BeatPart(FlexibleC \cup {Declared("last_run_at")},
                      ({EnabledIndex} \cup {PlainIndex("name"), PlainIndex("category")})
                        \cup {LastRunIndex},
                      FlexibleK)
<1>1. B4 = Beat({FlexibleIndex("name"), FlexibleIndex("category"), FlexibleIndex("tags")})
  BY FlexibleIndexIs DEF B4, Beat, BeatPart, FlexibleC, FlexibleK
<1>2. PlainIndexes = {PlainIndex("name"), PlainIndex("category")}
  BY PlainIndexIs
<1>3. B7 = [c |-> B4.c, i |-> {EnabledIndex} \cup PlainIndexes, k |-> B4.k]
  BY DEF B7, B4
<1>4. B4.c = FlexibleC /\ B4.k = FlexibleK
  BY DEF B4, FlexibleC, FlexibleK
<1>5. B7.i = {EnabledIndex} \cup PlainIndexes
  BY <1>3
<1>6. B7 = Beat({PlainIndex("name"), PlainIndex("category")})
  BY <1>2, <1>3, <1>4 DEF Beat, BeatPart
<1>7. B12 = [c |-> FlexibleC \cup {Column(B, "last_run_at", "as declared")},
             i |-> ({EnabledIndex} \cup PlainIndexes) \cup {LastRunIndex}, k |-> FlexibleK]
  BY <1>4, <1>5 DEF B12
<1>8. B12 = BeatPart(FlexibleC \cup {Declared("last_run_at")},
                     ({EnabledIndex} \cup {PlainIndex("name"), PlainIndex("category")})
                       \cup {LastRunIndex},
                     FlexibleK)
  BY <1>2, <1>7 DEF BeatPart, Declared
<1> QED BY <1>1, <1>6, <1>8

\* The columns of version 4, and the one it does not have
LEMMA FlexibleHave ==
    /\ \A n \in {"id", "name", "enabled", "category", "tags"} : BeatHas(FlexibleC, {n})
    /\ \E c \in FlexibleC : c.table = B
    /\ Unused(FlexibleC, "last_run_at")
<1>1. \A n \in {"id", "name", "enabled"} : \E c \in FlexibleC : c.table = B /\ c.name = n
  BY FirstColumnsHave DEF FlexibleC
<1>2. \A n \in {"category", "tags"} : \E c \in FlexibleC : c.table = B /\ c.name = n
  BY FlexibleColumnsAre, ColumnIs DEF FlexibleC
<1>3. \A c \in FlexibleC : c.name # "last_run_at"
  BY FirstColumnsHave, FlexibleColumnsAre, ColumnIs DEF FlexibleC, Unused
<1> QED BY <1>1, <1>2, <1>3 DEF BeatHas, HasColumns, Unused

\* An index that is there is dropped, or one that is not is created.
LEMMA BeatDrop ==
    ASSUME NEW X, BeatFree(X), NEW I, NEW i, i.name \in BeatNames,
           i.name # EnabledIndex.name,
           \A j \in I : j.name # i.name
    PROVE  Goes(DropIndex(i.name), X ++ Beat({i} \cup I), X ++ Beat(I))
<1> DEFINE J == {EnabledIndex} \cup ({i} \cup I)
           L == {EnabledIndex} \cup I
<1>1. L = Unnamed(i.name, J)
  BY DEF Unnamed
<1>2. \E j \in J : j.name = i.name
  OBVIOUS
<1> HIDE DEF J, L
<1>3. Goes(DropIndex(i.name), X ++ BeatPart(FlexibleC, J, FlexibleK),
        X ++ BeatPart(FlexibleC, L, FlexibleK))
  BY <1>1, <1>2, IndexDropGoes
<1> QED BY <1>3 DEF Beat, J, L

\* ... or one that is not there is created.
LEMMA BeatCreate ==
    ASSUME NEW X, BeatFree(X), NEW I, NEW n \in BeatNames, NEW cs, BeatHas(FlexibleC, cs),
           n # EnabledIndex.name, \A j \in I : j.name # n
    PROVE  Goes(CreateIndex(Index(n, B, cs)), X ++ Beat(I),
           X ++ Beat({Index(n, B, cs)} \cup I))
<1> DEFINE i == Index(n, B, cs)
           J == {EnabledIndex} \cup I
           L == {EnabledIndex} \cup ({i} \cup I)
<1>1. L = J \cup {i} /\ Unused(J, n)
  BY DEF Unused
<1> HIDE DEF J, L
<1>2. Goes(CreateIndex(i), X ++ BeatPart(FlexibleC, J, FlexibleK),
        X ++ BeatPart(FlexibleC, L, FlexibleK))
  BY <1>1, IndexGoes
<1> QED BY <1>2 DEF Beat, J, L

\* Scripts of five statements
LEMMA FiveSteps ==
    ASSUME NEW a, NEW b, NEW c, NEW d, NEW e,
           NEW X1, NEW X2, NEW X3, NEW X4, NEW X5, NEW X6,
           Goes(a, X1, X2), Goes(b, X2, X3), Goes(c, X3, X4), Goes(d, X4, X5),
             Goes(e, X5, X6)
    PROVE  Takes(<<a, b, c, d, e>>, X1, TRUE, X6, TRUE)
<1> DEFINE ops == <<a, b, c, d, e>>
           P == <<X1, X2, X3, X4, X5, X6>>
<1>1. DOMAIN ops = 1..5
  OBVIOUS
<1>2. /\ ops[1] = a /\ ops[2] = b /\ ops[3] = c /\ ops[4] = d /\ ops[5] = e
      /\ P[1] = X1 /\ P[2] = X2 /\ P[3] = X3 /\ P[4] = X4 /\ P[5] = X5 /\ P[6] = X6
  OBVIOUS
<1> HIDE DEF ops, P
<1>3. \A k \in 1..5 : Goes(ops[k], P[k], P[k + 1])
  <2>1. \A k \in 1..5 : k = 1 \/ k = 2 \/ k = 3 \/ k = 4 \/ k = 5
    OBVIOUS
  <2> QED BY <1>2, <2>1, OneToTen
<1>4. 5 \in Nat /\ 5 + 1 = 6
  OBVIOUS
<1>5. Takes(ops, P[1], TRUE, P[6], TRUE)
  BY <1>1, <1>3, <1>4, StepsTake
<1> QED BY <1>2, <1>5 DEF ops

\* The second half of a6c57c53eda3
BeatIndexesFrom7 ==
    <<DropIndex("idx_celery_beat_schedules_category"),
      DropIndex("idx_celery_beat_schedules_name"),
      DropIndex("idx_celery_beat_schedules_tags"),
      IndexOn("ix_celery_beat_schedules_category", "celery_beat_schedules", "category"),
      IndexOn("ix_celery_beat_schedules_name", "celery_beat_schedules", "name")>>

\* The indexes a6c57c53eda3 exchanges
LEMMA IndexNamesApart ==
    /\ {"ix_celery_beat_schedules_name", "ix_celery_beat_schedules_category",
        "idx_celery_beat_schedules_name", "idx_celery_beat_schedules_category",
        "idx_celery_beat_schedules_tags"} \subseteq BeatNames
    /\ \A n \in {"ix_celery_beat_schedules_name", "ix_celery_beat_schedules_category",
                 "idx_celery_beat_schedules_name", "idx_celery_beat_schedules_category",
                 "idx_celery_beat_schedules_tags"} : n # EnabledIndex.name
BY IndexNames DEF BeatNames

\* a6c57c53eda3 exchanges three indexes of celery_beat_schedules for two.
LEMMA BeatIndexesTo7 ==
    ASSUME NEW X, BeatFree(X)
    PROVE  Takes(BeatIndexesFrom7, X ++ B4, TRUE, X ++ B7, TRUE)
<1> DEFINE n == FlexibleIndex("name")
           c == FlexibleIndex("category")
           t == FlexibleIndex("tags")
           p == PlainIndex("category")
           q == PlainIndex("name")
           I1 == {n, t}
           I2 == {t}
           I4 == {p} \cup {}
<1>1. /\ n.name = "idx_celery_beat_schedules_name"
      /\ c.name = "idx_celery_beat_schedules_category"
      /\ t.name = "idx_celery_beat_schedules_tags"
      /\ p.name = "ix_celery_beat_schedules_category"
      /\ q.name = "ix_celery_beat_schedules_name"
      /\ p = Index("ix_celery_beat_schedules_category", B, {"category"})
      /\ q = Index("ix_celery_beat_schedules_name", B, {"name"})
  BY FlexibleIndexIs, PlainIndexIs
<1> HIDE DEF n, c, t, p, q
<1>2. Goes(DropIndex("idx_celery_beat_schedules_category"), X ++ Beat({c} \cup I1),
        X ++ Beat(I1))
  BY <1>1, IndexNamesApart, BeatDrop
<1>3. Goes(DropIndex("idx_celery_beat_schedules_name"), X ++ Beat({n} \cup I2),
        X ++ Beat(I2))
  BY <1>1, IndexNamesApart, BeatDrop
<1>4. Goes(DropIndex("idx_celery_beat_schedules_tags"), X ++ Beat({t} \cup {}),
        X ++ Beat({}))
  BY <1>1, IndexNamesApart, BeatDrop
<1>5. Goes(CreateIndex(p), X ++ Beat({}), X ++ Beat(I4))
  BY <1>1, IndexNamesApart, FlexibleHave, BeatCreate
<1>6. Goes(CreateIndex(q), X ++ Beat(I4), X ++ Beat({q} \cup I4))
  BY <1>1, IndexNamesApart, FlexibleHave, BeatCreate
<1>7. I1 = {n} \cup I2 /\ I2 = {t} \cup {} /\ {q} \cup I4 = {q, p}
        /\ {c} \cup I1 = {n, c, t}
  OBVIOUS
<1> HIDE DEF I1, I2, I4
<1>8. Takes(<<DropIndex("idx_celery_beat_schedules_category"),
      DropIndex("idx_celery_beat_schedules_name"),
      DropIndex("idx_celery_beat_schedules_tags"), CreateIndex(p), CreateIndex(q)>>,
      X ++ Beat({c} \cup I1), TRUE, X ++ Beat({q} \cup I4), TRUE)
  BY <1>2, <1>3, <1>4, <1>5, <1>6, <1>7, FiveSteps
<1>9. BeatIndexesFrom7 = <<DropIndex("idx_celery_beat_schedules_category"),
      DropIndex("idx_celery_beat_schedules_name"),
      DropIndex("idx_celery_beat_schedules_tags"), CreateIndex(p), CreateIndex(q)>>
  BY <1>1, IndexIs DEF BeatIndexesFrom7, B
<1> QED BY <1>7, <1>8, <1>9, BeatsAre DEF n, c, t, p, q

\* a6c57c53eda3: weekly_margin_interest, and the indexes beside its subject
LEMMA UpTo7 == Takes(UpWeeklyMargin, At(6), TRUE, At(7), TRUE)
<1> DEFINE X == (Core ++ TS("bigint")) ++ B4
<1>1. Away(X, "weekly_margin_interest", MarginIndexes, MarginKeys)
  BY CoreAway, ThreeAway, BeatAway, AwayTogether
<1>2. Takes(WeeklyMarginInterest, X, TRUE, X ++ WM, TRUE)
  <2> HIDE DEF X
  <2> QED BY <1>1, MarginBlock, MarginFree, CreateTakes DEF WM
<1>3. X ++ WM = Rest("bigint") ++ B4
  BY JoinSwaps DEF Rest
<1>4. Takes(BeatIndexesFrom7, Rest("bigint") ++ B4, TRUE, Rest("bigint") ++ B7, TRUE)
  BY WithoutBeat, BeatIndexesTo7
<1>5. Statements(BeatIndexesFrom7)
  BY StatementKinds, Tuple5 DEF BeatIndexesFrom7
<1> HIDE DEF X
<1>6. Takes(WeeklyMarginInterest \o BeatIndexesFrom7, X, TRUE, Rest("bigint") ++ B7, TRUE)
  BY <1>2, <1>3, <1>4, <1>5, PiecesAreStatements, TakesOn
<1> QED BY <1>6, AtIs DEF UpWeeklyMargin, BeatIndexesFrom7, X

\* Two statements and three
LEMMA TwoAndThree == \A a, b, u, v, w : <<a, b>> \o <<u, v, w>> = <<a, b, u, v, w>>
<1> SUFFICES ASSUME NEW a, NEW b, NEW u, NEW v, NEW w
             PROVE  <<a, b>> \o <<u, v, w>> = <<a, b, u, v, w>>
  OBVIOUS
<1> DEFINE s == <<a, b>>
           t == <<u, v, w>>
           st == s \o t
           r == <<a, b, u, v, w>>
           S == {a, b, u, v, w}
<1>1. s \in Seq(S) /\ t \in Seq(S) /\ r \in Seq(S) /\ Len(s) = 2 /\ Len(t) = 3 /\ Len(r) = 5
  OBVIOUS
<1>2. /\ s[1] = a /\ s[2] = b /\ t[1] = u /\ t[2] = v /\ t[3] = w
      /\ r[1] = a /\ r[2] = b /\ r[3] = u /\ r[4] = v /\ r[5] = w
  OBVIOUS
<1> HIDE DEF s, t, r, S
<1>7. /\ st \in Seq(S)
      /\ Len(st) = Len(s) + Len(t)
      /\ \A i \in 1..Len(s) + Len(t) : st[i] = IF i <= Len(s) THEN s[i] ELSE t[i - Len(s)]
  BY <1>1, ConcatProperties, Zenon
<1> HIDE DEF st
<1>3. Len(st) = 5 /\ \A i \in 1..5 : st[i] = IF i <= 2 THEN s[i] ELSE t[i - 2]
  BY <1>1, <1>7
<1>4. st[1] = s[1] /\ st[2] = s[2] /\ st[3] = t[1] /\ st[4] = t[2] /\ st[5] = t[3]
  BY <1>3
<1>5. \A i \in 1..5 : st[i] = r[i]
  <2>1. \A i \in 1..5 : i = 1 \/ i = 2 \/ i = 3 \/ i = 4 \/ i = 5
    OBVIOUS
  <2> QED BY <1>2, <1>4, <2>1
<1>6. st = r
  BY <1>1, <1>3, <1>5, <1>7, SeqEqual
<1> QED BY <1>6 DEF st, s, t, r

\* ... and back, where the indexes are created in another order
LEMMA BeatIndexesTo6 ==
    ASSUME NEW X, BeatFree(X)
    PROVE  Leads(<<DropIndex("ix_celery_beat_schedules_name"),
           DropIndex("ix_celery_beat_schedules_category")>>
                   \o RestoreBeatIndexes, X ++ B7, TRUE, X ++ B4, TRUE)
<1> DEFINE n == FlexibleIndex("name")
           c == FlexibleIndex("category")
           t == FlexibleIndex("tags")
           p == PlainIndex("category")
           q == PlainIndex("name")
           I1 == {p} \cup {}
           I3 == {t} \cup {}
           I4 == {n} \cup I3
           I5 == {c} \cup I4
           ops == <<DropIndex("ix_celery_beat_schedules_name"),
             DropIndex("ix_celery_beat_schedules_category")>>
                   \o RestoreBeatIndexes
<1>1. /\ n.name = "idx_celery_beat_schedules_name"
      /\ c.name = "idx_celery_beat_schedules_category"
      /\ t.name = "idx_celery_beat_schedules_tags"
      /\ p.name = "ix_celery_beat_schedules_category"
      /\ q.name = "ix_celery_beat_schedules_name"
      /\ n = Index("idx_celery_beat_schedules_name", B, {"name"})
      /\ c = Index("idx_celery_beat_schedules_category", B, {"category"})
      /\ t = Index("idx_celery_beat_schedules_tags", B, {"tags"})
  BY FlexibleIndexIs, PlainIndexIs
<1> HIDE DEF n, c, t, p, q
<1>2. Goes(DropIndex("ix_celery_beat_schedules_name"), X ++ Beat({q} \cup I1),
        X ++ Beat(I1))
  BY <1>1, IndexNamesApart, BeatDrop
<1>3. Goes(DropIndex("ix_celery_beat_schedules_category"), X ++ Beat(I1), X ++ Beat({}))
  BY <1>1, IndexNamesApart, BeatDrop
<1>4. Goes(CreateIndex(t), X ++ Beat({}), X ++ Beat(I3))
  BY <1>1, IndexNamesApart, FlexibleHave, BeatCreate
<1>5. Goes(CreateIndex(n), X ++ Beat(I3), X ++ Beat(I4))
  BY <1>1, IndexNamesApart, FlexibleHave, BeatCreate
<1>6. Goes(CreateIndex(c), X ++ Beat(I4), X ++ Beat(I5))
  BY <1>1, IndexNamesApart, FlexibleHave, BeatCreate
<1>7. {q} \cup I1 = {q, p} /\ I5 = {n, c, t}
  OBVIOUS
<1> HIDE DEF I1, I3, I4, I5
<1>8. Takes(<<DropIndex("ix_celery_beat_schedules_name"),
        DropIndex("ix_celery_beat_schedules_category"),
      CreateIndex(t), CreateIndex(n), CreateIndex(c)>>,
      X ++ Beat({q} \cup I1), TRUE, X ++ Beat(I5), TRUE)
  BY <1>2, <1>3, <1>4, <1>5, <1>6, FiveSteps
<1>9. ops = <<DropIndex("ix_celery_beat_schedules_name"),
        DropIndex("ix_celery_beat_schedules_category"),
      CreateIndex(t), CreateIndex(n), CreateIndex(c)>>
  <2>1. RestoreBeatIndexes = <<CreateIndex(t), CreateIndex(n), CreateIndex(c)>>
    BY <1>1, IndexIs DEF RestoreBeatIndexes, B
  <2>2. \A a, b, u, v, w : <<a, b>> \o <<u, v, w>> = <<a, b, u, v, w>>
    BY TwoAndThree
  <2> QED BY <2>1, <2>2
<1>10. Takes(ops, X ++ B7, TRUE, X ++ B4, TRUE)
  BY <1>7, <1>8, <1>9, BeatsAre DEF n, c, t, p, q
<1> QED BY <1>10, TakesLeads

\* Down from a6c57c53eda3 the three indexes are back and the table is gone.
LEMMA DownTo6 == Leads(DownWeeklyMargin, At(7), TRUE, At(6), TRUE)
<1> DEFINE X == (Core ++ TS("bigint")) ++ B4
           a == <<DropIndex("ix_celery_beat_schedules_name"),
             DropIndex("ix_celery_beat_schedules_category")>>
<1>1. Away(X, "weekly_margin_interest", MarginIndexes, MarginKeys)
  BY CoreAway, ThreeAway, BeatAway, AwayTogether
<1>2. Leads(DropWeeklyMarginInterest, X ++ WM, TRUE, X, TRUE)
  <2> HIDE DEF X
  <2> QED BY <1>1, DropLeads, PartsIn, DropWeeklyMarginInterestDrops
<1>3. X ++ WM = Rest("bigint") ++ B4
  BY JoinSwaps DEF Rest
<1>4. Leads(a \o RestoreBeatIndexes, Rest("bigint") ++ B7, TRUE, Rest("bigint") ++ B4, TRUE)
  BY WithoutBeat, BeatIndexesTo6
<1>5. Statements(a \o RestoreBeatIndexes)
  <2>1. Statements(a) /\ Statements(RestoreBeatIndexes)
    BY StatementKinds, Tuple2, Tuple3 DEF RestoreBeatIndexes
  <2> HIDE DEF a
  <2> QED BY <2>1, StatementsTogether
<1> HIDE DEF X
<1>6. Leads((a \o RestoreBeatIndexes) \o DropWeeklyMarginInterest, Rest("bigint") ++ B7,
        TRUE, X, TRUE)
  <2> HIDE DEF a
  <2> QED BY <1>2, <1>3, <1>4, <1>5, PiecesAreStatements, LeadsOn
<1> QED BY <1>6, AtIs DEF DownWeeklyMargin, X
-----------------------------------------------------------------------------
(* From version 9 to version 12 *)

\* Scripts of two, three and four statements
LEMMA TwoSteps ==
    ASSUME NEW a, NEW b, NEW X1, NEW X2, NEW X3
    PROVE  /\ Goes(a, X1, X2) /\ Goes(b, X2, X3) => Takes(<<a, b>>, X1, TRUE, X3, TRUE)
           /\ Might(a, X1, X2) /\ Might(b, X2, X3) => Leads(<<a, b>>, X1, TRUE, X3, TRUE)
<1> DEFINE ops == <<a, b>>
           P == <<X1, X2, X3>>
<1>1. DOMAIN ops = 1..2
  OBVIOUS
<1>2. ops[1] = a /\ ops[2] = b /\ P[1] = X1 /\ P[2] = X2 /\ P[3] = X3
  OBVIOUS
<1> HIDE DEF ops, P
<1>3. (\A k \in 1..2 : k = 1 \/ k = 2) /\ 2 \in Nat /\ 2 + 1 = 3
  OBVIOUS
<1>4. Goes(a, X1, X2) /\ Goes(b, X2, X3) => \A k \in 1..2 : Goes(ops[k], P[k], P[k + 1])
  BY <1>2, <1>3, OneToTen
<1>5. Might(a, X1, X2) /\ Might(b, X2, X3) => \A k \in 1..2 : Might(ops[k], P[k], P[k + 1])
  BY <1>2, <1>3, OneToTen
<1>6. Goes(a, X1, X2) /\ Goes(b, X2, X3) => Takes(ops, P[1], TRUE, P[3], TRUE)
  BY <1>1, <1>3, <1>4, StepsTake
<1>7. Might(a, X1, X2) /\ Might(b, X2, X3) => Leads(ops, P[1], TRUE, P[3], TRUE)
  BY <1>1, <1>3, <1>5, StepsLead
<1> QED BY <1>2, <1>6, <1>7 DEF ops

LEMMA ThreeSteps ==
    ASSUME NEW a, NEW b, NEW c, NEW X1, NEW X2, NEW X3, NEW X4,
           Goes(a, X1, X2), Goes(b, X2, X3), Goes(c, X3, X4)
    PROVE  Takes(<<a, b, c>>, X1, TRUE, X4, TRUE)
<1> DEFINE ops == <<a, b, c>>
           P == <<X1, X2, X3, X4>>
<1>1. DOMAIN ops = 1..3
  OBVIOUS
<1>2. ops[1] = a /\ ops[2] = b /\ ops[3] = c /\ P[1] = X1 /\ P[2] = X2 /\ P[3] = X3
        /\ P[4] = X4
  OBVIOUS
<1> HIDE DEF ops, P
<1>3. (\A k \in 1..3 : k = 1 \/ k = 2 \/ k = 3) /\ 3 \in Nat /\ 3 + 1 = 4
  OBVIOUS
<1>4. \A k \in 1..3 : Goes(ops[k], P[k], P[k + 1])
  BY <1>2, <1>3, OneToTen
<1>5. Takes(ops, P[1], TRUE, P[4], TRUE)
  BY <1>1, <1>3, <1>4, StepsTake
<1> QED BY <1>2, <1>5 DEF ops

LEMMA FourSteps ==
    ASSUME NEW a, NEW b, NEW c, NEW d, NEW X1, NEW X2, NEW X3, NEW X4, NEW X5,
           Goes(a, X1, X2), Goes(b, X2, X3), Goes(c, X3, X4), Goes(d, X4, X5)
    PROVE  Takes(<<a, b, c, d>>, X1, TRUE, X5, TRUE)
<1> DEFINE ops == <<a, b, c, d>>
           P == <<X1, X2, X3, X4, X5>>
<1>1. DOMAIN ops = 1..4
  OBVIOUS
<1>2. /\ ops[1] = a /\ ops[2] = b /\ ops[3] = c /\ ops[4] = d
      /\ P[1] = X1 /\ P[2] = X2 /\ P[3] = X3 /\ P[4] = X4 /\ P[5] = X5
  OBVIOUS
<1> HIDE DEF ops, P
<1>3. (\A k \in 1..4 : k = 1 \/ k = 2 \/ k = 3 \/ k = 4) /\ 4 \in Nat /\ 4 + 1 = 5
  OBVIOUS
<1>4. \A k \in 1..4 : Goes(ops[k], P[k], P[k + 1])
  BY <1>2, <1>3, OneToTen
<1>5. Takes(ops, P[1], TRUE, P[5], TRUE)
  BY <1>1, <1>3, <1>4, StepsTake
<1> QED BY <1>2, <1>5 DEF ops

\* Dropping a table alone
LEMMA TableDropGoes ==
    ASSUME NEW X, NEW Y, NEW t, NEW names, NEW keys, NEW tos, In(Y, t, names, keys, tos),
           NEW n2, NEW k2, Away(X, t, n2, k2), Y.c # {}
    PROVE  Goes(DropTable(t), X ++ Y, X)
<1>1. Takes(<<DropTable(t)>>, X ++ Y, TRUE, X, TRUE)
  BY TableDropTakes
<1>2. \A d : Run(<<DropTable(t)>>, d) = Apply(d, DropTable(t))
  BY OneStatement
<1> QED BY <1>1, <1>2 DEF Takes, Goes

\* celery_beat_schedules does not stand in the way of trades_spec.
LEMMA BeatAwayFromTrades == Away(B7, "trades_spec", TradeIndexes, TradeKeys)
BY PartsIn, BeatsIn, AwayFrom DEF BeatNames, AllBeatKeys, TradeIndexes, TradeKeys,
   UniqueName, B

\* 0bd55ee18e0a drops the three tables alone: their indexes go with them.
LEMMA UpTo10 == Takes(UpRemoveThree, At(9), TRUE, At(10), TRUE)
<1> DEFINE T == TS("bigint")
           A == AN("varchar5")
           X1 == ((Core ++ WM) ++ A) ++ B7
           X2 == (Core ++ A) ++ B7
           X3 == Core ++ B7
<1>1. At(9) = X1 ++ T
  <2>1. At(9) = (((Core ++ T) ++ WM) ++ A) ++ B7
    BY AtIs DEF Rest
  <2>2. (Core ++ T) ++ WM = (Core ++ WM) ++ T
    BY JoinSwaps
  <2>3. ((Core ++ WM) ++ T) ++ A = ((Core ++ WM) ++ A) ++ T
    BY JoinSwaps
  <2>4. (((Core ++ WM) ++ A) ++ T) ++ B7 = X1 ++ T
    BY JoinSwaps
  <2> QED BY <2>1, <2>2, <2>3, <2>4
<1>2. X1 = X2 ++ WM
  <2>1. (Core ++ WM) ++ A = (Core ++ A) ++ WM
    BY JoinSwaps
  <2>2. ((Core ++ A) ++ WM) ++ B7 = X2 ++ WM
    BY JoinSwaps
  <2> QED BY <2>1, <2>2
<1>3. X2 = X3 ++ A
  BY JoinSwaps
<1>4. Away(X1, "trades_spec", TradeIndexes, TradeKeys)
  BY CoreAway, ThreeAway, BeatAwayFromTrades, AwayTogether
<1>5. Away(X2, "weekly_margin_interest", MarginIndexes, MarginKeys)
  BY CoreAway, ThreeAway, BeatAway, AwayTogether
<1>6. Away(X3, "announcements", AnnouncementIndexes, AnnouncementKeys)
  BY CoreAway, BeatAway, AwayTogether
<1> HIDE DEF X1, X2, X3
<1>7. Goes(DropTable("trades_spec"), X1 ++ T, X1)
  BY <1>4, PartsIn, SomeColumns, TableDropGoes
<1>8. Goes(DropTable("weekly_margin_interest"), X2 ++ WM, X2)
  BY <1>5, PartsIn, SomeColumns, TableDropGoes
<1>9. Goes(DropTable("announcements"), X3 ++ A, X3)
  BY <1>6, PartsIn, SomeColumns, TableDropGoes
<1>10. Takes(UpRemoveThree, X1 ++ T, TRUE, X3, TRUE)
  BY <1>2, <1>3, <1>7, <1>8, <1>9, ThreeSteps DEF UpRemoveThree
<1> QED BY <1>1, <1>10, AtIs DEF X3

\* Its downgrade makes them as da6b106853ae has left them, not as they were first made.
LEMMA DownTo9 == Leads(DownRemoveThree, At(10), TRUE, At(9), TRUE)
<1> DEFINE T == TS("bigint")
           A == AN("varchar5")
           X == Core ++ B7
           X1 == X ++ A
           X2 == X1 ++ WM
           X3 == X2 ++ T
<1>1. Leads(Announcements("varchar5"), X, TRUE, X1, TRUE)
  BY AnnouncementBlock, CreateLeads DEF AN
<1>2. Leads(WeeklyMarginInterest, X1, TRUE, X2, TRUE)
  BY MarginBlock, CreateLeads DEF WM
<1>3. Leads(TradesSpec("bigint"), X2, TRUE, X3, TRUE)
  BY TradeBlock, CreateLeads DEF TS
<1>4. X3 = At(9)
  <2>1. (Core ++ B7) ++ A = (Core ++ A) ++ B7
    BY JoinSwaps
  <2>2. ((Core ++ A) ++ B7) ++ WM = ((Core ++ A) ++ WM) ++ B7
    BY JoinSwaps
  <2>3. (((Core ++ A) ++ WM) ++ B7) ++ T = (((Core ++ A) ++ WM) ++ T) ++ B7
    BY JoinSwaps
  <2>4. ((Core ++ A) ++ WM) ++ T = ((Core ++ A) ++ T) ++ WM
    BY JoinSwaps
  <2>5. (Core ++ A) ++ T = (Core ++ T) ++ A
    BY JoinSwaps
  <2>6. ((Core ++ T) ++ A) ++ WM = ((Core ++ T) ++ WM) ++ A
    BY JoinSwaps
  <2>7. At(9) = (((Core ++ T) ++ WM) ++ A) ++ B7
    BY AtIs DEF Rest
  <2> QED BY <2>1, <2>2, <2>3, <2>4, <2>5, <2>6, <2>7
<1> HIDE DEF X, X1, X2, X3
<1>5. /\ Statements(Announcements("varchar5")) /\ Statements(WeeklyMarginInterest)
      /\ Statements(TradesSpec("bigint"))
      /\ Statements(Announcements("varchar5") \o WeeklyMarginInterest)
  BY PiecesAreStatements, StatementsTogether
<1>6. Leads(Announcements("varchar5") \o WeeklyMarginInterest, X, TRUE, X2, TRUE)
  BY <1>1, <1>2, <1>5, LeadsOn
<1>7. Leads((Announcements("varchar5") \o WeeklyMarginInterest) \o TradesSpec("bigint"),
        X, TRUE, X3, TRUE)
  BY <1>3, <1>5, <1>6, LeadsOn
<1> QED BY <1>4, <1>7, AtIs DEF DownRemoveThree, X

\* b1c2d3e4f5g6: last_run_at and its index
LEMMA UpTo12 == Takes(UpLastRunAt, At(11), TRUE, At(12), TRUE)
<1> DEFINE X == JLI ++ LOG
           P == {PlainIndex("name"), PlainIndex("category")}
           I == {EnabledIndex} \cup P
           C == FlexibleC \cup {Declared("last_run_at")}
<1>1. /\ B7 = BeatPart(FlexibleC, I, FlexibleK)
      /\ B12 = BeatPart(C, I \cup {LastRunIndex}, FlexibleK)
  BY BeatsAre DEF Beat
<1>2. Unused(I, "idx_celery_beat_schedules_last_run_at")
  BY PlainIndexIs, IndexNames DEF Unused
<1>3. BeatHas(C, {"last_run_at"})
  BY ColumnIs DEF BeatHas, HasColumns, Declared
<1> HIDE DEF I, P
<1>4. Goes(AddColumn(B, "last_run_at"), X ++ BeatPart(FlexibleC, I, FlexibleK),
        X ++ BeatPart(C, I, FlexibleK))
  BY WithoutBeat, FlexibleHave, ColumnGoes
<1> HIDE DEF C
<1>5. Goes(CreateIndex(LastRunIndex), X ++ BeatPart(C, I, FlexibleK),
        X ++ BeatPart(C, I \cup {LastRunIndex}, FlexibleK))
  BY <1>2, <1>3, WithoutBeat, IndexGoes DEF LastRunIndex, BeatNames
<1>6. UpLastRunAt = <<AddColumn(B, "last_run_at"), CreateIndex(LastRunIndex)>>
  BY IndexIs DEF UpLastRunAt, LastRunIndex, B
<1> QED BY <1>1, <1>4, <1>5, <1>6, TwoSteps, AtIs

\* ... gone again
LEMMA DownTo11 == Leads(DownLastRunAt, At(12), TRUE, At(11), TRUE)
<1> DEFINE X == JLI ++ LOG
           P == {PlainIndex("name"), PlainIndex("category")}
           I == {EnabledIndex} \cup P
           C == FlexibleC \cup {Declared("last_run_at")}
<1>1. /\ B7 = BeatPart(FlexibleC, I, FlexibleK)
      /\ B12 = BeatPart(C, I \cup {LastRunIndex}, FlexibleK)
  BY BeatsAre DEF Beat
<1>2. I = Unnamed("idx_celery_beat_schedules_last_run_at", I \cup {LastRunIndex})
  BY PlainIndexIs, IndexNames DEF Unnamed
<1>3. LessColumn(C, B, "last_run_at") = FlexibleC
  <2>1. \A c \in FlexibleC : c.name # "last_run_at"
    BY FlexibleHave DEF Unused
  <2>2. Declared("last_run_at").table = B /\ Declared("last_run_at").name = "last_run_at"
    BY ColumnIs DEF Declared
  <2> HIDE DEF FlexibleC
  <2> QED BY <2>1, <2>2 DEF LessColumn
<1>4. LessIndexes(I, B, "last_run_at") = I
  BY PlainIndexIs, IndexIs DEF LessIndexes, EnabledIndex
<1> HIDE DEF I, P, C
<1>5. Might(DropIndex("idx_celery_beat_schedules_last_run_at"),
            X ++ BeatPart(C, I \cup {LastRunIndex}, FlexibleK),
              X ++ BeatPart(C, I, FlexibleK))
  BY <1>2, WithoutBeat, IndexDropGoes DEF BeatNames
<1>6. Might(DropColumn(B, "last_run_at"), X ++ BeatPart(C, I, FlexibleK),
        X ++ BeatPart(FlexibleC, I, FlexibleK))
  BY <1>3, <1>4, WithoutBeat, BeatColumnDropped DEF Might
<1> QED BY <1>1, <1>5, <1>6, TwoSteps, AtIs DEF DownLastRunAt, B
-----------------------------------------------------------------------------
(* Renaming listed_info *)

\* The table of listed stocks under these names
Info(t, code, date, pkey) ==
    [c |-> TableColumns(t, Plain(ListedInfoColumns)),
     i |-> {Index(code, t, {"code"}), Index(date, t, {"date"})}, k |-> {Key(pkey, t)}]

\* What it is called, before and after
InfoTables == {"listed_info", "jquants_listed_info"}
InfoNames == {"idx_listed_info_code", "idx_listed_info_date",
              "idx_jquants_listed_info_code", "idx_jquants_listed_info_date"}
InfoKeys == {"listed_info_pkey", "jquants_listed_info_pkey"}

\* A part that has nothing of it
InfoFree(X) ==
    /\ \A c \in X.c : c.table \notin InfoTables
    /\ \A i \in X.i : i.table \notin InfoTables /\ i.name \notin InfoNames
    /\ \A k \in X.k : k.table \notin InfoTables /\ k.to \notin InfoTables
         /\ k.name \notin InfoKeys

\* It is listed_info at one version and jquants_listed_info at the next.
LEMMA InfosAre ==
    /\ LI = Info("listed_info", "idx_listed_info_code", "idx_listed_info_date",
         "listed_info_pkey")
    /\ JLI = Info("jquants_listed_info", "idx_jquants_listed_info_code",
                  "idx_jquants_listed_info_date", "jquants_listed_info_pkey")
<1> DEFINE s == CreateListedInfo
           code == Index("idx_listed_info_code", "listed_info", {"code"})
           date == Index("idx_listed_info_date", "listed_info", {"date"})
<1>1. Len(s) = 3
  BY DEF CreateListedInfo
<1>2. s[2] = CreateIndex(code) /\ s[3] = CreateIndex(date)
  BY IndexIs DEF CreateListedInfo
<1>3. s[1] = CreateTable("listed_info", Plain(ListedInfoColumns),
        {Key("listed_info_pkey", "listed_info")})
  BY DEF CreateListedInfo
<1> HIDE DEF s, code, date
<1>4. s[2].index = code /\ s[3].index = date
  BY <1>2, IndexIs
<1>5. Ixs(s) = {code, date}
  <2>1. IndexesOf(s)[1] = code /\ IndexesOf(s)[2] = date
    BY <1>1, <1>4 DEF IndexesOf
  <2>2. 1..2 = {1, 2}
    OBVIOUS
  <2> QED BY <1>1, <2>1, <2>2 DEF Ixs, Firsts
<1>6. Cols(s) = TableColumns("listed_info", Plain(ListedInfoColumns))
        /\ Keys(s) = {Key("listed_info_pkey", "listed_info")}
  BY <1>3, TableIs DEF Cols, Keys
<1>7. LI = [c |-> Cols(s), i |-> Ixs(s), k |-> Keys(s)]
  BY DEF LI, Part, s
<1>8. LI = Info("listed_info", "idx_listed_info_code", "idx_listed_info_date",
        "listed_info_pkey")
  BY <1>5, <1>6, <1>7 DEF Info, code, date
<1> QED BY <1>8 DEF JLI, Info

\* Renaming leaves alone what is called otherwise,
LEMMA RenamedApart ==
    ASSUME NEW P, NEW Q, NEW n, NEW to, \A p \in P : p.name # n
    PROVE  Renamed(n, to, P \cup Q) = P \cup Renamed(n, to, Q)
BY DEF Renamed

\* and what refers to another table.
LEMMA ReferredApart ==
    ASSUME NEW P, NEW Q, NEW t, NEW to, \A p \in P : p.table # t /\ p.to # t
    PROVE  AllReferred(P \cup Q, t, to) = P \cup AllReferred(Q, t, to)
<1>1. \A p \in P : ReferredTo(MovedTo(p, t, to), t, to) = p
  BY DEF ReferredTo, MovedTo
<1> QED BY <1>1 DEF AllReferred

\* What renaming makes of an index,
LEMMA IndexRenamed ==
    ASSUME NEW n, NEW t, NEW cs, NEW to
    PROVE  /\ [Index(n, t, cs) EXCEPT !.name = to] = Index(to, t, cs)
           /\ [Index(n, t, cs) EXCEPT !.table = to] = Index(n, to, cs)
<1> DEFINE F == {"name", "table", "columns", "unique"}
           x == Index(n, t, cs)
<1>1. DOMAIN x = F
  BY DEF Index
<1>2. x.name = n /\ x.table = t /\ x.columns = cs /\ x.unique = FALSE
  BY DEF Index
<1> HIDE DEF x
<1>3. [x EXCEPT !.name = to] = Index(to, t, cs)
  <2> DEFINE z == Index(to, t, cs)
  <2>1. DOMAIN z = F /\ z.name = to /\ z.table = t /\ z.columns = cs /\ z.unique = FALSE
    BY DEF Index
  <2>2. z = [f \in F |-> z[f]]
    BY Zenon DEF Index
  <2> HIDE DEF z
  <2>3. \A f \in F : (IF f = "name" THEN to ELSE x[f]) = z[f]
    BY <1>2, <2>1
  <2>4. [x EXCEPT !.name = to] = [f \in F |-> IF f = "name" THEN to ELSE x[f]]
    BY <1>1
  <2> QED BY <2>2, <2>3, <2>4 DEF z
<1>4. [x EXCEPT !.table = to] = Index(n, to, cs)
  <2> DEFINE z == Index(n, to, cs)
  <2>1. DOMAIN z = F /\ z.name = n /\ z.table = to /\ z.columns = cs /\ z.unique = FALSE
    BY DEF Index
  <2>2. z = [f \in F |-> z[f]]
    BY Zenon DEF Index
  <2> HIDE DEF z
  <2>3. \A f \in F : (IF f = "table" THEN to ELSE x[f]) = z[f]
    BY <1>2, <2>1
  <2>4. [x EXCEPT !.table = to] = [f \in F |-> IF f = "table" THEN to ELSE x[f]]
    BY <1>1
  <2> QED BY <2>2, <2>3, <2>4 DEF z
<1> QED BY <1>3, <1>4 DEF x

\* of one whose table is renamed,
LEMMA IndexMoved ==
    ASSUME NEW n, NEW t, NEW cs, NEW to
    PROVE  MovedTo(Index(n, t, cs), t, to) = Index(n, to, cs)
<1> DEFINE x == Index(n, t, cs)
           y == [x EXCEPT !.table = to]
<1>1. x.table = t /\ y = Index(n, to, cs)
  BY IndexIs, IndexRenamed
<1>2. MovedTo(x, t, to) = y
  <2> HIDE DEF x
  <2>1. x.table = t => MovedTo(x, t, to) = y
    BY Zenon DEF MovedTo
  <2> QED BY <1>1, <2>1
<1> QED BY <1>1, <1>2, Zenon

\* and of a key.
LEMMA KeyRenamed ==
    ASSUME NEW n, NEW t, NEW to
    PROVE  /\ [Key(n, t) EXCEPT !.name = to] = Key(to, t)
           /\ [Key(n, t) EXCEPT !.table = to] = Constraint(n, to, t)
           /\ [Constraint(n, to, t) EXCEPT !.to = to] = Key(n, to)
BY DEF Key, Constraint

\* Its parts, beside another part
LEMMA InfoIs ==
    \A X, t, code, date, pkey :
       /\ (X ++ Info(t, code, date, pkey)).c = X.c
            \cup TableColumns(t, Plain(ListedInfoColumns))
       /\ (X ++ Info(t, code, date, pkey)).i = X.i
            \cup {Index(code, t, {"code"}), Index(date, t, {"date"})}
       /\ (X ++ Info(t, code, date, pkey)).k = X.k \cup {Key(pkey, t)}
BY DEF ++, Info

\* A database that holds it beside another part
LEMMA InfoHolds ==
    \A d, X, t, code, date, pkey :
       Holds(d, X ++ Info(t, code, date, pkey), TRUE)
         <=> Fits(d, X.c \cup TableColumns(t, Plain(ListedInfoColumns)),
                  X.i \cup {Index(code, t, {"code"}), Index(date, t, {"date"})},
                    X.k \cup {Key(pkey, t)}, TRUE)
<1> SUFFICES ASSUME NEW d, NEW X, NEW t, NEW code, NEW date, NEW pkey
             PROVE  Holds(d, X ++ Info(t, code, date, pkey), TRUE)
         <=> Fits(d, X.c \cup TableColumns(t, Plain(ListedInfoColumns)),
                  X.i \cup {Index(code, t, {"code"}), Index(date, t, {"date"})},
                    X.k \cup {Key(pkey, t)}, TRUE)
  OBVIOUS
<1> DEFINE Y == X ++ Info(t, code, date, pkey)
           C == X.c \cup TableColumns(t, Plain(ListedInfoColumns))
           I == X.i \cup {Index(code, t, {"code"}), Index(date, t, {"date"})}
           K == X.k \cup {Key(pkey, t)}
<1>1. Y.c = C /\ Y.i = I /\ Y.k = K
  BY InfoIs
<1> HIDE DEF Y, C, I, K
<1>2. Holds(d, Y, TRUE) <=> Fits(d, C, I, K, TRUE)
  BY <1>1 DEF Holds
<1> QED BY <1>2 DEF Y, C, I, K

\* a3aa5ea18e77, statement by statement: the table is renamed,
LEMMA InfoMoves ==
    ASSUME NEW X, InfoFree(X), NEW t \in InfoTables, NEW to \in InfoTables, t # to,
           NEW code, NEW date, NEW pkey
    PROVE  Goes(RenameTable(t, to), X ++ Info(t, code, date, pkey),
           X ++ Info(to, code, date, pkey))
<1> DEFINE C == TableColumns(t, Plain(ListedInfoColumns))
           I == {Index(code, t, {"code"}), Index(date, t, {"date"})}
           K == {Key(pkey, t)}
           C2 == TableColumns(to, Plain(ListedInfoColumns))
           I2 == {Index(code, to, {"code"}), Index(date, to, {"date"})}
           K2 == {Key(pkey, to)}
<1> SUFFICES ASSUME NEW d, Holds(d, X ++ Info(t, code, date, pkey), TRUE)
             PROVE  LET e == Apply(d, RenameTable(t, to)) IN
                    Holds(e, X ++ Info(to, code, date, pkey), TRUE)
                      /\ (~d.aborted => ~e.aborted)
  BY DEF Goes
<1> DEFINE e == Apply(d, RenameTable(t, to))
<1>1. Fits(d, X.c \cup C, X.i \cup I, X.k \cup K, TRUE)
  BY InfoHolds
<1>2. AllMoved(X.c \cup C, t, to) = X.c \cup C2
  <2>1. \A c \in X.c : c.table # t
    BY DEF InfoFree
  <2>2. AllMoved(X.c \cup C, t, to) = X.c \cup AllMoved(C, t, to)
    <3> DEFINE P == X.c
    <3>1. \A p \in P : p.table # t
      BY <2>1
    <3> HIDE DEF C, P
    <3>2. AllMoved(P \cup C, t, to) = P \cup AllMoved(C, t, to)
      BY <3>1, MovedApart
    <3> QED BY <3>2 DEF P
  <2>3. AllMoved(C, t, to) = C2
    BY ColumnsMoved
  <2> QED BY <2>2, <2>3
<1>3. AllMoved(X.i \cup I, t, to) = X.i \cup I2
  <2>1. \A i \in X.i : i.table # t
    BY DEF InfoFree
  <2>2. AllMoved(X.i \cup I, t, to) = X.i \cup AllMoved(I, t, to)
    <3> DEFINE P == X.i
    <3>1. \A p \in P : p.table # t
      BY <2>1
    <3> HIDE DEF I, P
    <3>2. AllMoved(P \cup I, t, to) = P \cup AllMoved(I, t, to)
      BY <3>1, MovedApart
    <3> QED BY <3>2 DEF P
  <2>3. \A n, cs : MovedTo(Index(n, t, cs), t, to) = Index(n, to, cs)
    BY IndexMoved
  <2>4. AllMoved(I, t, to) = I2
    BY <2>3 DEF AllMoved
  <2> QED BY <2>2, <2>4
<1>4. AllReferred(X.k \cup K, t, to) = X.k \cup K2
  <2>1. \A k \in X.k : k.table # t /\ k.to # t
    BY DEF InfoFree
  <2>2. AllReferred(X.k \cup K, t, to) = X.k \cup AllReferred(K, t, to)
    BY <2>1, ReferredApart
  <2>3. ReferredTo(MovedTo(Key(pkey, t), t, to), t, to) = Key(pkey, to)
    <3> DEFINE k == Key(pkey, t)
               j == Constraint(pkey, to, t)
    <3>1. k.table = t /\ [k EXCEPT !.table = to] = j
      BY KeyIs, KeyRenamed
    <3>2. j.to = t
      BY KeyIs
    <3>3. [j EXCEPT !.to = to] = Key(pkey, to)
      BY KeyRenamed
    <3> HIDE DEF k
    <3>4. MovedTo(k, t, to) = j
      BY <3>1, Zenon DEF MovedTo
    <3> HIDE DEF j
    <3>5. ReferredTo(j, t, to) = [j EXCEPT !.to = to]
      BY <3>2, Zenon DEF ReferredTo
    <3> QED BY <3>3, <3>4, <3>5 DEF k
  <2>4. AllReferred(K, t, to) = K2
    BY <2>3 DEF AllReferred
  <2> QED BY <2>2, <2>4
<1>5. \E c \in X.c \cup C : c.table = t
  <2>1. Column(t, "code", "as declared") \in C
    BY ColumnIn DEF ListedInfoColumns
  <2>2. Column(t, "code", "as declared").table = t
    BY DEF Column
  <2> QED BY <2>1, <2>2
<1>6. \A c \in X.c \cup C : c.table # to
  <2>1. \A c \in X.c : c.table # to
    BY DEF InfoFree
  <2>2. \A c \in C : c.table = t
    BY ColumnsIn
  <2> QED BY <2>1, <2>2
<1> HIDE DEF C, I, K, C2, I2, K2
<1>7. Fits(e, AllMoved(X.c \cup C, t, to), AllMoved(X.i \cup I, t, to),
        AllReferred(X.k \cup K, t, to), TRUE)
  BY <1>1, RenamesTable
<1>8. ~d.aborted => ~e.aborted
  BY <1>1, <1>5, <1>6, RenamesTable
<1> HIDE DEF e
<1>9. Fits(e, X.c \cup C2, X.i \cup I2, X.k \cup K2, TRUE)
  BY <1>2, <1>3, <1>4, <1>7
<1>10. Holds(e, X ++ Info(to, code, date, pkey), TRUE)
  BY <1>9, InfoHolds DEF C2, I2, K2
<1> QED BY <1>8, <1>10 DEF e

\* an index of it,
LEMMA InfoIndexRenamed ==
    ASSUME NEW X, InfoFree(X), NEW t, NEW n \in InfoNames, NEW m, NEW to \in InfoNames,
           n # m, to # n, to # m, NEW cs, NEW ms, NEW C, NEW K
    PROVE  LET I == {Index(n, t, cs), Index(m, t, ms)}
               J == {Index(to, t, cs), Index(m, t, ms)} IN
           \A d : Fits(d, C, X.i \cup I, K, TRUE) =>
                    LET e == Apply(d, RenameIndex(n, to)) IN
                    Fits(e, C, X.i \cup J, K, TRUE) /\ (~d.aborted => ~e.aborted)
<1> DEFINE I == {Index(n, t, cs), Index(m, t, ms)}
           J == {Index(to, t, cs), Index(m, t, ms)}
<1> SUFFICES ASSUME NEW d, Fits(d, C, X.i \cup I, K, TRUE)
             PROVE  LET e == Apply(d, RenameIndex(n, to)) IN
                    Fits(e, C, X.i \cup J, K, TRUE) /\ (~d.aborted => ~e.aborted)
  OBVIOUS
<1> DEFINE e == Apply(d, RenameIndex(n, to))
<1>1. \A i \in X.i : i.name # n /\ i.name # to
  BY DEF InfoFree
<1>2. Renamed(n, to, X.i \cup I) = X.i \cup Renamed(n, to, I)
  <2> DEFINE P == X.i
  <2>1. \A p \in P : p.name # n
    BY <1>1
  <2> HIDE DEF I, P
  <2>2. Renamed(n, to, P \cup I) = P \cup Renamed(n, to, I)
    BY <2>1, RenamedApart
  <2> QED BY <2>2 DEF P
<1>3. Renamed(n, to, I) = J
  <2> DEFINE x == Index(n, t, cs)
             y == Index(m, t, ms)
             z == Index(to, t, cs)
  <2>1. x.name = n /\ y.name = m /\ [x EXCEPT !.name = to] = z
    BY IndexIs, IndexRenamed
  <2> HIDE DEF x, y, z
  <2>2. Renamed(n, to, {x, y}) = {z, y}
    BY <2>1 DEF Renamed
  <2> QED BY <2>2 DEF x, y, z
<1>4. \E i \in X.i \cup I : i.name = n
  BY IndexIs
<1>5. \A i \in X.i \cup I : i.name # to
  BY <1>1, IndexIs
<1> HIDE DEF I, J
<1>6. Fits(e, C, Renamed(n, to, X.i \cup I), K, TRUE)
  BY RenamesIndex
<1>7. ~d.aborted => ~e.aborted
  BY <1>4, <1>5, RenamesIndex
<1> QED BY <1>2, <1>3, <1>6, <1>7

\* the one by code,
LEMMA InfoCodeRenamed ==
    ASSUME NEW X, InfoFree(X), NEW t, NEW code \in InfoNames, NEW date, NEW pkey,
           NEW to \in InfoNames,
           code # date, to # code, to # date
    PROVE  Goes(RenameIndex(code, to), X ++ Info(t, code, date, pkey),
           X ++ Info(t, to, date, pkey))
<1> SUFFICES ASSUME NEW d, Holds(d, X ++ Info(t, code, date, pkey), TRUE)
             PROVE  LET e == Apply(d, RenameIndex(code, to)) IN
                    Holds(e, X ++ Info(t, to, date, pkey), TRUE)
                      /\ (~d.aborted => ~e.aborted)
  BY DEF Goes
<1> DEFINE e == Apply(d, RenameIndex(code, to))
           C == X.c \cup TableColumns(t, Plain(ListedInfoColumns))
           I == X.i \cup {Index(code, t, {"code"}), Index(date, t, {"date"})}
           J == X.i \cup {Index(to, t, {"code"}), Index(date, t, {"date"})}
           K == X.k \cup {Key(pkey, t)}
<1>1. Fits(d, C, I, K, TRUE)
  BY InfoHolds
<1>2. Fits(e, C, J, K, TRUE) /\ (~d.aborted => ~e.aborted)
  <2> HIDE DEF C, K
  <2> QED BY <1>1, InfoIndexRenamed
<1> HIDE DEF e
<1>3. Holds(e, X ++ Info(t, to, date, pkey), TRUE)
  BY <1>2, InfoHolds
<1> QED BY <1>2, <1>3 DEF e

\* the one by date,
LEMMA InfoDateRenamed ==
    ASSUME NEW X, InfoFree(X), NEW t, NEW code, NEW date \in InfoNames, NEW pkey,
           NEW to \in InfoNames,
           code # date, to # code, to # date
    PROVE  Goes(RenameIndex(date, to), X ++ Info(t, code, date, pkey),
           X ++ Info(t, code, to, pkey))
<1> SUFFICES ASSUME NEW d, Holds(d, X ++ Info(t, code, date, pkey), TRUE)
             PROVE  LET e == Apply(d, RenameIndex(date, to)) IN
                    Holds(e, X ++ Info(t, code, to, pkey), TRUE)
                      /\ (~d.aborted => ~e.aborted)
  BY DEF Goes
<1> DEFINE e == Apply(d, RenameIndex(date, to))
           C == X.c \cup TableColumns(t, Plain(ListedInfoColumns))
           I == X.i \cup {Index(date, t, {"date"}), Index(code, t, {"code"})}
           J == X.i \cup {Index(to, t, {"date"}), Index(code, t, {"code"})}
           K == X.k \cup {Key(pkey, t)}
<1>1. \A p, q : {Index(p, t, {"code"}), Index(q, t, {"date"})}
        = {Index(q, t, {"date"}), Index(p, t, {"code"})}
  OBVIOUS
<1>2. Fits(d, C, I, K, TRUE)
  <2>1. Fits(d, C, X.i \cup {Index(code, t, {"code"}), Index(date, t, {"date"})}, K, TRUE)
    BY InfoHolds
  <2> QED BY <1>1, <2>1
<1>3. Fits(e, C, J, K, TRUE) /\ (~d.aborted => ~e.aborted)
  <2> HIDE DEF C, K
  <2> QED BY <1>2, InfoIndexRenamed
<1> HIDE DEF e
<1>4. Fits(e, C, X.i \cup {Index(code, t, {"code"}), Index(to, t, {"date"})}, K, TRUE)
  BY <1>1, <1>3
<1>5. Holds(e, X ++ Info(t, code, to, pkey), TRUE)
  BY <1>4, InfoHolds
<1> QED BY <1>3, <1>5 DEF e

\* and its primary key.
LEMMA InfoKeyRenamed ==
    ASSUME NEW X, InfoFree(X), NEW t, NEW code, NEW date, NEW pkey \in InfoKeys, NEW to
    PROVE  Goes(RenameConstraint(pkey, to), X ++ Info(t, code, date, pkey),
           X ++ Info(t, code, date, to))
<1> SUFFICES ASSUME NEW d, Holds(d, X ++ Info(t, code, date, pkey), TRUE)
             PROVE  LET e == Apply(d, RenameConstraint(pkey, to)) IN
                    Holds(e, X ++ Info(t, code, date, to), TRUE)
                      /\ (~d.aborted => ~e.aborted)
  BY DEF Goes
<1> DEFINE e == Apply(d, RenameConstraint(pkey, to))
           C == X.c \cup TableColumns(t, Plain(ListedInfoColumns))
           I == X.i \cup {Index(code, t, {"code"}), Index(date, t, {"date"})}
           K == {Key(pkey, t)}
           L == {Key(to, t)}
<1>1. Fits(d, C, I, X.k \cup K, TRUE)
  BY InfoHolds
<1>2. Renamed(pkey, to, X.k \cup K) = X.k \cup Renamed(pkey, to, K)
  BY RenamedApart DEF InfoFree
<1>3. Renamed(pkey, to, K) = L
  <2> DEFINE x == Key(pkey, t)
             z == Key(to, t)
  <2>1. x.name = pkey /\ [x EXCEPT !.name = to] = z
    BY KeyIs, KeyRenamed
  <2> HIDE DEF x, z
  <2>2. Renamed(pkey, to, {x}) = {z}
    BY <2>1 DEF Renamed
  <2> QED BY <2>2 DEF x, z
<1>4. \E k \in X.k \cup K : k.name = pkey
  BY KeyIs
<1> HIDE DEF C, I, K, L
<1>5. Fits(e, C, I, Renamed(pkey, to, X.k \cup K), TRUE)
  BY <1>1, RenamesConstraint
<1>6. ~d.aborted => ~e.aborted
  BY <1>1, <1>4, RenamesConstraint
<1>7. Fits(e, C, I, X.k \cup L, TRUE)
  BY <1>2, <1>3, <1>5
<1> HIDE DEF e
<1>8. Holds(e, X ++ Info(t, code, date, to), TRUE)
  BY <1>7, InfoHolds DEF C, I, L
<1> QED BY <1>6, <1>8 DEF e

\* What is beside it at the versions 10 and 11
LEMMA BesideInfo ==
    /\ InfoFree(LOG ++ B7)
    /\ At(10) = (LOG ++ B7) ++ LI
    /\ At(11) = (LOG ++ B7) ++ JLI
<1>1. ASSUME NEW Y, NEW t, NEW names, NEW keys, NEW tos, In(Y, t, names, keys, tos),
             t \notin InfoTables,
             tos \cap InfoTables = {}, names \cap InfoNames = {}, keys \cap InfoKeys = {}
      PROVE  InfoFree(Y)
  BY <1>1 DEF In, Owned, InfoFree
<1>2. InfoFree(LOG)
  BY <1>1, PartsIn DEF LogIndexes, LogKeys, InfoTables, InfoNames, InfoKeys, B
<1>3. InfoFree(B7)
  BY <1>1, BeatsIn DEF BeatNames, AllBeatKeys, UniqueName, InfoTables, InfoNames,
     InfoKeys, B
<1>4. InfoFree(LOG ++ B7)
  BY <1>2, <1>3, JoinParts DEF InfoFree
<1>5. \A Y : (Y ++ LOG) ++ B7 = (LOG ++ B7) ++ Y
  BY JoinTurns
<1> QED BY <1>4, <1>5, AtIs DEF Core

\* a3aa5ea18e77: listed_info becomes jquants_listed_info,
LEMMA UpTo11 == Takes(UpRename, At(10), TRUE, At(11), TRUE)
<1> DEFINE X == LOG ++ B7
           c1 == "idx_listed_info_code"
           c2 == "idx_jquants_listed_info_code"
           d1 == "idx_listed_info_date"
           d2 == "idx_jquants_listed_info_date"
           k1 == "listed_info_pkey"
           k2 == "jquants_listed_info_pkey"
           u == "jquants_listed_info"
<1>0. InfoFree(X)
  BY BesideInfo
<1> HIDE DEF X
<1>1. Goes(RenameTable("listed_info", u), X ++ Info("listed_info", c1, d1, k1),
        X ++ Info(u, c1, d1, k1))
  BY <1>0, InfoMoves DEF InfoTables
<1>2. Goes(RenameIndex(c1, c2), X ++ Info(u, c1, d1, k1), X ++ Info(u, c2, d1, k1))
  BY <1>0, InfoCodeRenamed DEF InfoNames
<1>3. Goes(RenameIndex(d1, d2), X ++ Info(u, c2, d1, k1), X ++ Info(u, c2, d2, k1))
  BY <1>0, InfoDateRenamed DEF InfoNames
<1>4. Goes(RenameConstraint(k1, k2), X ++ Info(u, c2, d2, k1), X ++ Info(u, c2, d2, k2))
  BY <1>0, InfoKeyRenamed DEF InfoKeys
<1>5. Takes(UpRename, X ++ Info("listed_info", c1, d1, k1), TRUE,
        X ++ Info(u, c2, d2, k2), TRUE)
  BY <1>1, <1>2, <1>3, <1>4, FourSteps DEF UpRename
<1> QED BY <1>5, BesideInfo, InfosAre DEF X

\* and is listed_info again.
LEMMA DownTo10 == Leads(DownRename, At(11), TRUE, At(10), TRUE)
<1> DEFINE X == LOG ++ B7
           c1 == "idx_listed_info_code"
           c2 == "idx_jquants_listed_info_code"
           d1 == "idx_listed_info_date"
           d2 == "idx_jquants_listed_info_date"
           k1 == "listed_info_pkey"
           k2 == "jquants_listed_info_pkey"
           u == "jquants_listed_info"
<1>0. InfoFree(X)
  BY BesideInfo
<1> HIDE DEF X
<1>1. Goes(RenameConstraint(k2, k1), X ++ Info(u, c2, d2, k2), X ++ Info(u, c2, d2, k1))
  BY <1>0, InfoKeyRenamed DEF InfoKeys
<1>2. Goes(RenameIndex(c2, c1), X ++ Info(u, c2, d2, k1), X ++ Info(u, c1, d2, k1))
  BY <1>0, InfoCodeRenamed DEF InfoNames
<1>3. Goes(RenameIndex(d2, d1), X ++ Info(u, c1, d2, k1), X ++ Info(u, c1, d1, k1))
  BY <1>0, InfoDateRenamed DEF InfoNames
<1>4. Goes(RenameTable(u, "listed_info"), X ++ Info(u, c1, d1, k1),
        X ++ Info("listed_info", c1, d1, k1))
  BY <1>0, InfoMoves DEF InfoTables
<1>5. Takes(DownRename, X ++ Info(u, c2, d2, k2), TRUE,
        X ++ Info("listed_info", c1, d1, k1), TRUE)
  BY <1>1, <1>2, <1>3, <1>4, FourSteps DEF DownRename
<1>6. Takes(DownRename, At(11), TRUE, At(10), TRUE)
  BY <1>5, BesideInfo, InfosAre DEF X
<1> QED BY <1>6, TakesLeads
-----------------------------------------------------------------------------
(* Aborted transactions *)

\* A database, in whatever state its transaction is
Whole(d) == DOMAIN d = Parts /\ d.aborted \in BOOLEAN

\* Every database fits itself,
LEMMA FitsItself ==
    ASSUME NEW d, Whole(d)
    PROVE  Fits(d, d.columns, d.indexes, d.constraints, TRUE)
BY DEF Whole, Fits

\* and one that fits has these parts.
LEMMA FitsWhole ==
    ASSUME NEW d, NEW C, NEW I, NEW K, NEW same, Fits(d, C, I, K, same)
    PROVE  Whole(d) /\ (~d.aborted => d.columns = C /\ d.indexes = I /\ d.constraints = K)
BY DEF Whole, Fits

\* A refused statement aborts the transaction, and aborted it stays.
LEMMA Refused ==
    ASSUME NEW d, DOMAIN d = Parts, NEW op, d.aborted \/ ~Accepts(op, d)
    PROVE  Apply(d, op).aborted
<1> DEFINE e == [d EXCEPT !.aborted = TRUE]
<1>1. Apply(d, op) = e
  BY DEF Apply
<1>2. e.aborted = TRUE
  BY DEF Parts
<1> HIDE DEF e
<1> QED BY <1>1, <1>2

\* In a trace an aborted transaction stays aborted.
LEMMA AbortedInTrace ==
    ASSUME NEW r, NEW ops, Statements(ops), NEW n \in Nat, DOMAIN ops = 1..n, NEW d,
           DOMAIN d = Parts,
           Trace(r, ops, n, d), NEW m \in 0..n, r[m].aborted
    PROVE  r[n].aborted
<1> DEFINE Part1(k) == DOMAIN r[k] = Parts
           Whole1 == {k \in Nat : k \in 0..n => Part1(k)}
           Gone(k) == r[k].aborted
           Bad == {k \in Nat : m + k \in 0..n => Gone(m + k)}
<1>1. \A k \in 0..(n - 1) : r[k + 1] = Apply(r[k], ops[k + 1]) /\ ops[k + 1].do \in Kinds
  BY DEF Trace, Statements
<1>2. 0 \in Whole1
  BY DEF Trace
<1>3. ASSUME NEW k \in Nat, k \in Whole1 PROVE k + 1 \in Whole1
  <2> SUFFICES ASSUME k + 1 \in 0..n PROVE Part1(k + 1)
    OBVIOUS
  <2>1. k \in 0..n /\ k \in 0..(n - 1)
    OBVIOUS
  <2>2. DOMAIN r[k] = Parts
    BY <1>3, <2>1
  <2>3. DOMAIN Apply(r[k], ops[k + 1]) = DOMAIN r[k]
    BY <1>1, <2>1, ApplyKeepsParts
  <2> QED BY <1>1, <2>1, <2>2, <2>3
<1>4. Nat \subseteq Whole1
  <2> HIDE DEF Whole1
  <2> QED BY <1>2, <1>3, SetInduction
<1>5. 0 \in Bad
  OBVIOUS
<1>6. ASSUME NEW k \in Nat, k \in Bad PROVE k + 1 \in Bad
  <2> SUFFICES ASSUME m + (k + 1) \in 0..n PROVE Gone(m + (k + 1))
    OBVIOUS
  <2> DEFINE j == m + k
  <2>1. j \in 0..n /\ j \in 0..(n - 1) /\ j \in Nat /\ m + (k + 1) = j + 1
    OBVIOUS
  <2>2. Gone(j)
    BY <1>6, <2>1
  <2>3. DOMAIN r[j] = Parts
    BY <1>4, <2>1
  <2> HIDE DEF j
  <2>4. Apply(r[j], ops[j + 1]).aborted
    BY <2>2, <2>3, Refused
  <2> QED BY <1>1, <2>1, <2>4
<1>7. Nat \subseteq Bad
  <2> HIDE DEF Bad
  <2> QED BY <1>5, <1>6, SetInduction
<1>8. n - m \in Nat /\ m + (n - m) = n /\ n \in 0..n
  OBVIOUS
<1>9. n - m \in Bad
  BY <1>7, <1>8
<1> QED BY <1>8, <1>9

\* A run fails whose transaction is aborted or whose first statement is refused.
LEMMA AbortedRun ==
    ASSUME NEW d, DOMAIN d = Parts, NEW ops, Statements(ops),
           \/ d.aborted
           \/ 1 \in DOMAIN ops /\ ~Accepts(ops[1], d)
    PROVE  Run(ops, d).aborted
<1>1. PICK n \in Nat : DOMAIN ops = 1..n
  BY DEF Statements
<1>2. PICK r : Trace(r, ops, n, d) /\ r[n] = Run(ops, d)
  BY <1>1, RunIsTrace
<1>3. CASE d.aborted
  <2>1. r[0].aborted /\ 0 \in 0..n
    BY <1>2, <1>3 DEF Trace
  <2> QED BY <1>1, <1>2, <2>1, AbortedInTrace
<1>4. CASE 1 \in DOMAIN ops /\ ~Accepts(ops[1], d)
  <2>1. 0 \in 0..(n - 1) /\ 1 \in 0..n /\ 0 + 1 = 1
    BY <1>1, <1>4
  <2>2. r[1] = Apply(d, ops[1])
    BY <1>2, <2>1 DEF Trace
  <2>3. r[1].aborted
    BY <1>4, <2>2, Refused
  <2> QED BY <1>1, <1>2, <2>1, <2>3, AbortedInTrace
<1> QED BY <1>3, <1>4

\* Creating and dropping a block leaves a database.
LEMMA RunStaysWhole ==
    ASSUME NEW d, Whole(d), NEW t, NEW names, NEW s,
           \/ Drops(s, t, names)
           \/ \E keys, tos : Block(s, t, names, keys, tos)
    PROVE  Whole(Run(s, d))
<1>1. Fits(d, d.columns, d.indexes, d.constraints, TRUE)
  BY FitsItself
<1>2. CASE \E keys, tos : Block(s, t, names, keys, tos)
  <2>1. PICK keys, tos : Block(s, t, names, keys, tos)
    BY <1>2
  <2>2. Fits(Run(s, d), d.columns \cup Cols(s), d.indexes \cup Ixs(s),
          d.constraints \cup Keys(s), TRUE)
    BY <1>1, <2>1, BlockCreated
  <2> QED BY <2>2, FitsWhole
<1>3. CASE Drops(s, t, names)
  <2> DEFINE n == Len(s) - 1
             nm == [k \in 1..n |-> s[k].name]
  <2>1. n \in Nat /\ DOMAIN s = 1..(n + 1) /\ s[n + 1] = DropTable(t)
          /\ \A k \in 1..n : s[k] = DropIndex(nm[k])
    BY <1>3 DEF Drops
  <2> HIDE DEF n, nm
  <2>2. Fits(Run(s, d), NotOf(t, d.columns), NotOf(t, NoneNamed(d.indexes, nm, n)),
          NotOf(t, d.constraints),
             SameLeft(TRUE, t))
    BY <1>1, <2>1, DropsBlock
  <2> QED BY <2>2, FitsWhole
<1> QED BY <1>2, <1>3

\* What a script that drops another table leaves
LEMMA DropLeaves ==
    ASSUME NEW d, Whole(d), NEW t, NEW names, NEW s, Drops(s, t, names), ~Run(s, d).aborted
    PROVE  /\ \A c \in d.columns : c.table # t => c \in Run(s, d).columns
           /\ Run(s, d).indexes \subseteq d.indexes
<1> DEFINE n == Len(s) - 1
           nm == [k \in 1..n |-> s[k].name]
<1>1. Fits(d, d.columns, d.indexes, d.constraints, TRUE)
  BY FitsItself
<1>2. n \in Nat /\ DOMAIN s = 1..(n + 1) /\ s[n + 1] = DropTable(t)
        /\ \A k \in 1..n : s[k] = DropIndex(nm[k])
  BY DEF Drops
<1> HIDE DEF n, nm
<1>3. Fits(Run(s, d), NotOf(t, d.columns), NotOf(t, NoneNamed(d.indexes, nm, n)),
        NotOf(t, d.constraints),
           SameLeft(TRUE, t))
  BY <1>1, <1>2, DropsBlock
<1>4. Run(s, d).columns = NotOf(t, d.columns)
        /\ Run(s, d).indexes = NotOf(t, NoneNamed(d.indexes, nm, n))
  BY <1>3, FitsWhole
<1>5. NoneNamed(d.indexes, nm, n) \subseteq d.indexes
  BY DEF NoneNamed
<1> QED BY <1>4, <1>5 DEF NotOf
-----------------------------------------------------------------------------
(* A table that is there already *)

\* It has columns, as every table of the revisions does.
HasTable(d, t) == \E c \in d.columns : c.table = t

\* The table is there, or the transaction is aborted.
There(d, t) == Whole(d) /\ (d.aborted \/ HasTable(d, t))

\* A script never takes the table away, or is refused because of it.
Keeps(s, t) == \A d : There(d, t) => There(Run(s, d), t)

Refuses(s, t) == \A d : There(d, t) => Whole(Run(s, d)) /\ Run(s, d).aborted

\* Scripts one after the other keep what each of them keeps.
LEMMA KeepsOn ==
    ASSUME NEW a, NEW b, Statements(a), Statements(b), NEW t, Keeps(a, t), Keeps(b, t)
    PROVE  Keeps(a \o b, t)
<1> SUFFICES ASSUME NEW d, There(d, t) PROVE There(Run(a \o b, d), t)
  BY DEF Keeps
<1>1. Run(a \o b, d) = Run(b, Run(a, d))
  BY RunConcat
<1> QED BY <1>1 DEF Keeps

\* Creating a block keeps every table,
LEMMA CreateKeeps ==
    ASSUME NEW s, Statements(s), NEW t, NEW names, NEW keys, NEW tos,
           Block(s, t, names, keys, tos), NEW u
    PROVE  Keeps(s, u)
<1> SUFFICES ASSUME NEW d, There(d, u) PROVE There(Run(s, d), u)
  BY DEF Keeps
<1>1. Whole(d) /\ Whole(Run(s, d))
  BY RunStaysWhole DEF There
<1>2. CASE d.aborted
  BY <1>1, <1>2, AbortedRun DEF There, Whole
<1>3. CASE ~d.aborted
  <2>1. Fits(Run(s, d), d.columns \cup Cols(s), d.indexes \cup Ixs(s),
          d.constraints \cup Keys(s), TRUE)
    BY <1>1, FitsItself, BlockCreated
  <2>2. ~Run(s, d).aborted => Run(s, d).columns = d.columns \cup Cols(s)
    BY <2>1, FitsWhole
  <2> QED BY <1>1, <1>3, <2>2 DEF There, HasTable
<1> QED BY <1>2, <1>3

\* and dropping one every other table.
LEMMA DropKeeps ==
    ASSUME NEW s, Statements(s), NEW t, NEW names, Drops(s, t, names), NEW u, u # t
    PROVE  Keeps(s, u)
<1> SUFFICES ASSUME NEW d, There(d, u) PROVE There(Run(s, d), u)
  BY DEF Keeps
<1>1. Whole(d) /\ Whole(Run(s, d))
  BY RunStaysWhole DEF There
<1>2. CASE d.aborted
  BY <1>1, <1>2, AbortedRun DEF There, Whole
<1>3. CASE ~d.aborted
  <2>1. ~Run(s, d).aborted => HasTable(Run(s, d), u)
    BY <1>1, <1>3, DropLeaves DEF There, HasTable
  <2> QED BY <1>1, <2>1 DEF There
<1> QED BY <1>2, <1>3

\* A table that is there is not created again.
LEMMA CreateRefuses ==
    ASSUME NEW s, Statements(s), NEW t, NEW names, NEW keys, NEW tos,
           Block(s, t, names, keys, tos)
    PROVE  Refuses(s, t)
<1> SUFFICES ASSUME NEW d, There(d, t) PROVE Whole(Run(s, d)) /\ Run(s, d).aborted
  BY DEF Refuses
<1>1. Whole(d) /\ Whole(Run(s, d))
  BY RunStaysWhole DEF There
<1>2. CASE d.aborted
  BY <1>1, <1>2, AbortedRun DEF Whole
<1>3. CASE HasTable(d, t)
  <2>1. PICK cs, ks : s[1] = CreateTable(t, cs, ks)
    BY DEF Block, Creates
  <2>2. 1 \in DOMAIN s
    BY DEF Block, Creates
  <2>3. s[1].do = "create table" /\ s[1].table = t
    <3> DEFINE op == CreateTable(t, cs, ks)
    <3>1. op.do = "create table" /\ op.table = t
      BY DEF CreateTable
    <3> HIDE DEF op
    <3>2. s[1] = op
      BY <2>1 DEF op
    <3> QED BY <3>1, <3>2
  <2>4. Accepts(s[1], d) => t \notin Tables(d)
    BY <2>3 DEF Accepts
  <2>5. t \in Tables(d)
    BY <1>3 DEF HasTable, Tables
  <2> QED BY <1>1, <2>2, <2>4, <2>5, AbortedRun DEF Whole
<1> QED BY <1>2, <1>3 DEF There

\* What is refused first is refused.
LEMMA RefusesOn ==
    ASSUME NEW a, NEW b, Statements(a), Statements(b), NEW t, Refuses(a, t), NEW d,
           There(d, t)
    PROVE  Run(a \o b, d).aborted
<1>1. Run(a \o b, d) = Run(b, Run(a, d))
  BY RunConcat
<1>2. DOMAIN Run(a, d) = Parts /\ Run(a, d).aborted
  BY DEF Refuses, Whole
<1> QED BY <1>1, <1>2, AbortedRun
-----------------------------------------------------------------------------
(* What dba980847750 leaves *)

\* Schedules without the index of their names
Unindexed(d) ==
    /\ Whole(d)
    /\ ~d.aborted => /\ Declared("id") \in d.columns
                     /\ \A i \in d.indexes : i.name # "ix_celery_beat_schedules_name"

\* Statements that do not make it
Quiet(op) ==
    \/ \E n : op = DropIndex(n)
    \/ \E n : op = DropConstraint(n)
    \/ \E n : n # "id" /\ op = DropColumn(B, n)
    \/ \E k : op = AddUnique(k)

\* None of them makes the index,
LEMMA QuietKeeps ==
    ASSUME NEW d, Unindexed(d), NEW op, Quiet(op), d.aborted => Apply(d, op).aborted
    PROVE  Unindexed(Apply(d, op))
<1> DEFINE e == Apply(d, op)
           C == d.columns
           I == d.indexes
           K == d.constraints
           id == Declared("id")
<1>1. Fits(d, C, I, K, TRUE)
  BY FitsItself DEF Unindexed
<1>2. id.name = "id"
  BY ColumnIs DEF Declared
<1>3. \A D, J, L : Fits(e, D, J, L, TRUE) /\ J \subseteq I /\ (id \in C => id \in D)
        => Unindexed(e)
  <2> SUFFICES ASSUME NEW D, NEW J, NEW L, Fits(e, D, J, L, TRUE), J \subseteq I, id \in C
                      => id \in D
               PROVE  Unindexed(e)
    OBVIOUS
  <2>1. Whole(e) /\ (~e.aborted => e.columns = D /\ e.indexes = J)
    BY FitsWhole
  <2>2. ~e.aborted => ~d.aborted
    OBVIOUS
  <2> HIDE DEF e
  <2> QED BY <2>1, <2>2 DEF Unindexed, id
<1>4. CASE \E n : op = DropIndex(n)
  <2>1. PICK n : op = DropIndex(n)
    BY <1>4
  <2>2. Fits(e, C, Unnamed(n, I), K, TRUE)
    BY <1>1, <2>1, DropsIndex
  <2>3. Unnamed(n, I) \subseteq I
    BY DEF Unnamed
  <2> HIDE DEF e, C, I, K, id
  <2> QED BY <1>3, <2>2, <2>3 DEF e
<1>5. CASE \E n : op = DropConstraint(n)
  <2>1. PICK n : op = DropConstraint(n)
    BY <1>5
  <2>2. Fits(e, C, I, Unnamed(n, K), TRUE)
    BY <1>1, <2>1, DropsConstraint
  <2> HIDE DEF e, C, I, K, id
  <2> QED BY <1>3, <2>2 DEF e
<1>6. CASE \E n : n # "id" /\ op = DropColumn(B, n)
  <2>1. PICK n : n # "id" /\ op = DropColumn(B, n)
    BY <1>6
  <2>2. Fits(e, LessColumn(C, B, n), LessIndexes(I, B, n), K, TRUE)
    BY <1>1, <2>1, DropsColumn
  <2>3. LessIndexes(I, B, n) \subseteq I
    BY DEF LessIndexes
  <2>4. id \in C => id \in LessColumn(C, B, n)
    BY <1>2, <2>1 DEF LessColumn
  <2> HIDE DEF e, C, I, K, id
  <2> QED BY <1>3, <2>2, <2>3, <2>4 DEF e
<1>7. CASE \E k : op = AddUnique(k)
  <2>1. PICK k : op = AddUnique(k)
    BY <1>7
  <2>2. Fits(e, C, I, K \cup {k}, TRUE)
    BY <1>1, <2>1, AddsUnique
  <2> HIDE DEF e, C, I, K, id
  <2> QED BY <1>3, <2>2 DEF e
<1> QED BY <1>4, <1>5, <1>6, <1>7 DEF Quiet

\* and no run of them does.
LEMMA QuietRun ==
    ASSUME NEW r, NEW ops, NEW n \in Nat, NEW d, Trace(r, ops, n, d), Unindexed(d),
           \A k \in 1..n : Quiet(ops[k])
    PROVE  \A k \in 0..n : Unindexed(r[k])
<1> DEFINE Ok(k) == Unindexed(r[k])
           Good == {k \in Nat : k \in 0..n => Ok(k)}
<1>1. 0 \in Good
  BY DEF Trace
<1>2. ASSUME NEW k \in Nat, k \in Good PROVE k + 1 \in Good
  <2> SUFFICES ASSUME k + 1 \in 0..n PROVE Ok(k + 1)
    OBVIOUS
  <2>1. k \in 0..n /\ k \in 0..(n - 1) /\ k + 1 \in 1..n
    OBVIOUS
  <2>2. Unindexed(r[k])
    BY <1>2, <2>1
  <2>3. r[k + 1] = Apply(r[k], ops[k + 1])
    BY <2>1 DEF Trace
  <2>4. r[k].aborted => Apply(r[k], ops[k + 1]).aborted
    BY <2>2, Refused DEF Unindexed, Whole
  <2> QED BY <2>1, <2>2, <2>3, <2>4, QuietKeeps
<1>3. Nat \subseteq Good
  <2> HIDE DEF Good
  <2> QED BY <1>1, <1>2, SetInduction
<1>4. \A k \in 0..n : k \in Good
  BY <1>3
<1> QED BY <1>4 DEF Good

\* Version 3 as downgrade() of dba980847750 leaves it
Sticky(d) == Unindexed(d) /\ (~d.aborted => UniqueName \in Names(d.constraints))

\* The downgrade of dba980847750 consists of such statements.
LEMMA DownFlexibleIs ==
    /\ DOMAIN DownFlexible = 1..9
    /\ \A k \in 1..9 : Quiet(DownFlexible[k])
    /\ DownFlexible[9] = AddUnique(Key(UniqueName, B))
<1> DEFINE s == DownFlexible
<1>1. DOMAIN s = 1..9
  BY DEF DownFlexible
<1>2. /\ s[1] = DropIndex("idx_celery_beat_schedules_tags")
      /\ s[2] = DropIndex("idx_celery_beat_schedules_category")
      /\ s[3] = DropConstraint("ck_celery_beat_schedules_execution_policy")
      /\ s[4] = DropColumn(B, "auto_generated_name")
      /\ s[5] = DropColumn(B, "execution_policy")
      /\ s[6] = DropColumn(B, "tags")
      /\ s[7] = DropColumn(B, "category")
      /\ s[8] = DropIndex("idx_celery_beat_schedules_name")
      /\ s[9] = AddUnique(Key(UniqueName, B))
  BY DEF DownFlexible, B
<1> HIDE DEF s
<1>3. Quiet(s[1]) /\ Quiet(s[2]) /\ Quiet(s[8])
  BY <1>2 DEF Quiet
<1>4. Quiet(s[3])
  BY <1>2 DEF Quiet
<1>5. Quiet(s[4]) /\ Quiet(s[5]) /\ Quiet(s[6]) /\ Quiet(s[7])
  BY <1>2 DEF Quiet
<1>6. Quiet(s[9])
  BY <1>2 DEF Quiet
<1>7. \A k \in 1..9 : k = 1 \/ k = 2 \/ k = 3 \/ k = 4 \/ k = 5 \/ k = 6 \/ k = 7 \/ k
        = 8 \/ k = 9
  OBVIOUS
<1> QED BY <1>1, <1>2, <1>3, <1>4, <1>5, <1>6, <1>7 DEF s

\* At version 4 the index is not there.
LEMMA FourthUnindexed ==
    ASSUME NEW d, Holds(d, At(4), TRUE)
    PROVE  Unindexed(d)
<1> DEFINE I == {EnabledIndex} \cup {FlexibleIndex("name"), FlexibleIndex("category"),
           FlexibleIndex("tags")}
<1>1. At(4).c = Core.c \cup FlexibleC /\ At(4).i = Core.i \cup I
  BY AtIs, BeatsAre, BeatPartIs DEF Beat
<1>2. \A i \in Core.i : i.name # "ix_celery_beat_schedules_name"
  BY WithoutBeat DEF BeatFree, BeatNames
<1>3. \A i \in I : i.name # "ix_celery_beat_schedules_name"
  BY FlexibleIndexIs, IndexNames
<1>4. Declared("id") \in FlexibleC
  BY ColumnIn DEF Declared, FlexibleC, FirstColumns
<1>5. Whole(d) /\ (~d.aborted => d.columns = At(4).c /\ d.indexes = At(4).i)
  BY FitsWhole DEF Holds
<1> HIDE DEF I
<1> QED BY <1>1, <1>2, <1>3, <1>4, <1>5 DEF Unindexed

\* Down from dba980847750 names are unique by the constraint: its upgrade never
\* had that one, and the index is not restored.
LEMMA DownTo3 ==
    ASSUME NEW d, Holds(d, At(4), TRUE)
    PROVE  Sticky(Run(DownFlexible, d))
<1> DEFINE ops == DownFlexible
           new == Key(UniqueName, B)
<1>1. PICK r : Trace(r, ops, 9, d) /\ r[9] = Run(ops, d)
  BY DownFlexibleIs, RunIsTrace
<1>2. \A k \in 0..9 : Unindexed(r[k])
  BY <1>1, DownFlexibleIs, FourthUnindexed, QuietRun
<1>3. 8 \in 0..9 /\ 9 \in 0..9 /\ 8 \in 0..(9 - 1) /\ 8 + 1 = 9
  OBVIOUS
<1>4. r[9] = Apply(r[8], AddUnique(new))
  BY <1>1, <1>3, DownFlexibleIs DEF Trace
<1> HIDE DEF ops
<1>5. Fits(r[8], r[8].columns, r[8].indexes, r[8].constraints, TRUE)
  BY <1>2, <1>3, FitsItself DEF Unindexed
<1>6. Fits(r[9], r[8].columns, r[8].indexes, r[8].constraints \cup {new}, TRUE)
  <2> DEFINE q == r[8]
  <2>1. Fits(q, q.columns, q.indexes, q.constraints, TRUE)
    BY <1>5
  <2> HIDE DEF new, q
  <2>2. Fits(Apply(q, AddUnique(new)), q.columns, q.indexes, q.constraints \cup {new}, TRUE)
    BY <2>1, AddsUnique
  <2> QED BY <1>4, <2>2 DEF q
<1>7. ~r[9].aborted => new \in r[9].constraints
  <2> HIDE DEF new
  <2> QED BY <1>6 DEF Fits
<1>8. new.name = UniqueName
  BY KeyIs
<1> HIDE DEF new
<1>9. ~r[9].aborted => UniqueName \in Names(r[9].constraints)
  BY <1>7, <1>8 DEF Names
<1> QED BY <1>1, <1>2, <1>3, <1>9 DEF Sticky, ops

\* What is not there cannot be dropped.
LEMMA NoNameIndex ==
    ASSUME NEW d, Unindexed(d)
    PROVE  d.aborted \/ ~Accepts(DropIndex("ix_celery_beat_schedules_name"), d)
<1> DEFINE op == DropIndex("ix_celery_beat_schedules_name")
<1>1. op.do = "drop index" /\ op.name = "ix_celery_beat_schedules_name"
  BY DEF DropIndex
<1> HIDE DEF op
<1>2. Accepts(op, d) <=> op.name \in Names(d.indexes)
  BY <1>1, Zenon DEF Accepts
<1> QED BY <1>1, <1>2 DEF Unindexed, Names, op

\* From there no revision leads on ...
LEMMA StuckUp ==
    ASSUME NEW d, Unindexed(d)
    PROVE  Run(UpFlexible, d).aborted
<1> DEFINE ops == UpFlexible
<1>1. DOMAIN ops = 1..10 /\ ops[1] = DropConstraintIfThere(UniqueName)
        /\ ops[2] = DropIndex("ix_celery_beat_schedules_name")
  BY DEF UpFlexible
<1>2. Statements(ops)
  <2>1. 4 \in 1..12 /\ Up[4] = UpFlexible
    BY DEF Up
  <2> QED BY <2>1, ScriptsAreStatements
<1> HIDE DEF ops
<1>3. PICK r : Trace(r, ops, 10, d) /\ r[10] = Run(ops, d)
  BY <1>1, RunIsTrace
<1>4. 0 \in 0..(10 - 1) /\ 1 \in 0..(10 - 1) /\ 0 + 1 = 1 /\ 1 + 1 = 2 /\ 2 \in 0..10
  OBVIOUS
<1>5. r[1] = Apply(d, DropConstraintIfThere(UniqueName))
        /\ r[2] = Apply(r[1], DropIndex("ix_celery_beat_schedules_name"))
  BY <1>1, <1>3, <1>4 DEF Trace
<1>6. Whole(d)
  BY DEF Unindexed
<1>7. Fits(r[1], d.columns, d.indexes, Unnamed(UniqueName, d.constraints), TRUE)
  BY <1>5, <1>6, FitsItself, DropsConstraintIfThere
<1>8. Whole(r[1]) /\ (~r[1].aborted => r[1].columns = d.columns /\ r[1].indexes = d.indexes)
  BY <1>7, FitsWhole
<1>9. d.aborted => r[1].aborted
  BY <1>5, <1>6, Refused DEF Whole
<1>10. Unindexed(r[1])
  BY <1>8, <1>9 DEF Unindexed
<1>11. r[2].aborted
  BY <1>5, <1>8, <1>10, NoNameIndex, Refused DEF Whole
<1>12. DOMAIN d = Parts
  BY <1>6 DEF Whole
<1>13. r[10].aborted
  BY <1>1, <1>2, <1>3, <1>4, <1>11, <1>12, AbortedInTrace
<1> QED BY <1>3, <1>13 DEF ops

\* ... and none leads back.
LEMMA StuckDown ==
    ASSUME NEW d, Unindexed(d)
    PROVE  Run(DownBeatTables, d).aborted
<1> DEFINE e == Run(DropTaskLogs, d)
<1>1. Run(DownBeatTables, d) = Run(DropBeatSchedules, e)
  BY PiecesAreStatements, RunConcat DEF DownBeatTables
<1>2. Whole(d) /\ Whole(e)
  BY DropTaskLogsDrops, RunStaysWhole DEF Unindexed
<1>3. d.aborted => e.aborted
  BY <1>2, PiecesAreStatements, AbortedRun DEF Whole
<1>4. Unindexed(e)
  <2>1. ~e.aborted => /\ \A c \in d.columns : c.table # "task_execution_logs"
                         => c \in e.columns
                      /\ e.indexes \subseteq d.indexes
    BY <1>2, DropTaskLogsDrops, DropLeaves
  <2>2. Declared("id").table # "task_execution_logs"
    BY ColumnIs DEF Declared, B
  <2> HIDE DEF e
  <2> QED BY <1>2, <1>3, <2>1, <2>2 DEF Unindexed
<1>5. 1 \in DOMAIN DropBeatSchedules
        /\ DropBeatSchedules[1] = DropIndex("ix_celery_beat_schedules_name")
  BY DEF DropBeatSchedules
<1> HIDE DEF e
<1>6. e.aborted \/ ~Accepts(DropBeatSchedules[1], e)
  BY <1>4, <1>5, NoNameIndex
<1> QED BY <1>1, <1>2, <1>5, <1>6, PiecesAreStatements, AbortedRun DEF Whole
-----------------------------------------------------------------------------
(* Revision by revision *)

\* The revisions by their numbers
LEMMA RevisionsAre ==
    /\ Up[1] = UpInitial /\ Up[2] = UpRemoveUnused /\ Up[3] = UpBeatTables
         /\ Up[4] = UpFlexible
    /\ Up[5] = UpTradesSpec /\ Up[6] = UpBigInteger /\ Up[7] = UpWeeklyMargin
    /\ Up[8] = UpAnnouncements /\ Up[9] = UpCodeLength /\ Up[10] = UpRemoveThree
    /\ Up[11] = UpRename /\ Up[12] = UpLastRunAt
    /\ Down[1] = DownInitial /\ Down[2] = DownRemoveUnused /\ Down[3] = DownBeatTables
    /\ Down[4] = DownFlexible /\ Down[5] = DownTradesSpec /\ Down[6] = DownBigInteger
    /\ Down[7] = DownWeeklyMargin /\ Down[8] = DownAnnouncements /\ Down[9] = DownCodeLength
    /\ Down[10] = DownRemoveThree /\ Down[11] = DownRename /\ Down[12] = DownLastRunAt
BY DEF Up, Down

\* Where names may be shared, version by version
LEMMA SharedAt ==
    /\ Shared(0) = FALSE /\ Shared(1) = FALSE /\ Shared(2) = FALSE /\ Shared(3) = TRUE
    /\ Shared(4) = TRUE /\ Shared(5) = TRUE /\ Shared(6) = TRUE /\ Shared(7) = TRUE
    /\ Shared(8) = TRUE /\ Shared(9) = TRUE /\ Shared(10) = TRUE /\ Shared(11) = TRUE
    /\ Shared(12) = TRUE
BY SharedIs

\* No upgrade from a version that fits fails, and it leaves the next version,
LEMMA UpTakes == \A v \in 1..11 : Takes(Up[v + 1], At(v), Shared(v), At(v + 1),
  Shared(v + 1))
<1>1. /\ 1 + 1 = 2 /\ 2 + 1 = 3 /\ 3 + 1 = 4 /\ 4 + 1 = 5 /\ 5 + 1 = 6 /\ 6 + 1 = 7
      /\ 7 + 1 = 8 /\ 8 + 1 = 9 /\ 9 + 1 = 10 /\ 10 + 1 = 11 /\ 11 + 1 = 12
  OBVIOUS
<1>2. /\ Takes(Up[2], At(1), Shared(1), At(2), Shared(2))
      /\ Takes(Up[3], At(2), Shared(2), At(3), Shared(3))
  BY RevisionsAre, SharedAt, Zenon, UpTo2, UpTo3
<1>3. /\ Takes(Up[4], At(3), Shared(3), At(4), Shared(4))
      /\ Takes(Up[5], At(4), Shared(4), At(5), Shared(5))
      /\ Takes(Up[6], At(5), Shared(5), At(6), Shared(6))
  BY RevisionsAre, SharedAt, Zenon, UpTo4, UpTo5, UpTo6
<1>4. /\ Takes(Up[7], At(6), Shared(6), At(7), Shared(7))
      /\ Takes(Up[8], At(7), Shared(7), At(8), Shared(8))
      /\ Takes(Up[9], At(8), Shared(8), At(9), Shared(9))
  BY RevisionsAre, SharedAt, Zenon, UpTo7, UpTo8, UpTo9
<1>5. /\ Takes(Up[10], At(9), Shared(9), At(10), Shared(10))
      /\ Takes(Up[11], At(10), Shared(10), At(11), Shared(11))
      /\ Takes(Up[12], At(11), Shared(11), At(12), Shared(12))
  BY RevisionsAre, SharedAt, Zenon, UpTo10, UpTo11, UpTo12
<1>6. \A v \in 1..11 : \/ v = 1 \/ v = 2 \/ v = 3 \/ v = 4 \/ v = 5 \/ v = 6
                       \/ v = 7 \/ v = 8 \/ v = 9 \/ v = 10 \/ v = 11
  OBVIOUS
<1> QED BY <1>1, <1>2, <1>3, <1>4, <1>5, <1>6

\* and a downgrade leaves the one before or fails, but for that of dba980847750.
LEMMA DownLeads ==
    \A v \in 1..12 : v # 4 => Leads(Down[v], At(v), Shared(v), At(v - 1), Shared(v - 1))
<1>1. /\ 1 - 1 = 0 /\ 2 - 1 = 1 /\ 3 - 1 = 2 /\ 5 - 1 = 4 /\ 6 - 1 = 5 /\ 7 - 1 = 6
      /\ 8 - 1 = 7 /\ 9 - 1 = 8 /\ 10 - 1 = 9 /\ 11 - 1 = 10 /\ 12 - 1 = 11
  OBVIOUS
<1>2. /\ Leads(Down[1], At(1), Shared(1), At(0), Shared(0))
      /\ Leads(Down[2], At(2), Shared(2), At(1), Shared(1))
      /\ Leads(Down[3], At(3), Shared(3), At(2), Shared(2))
  BY RevisionsAre, SharedAt, Zenon, DownTo0, DownTo1, DownTo2
<1>3. /\ Leads(Down[5], At(5), Shared(5), At(4), Shared(4))
      /\ Leads(Down[6], At(6), Shared(6), At(5), Shared(5))
      /\ Leads(Down[7], At(7), Shared(7), At(6), Shared(6))
  BY RevisionsAre, SharedAt, Zenon, DownTo4, DownTo5, DownTo6
<1>4. /\ Leads(Down[8], At(8), Shared(8), At(7), Shared(7))
      /\ Leads(Down[9], At(9), Shared(9), At(8), Shared(8))
      /\ Leads(Down[10], At(10), Shared(10), At(9), Shared(9))
  BY RevisionsAre, SharedAt, Zenon, DownTo7, DownTo8, DownTo9
<1>5. /\ Leads(Down[11], At(11), Shared(11), At(10), Shared(10))
      /\ Leads(Down[12], At(12), Shared(12), At(11), Shared(11))
  BY RevisionsAre, SharedAt, Zenon, DownTo10, DownTo11
<1>6. \A v \in 1..12 : v # 4 => \/ v = 1 \/ v = 2 \/ v = 3 \/ v = 5 \/ v = 6
                       \/ v = 7 \/ v = 8 \/ v = 9 \/ v = 10 \/ v = 11 \/ v = 12
  OBVIOUS
<1> QED BY <1>1, <1>2, <1>3, <1>4, <1>5, <1>6

-----------------------------------------------------------------------------
(* An emptied version table *)

\* The first two revisions do not touch celery_beat_schedules, upwards or downwards,
LEMMA BeatStays ==
    /\ Keeps(UpInitial, B) /\ Keeps(UpRemoveUnused, B)
    /\ Keeps(DownInitial, B) /\ Keeps(DownRemoveUnused, B)
<1> DEFINE last == <<DropTableIfExists("data_sources")>>
<1>1. /\ Keeps(CreateListedInfo, B) /\ Keeps(CreatePrices, B) /\ Keeps(CreateStocks, B)
  BY PiecesAreStatements, ListedInfoBlock, PriceBlock, StockBlock, CreateKeeps
<1>2. B # "listed_info" /\ B # "prices" /\ B # "stocks"
  BY DEF B
<1>3. /\ Keeps(DropListedInfo, B) /\ Keeps(DropPrices, B) /\ Keeps(DropStocks, B)
  BY <1>2, PiecesAreStatements, DropListedInfoDrops, DropPricesDrops, DropStocksDrops,
     DropKeeps
<1>4. Keeps(last, B)
  <2> SUFFICES ASSUME NEW d, There(d, B) PROVE There(Run(last, d), B)
    BY DEF Keeps
  <2> DEFINE e == Apply(d, DropTableIfExists("data_sources"))
  <2>1. Run(last, d) = e
    BY OneStatement
  <2>2. Fits(e, NotOf("data_sources", d.columns), NotOf("data_sources", d.indexes),
             NotOf("data_sources", d.constraints), SameLeft(TRUE, "data_sources"))
    BY FitsItself, DropsTableIfExists DEF There
  <2>3. d.aborted => e.aborted
    BY Refused DEF There, Whole
  <2> HIDE DEF e
  <2>4. Whole(e) /\ (~e.aborted => e.columns = NotOf("data_sources", d.columns))
    BY <2>2, FitsWhole
  <2>5. HasTable(d, B) /\ ~e.aborted => HasTable(e, B)
    BY <2>4 DEF HasTable, NotOf, B
  <2> QED BY <2>1, <2>3, <2>4, <2>5 DEF There
<1>5. Statements(last)
  BY StatementKinds, Tuple1
<1> HIDE DEF last
<1>6. /\ Statements(CreateListedInfo \o CreatePrices)
      /\ Statements((CreateListedInfo \o CreatePrices) \o CreateStocks)
      /\ Statements(DropStocks \o DropPrices)
  BY PiecesAreStatements, StatementsTogether
<1>7. Keeps(CreateListedInfo \o CreatePrices, B)
  BY <1>1, PiecesAreStatements, KeepsOn
<1>8. Keeps((CreateListedInfo \o CreatePrices) \o CreateStocks, B)
  BY <1>1, <1>6, <1>7, PiecesAreStatements, KeepsOn
<1>9. Keeps(((CreateListedInfo \o CreatePrices) \o CreateStocks) \o last, B)
  BY <1>4, <1>5, <1>6, <1>8, KeepsOn
<1>10. Keeps(UpRemoveUnused, B)
  BY <1>3, PiecesAreStatements, KeepsOn DEF UpRemoveUnused
<1>11. Keeps(DownRemoveUnused, B)
  BY <1>1, PiecesAreStatements, KeepsOn DEF DownRemoveUnused
<1>12. Keeps(DropStocks \o DropPrices, B)
  BY <1>3, PiecesAreStatements, KeepsOn
<1>13. Keeps((DropStocks \o DropPrices) \o DropListedInfo, B)
  BY <1>3, <1>6, <1>12, PiecesAreStatements, KeepsOn
<1> QED BY <1>9, <1>10, <1>11, <1>13 DEF UpInitial, DownInitial, last

\* the first one is refused where listed_info is there,
LEMMA InitialRefused ==
    ASSUME NEW d, There(d, "listed_info")
    PROVE  Run(UpInitial, d).aborted
<1> DEFINE a == CreateListedInfo
           b == CreatePrices
           c == CreateStocks
           last == <<DropTableIfExists("data_sources")>>
<1>1. Refuses(a, "listed_info")
  BY PiecesAreStatements, ListedInfoBlock, CreateRefuses
<1>2. Statements(a) /\ Statements(b) /\ Statements(c) /\ Statements(last)
  BY PiecesAreStatements, StatementKinds, Tuple1
<1> HIDE DEF a, b, c, last
<1>3. /\ Run(((a \o b) \o c) \o last, d) = Run(last, Run((a \o b) \o c, d))
      /\ Run((a \o b) \o c, d) = Run(c, Run(a \o b, d))
  BY <1>2, StatementsTogether, RunConcat
<1>4. DOMAIN d = Parts
  BY DEF There, Whole
<1>5. Run(a \o b, d).aborted
  BY <1>1, <1>2, RefusesOn
<1>6. Statements(a \o b) /\ Statements((a \o b) \o c)
  BY <1>2, StatementsTogether
<1>7. DOMAIN Run(a \o b, d) = Parts /\ DOMAIN Run((a \o b) \o c, d) = Parts
  BY <1>4, <1>6, RunKeepsParts
<1>8. Run((a \o b) \o c, d).aborted
  BY <1>2, <1>3, <1>5, <1>7, AbortedRun
<1>9. Run(((a \o b) \o c) \o last, d).aborted
  BY <1>2, <1>3, <1>7, <1>8, AbortedRun
<1> QED BY <1>9 DEF UpInitial, a, b, c, last

\* and the third one where celery_beat_schedules is.
LEMMA BeatTablesRefused ==
    ASSUME NEW d, There(d, B)
    PROVE  Run(UpBeatTables, d).aborted
<1>1. Refuses(CreateBeatSchedules, B)
  BY PiecesAreStatements, BeatBlock, CreateRefuses DEF B
<1> QED BY <1>1, PiecesAreStatements, RefusesOn DEF UpBeatTables

\* A run of lists of statements is a run of one list after the other.
LEMMA RunsInTurn ==
    ASSUME NEW seqs, NEW n \in Nat, Len(seqs) = n, DOMAIN seqs = 1..n, n = 0 => seqs = <<>>,
           \A k \in 1..n : Statements(seqs[k]), NEW d
    PROVE  \E q : /\ q[0] = d
                  /\ \A k \in 1..n : q[k] = Run(seqs[k], q[k - 1])
                  /\ q[n] = Run(FlattenSeq(seqs), d)
<1> DEFINE q == [k \in 0..n |-> IF k = 0 THEN d ELSE Run(Flat(seqs)[k], d)]
<1>1. \A k \in 1..n :
         Flat(seqs)[k] = IF k = 1 THEN seqs[k] ELSE Flat(seqs)[k - 1] \o seqs[k]
  BY FlatStatements
<1>2. \A k \in 1..n : Statements(Flat(seqs)[k])
  BY FlatStatements
<1>3. q[0] = d
  OBVIOUS
<1>4. ASSUME NEW k \in 1..n PROVE q[k] = Run(seqs[k], q[k - 1])
  <2>1. k \in 0..n /\ k - 1 \in 0..n /\ k # 0
    OBVIOUS
  <2>2. q[k] = Run(Flat(seqs)[k], d)
    BY <2>1
  <2>3. CASE k = 1
    <3>1. Flat(seqs)[k] = seqs[k] /\ k - 1 = 0
      BY <1>1, <2>3
    <3> HIDE DEF q
    <3> QED BY <1>3, <2>2, <3>1
  <2>4. CASE k # 1
    <3>1. k - 1 \in 1..n /\ k - 1 # 0
      BY <2>4
    <3>2. Flat(seqs)[k] = Flat(seqs)[k - 1] \o seqs[k]
      BY <1>1, <2>4
    <3>3. q[k - 1] = Run(Flat(seqs)[k - 1], d)
      BY <2>1, <3>1
    <3>4. Run(Flat(seqs)[k - 1] \o seqs[k], d) = Run(seqs[k], Run(Flat(seqs)[k - 1], d))
      BY <1>2, <3>1, RunConcat
    <3> HIDE DEF q
    <3> QED BY <2>2, <3>2, <3>3, <3>4
  <2> QED BY <2>3, <2>4
<1>5. q[n] = Run(FlattenSeq(seqs), d)
  <2>1. CASE n = 0
    <3>1. FlattenSeq(seqs) = <<>>
      BY <2>1 DEF FlattenSeq
    <3> HIDE DEF q
    <3> QED BY <1>3, <2>1, <3>1, NothingToRun
  <2>2. CASE n # 0
    <3>1. FlattenSeq(seqs) = Flat(seqs)[n]
      BY <2>2 DEF FlattenSeq, Flat
    <3> QED BY <2>2, <3>1
  <2> QED BY <2>1, <2>2
<1> HIDE DEF q
<1> QED BY <1>3, <1>4, <1>5

\* A migration, revision by revision
LEMMA WayRuns ==
    ASSUME NEW from \in Versions, NEW to \in Versions, NEW d
    PROVE  \E q : /\ q[0] = d
                  /\ \A k \in 1..Way(from, to) : q[k] = Run(OnWay(from, to, k), q[k - 1])
                  /\ q[Way(from, to)] = Migrated(d, from, to)
<1> DEFINE n == Way(from, to)
<1>1. PICK seqs : /\ n \in Nat
                  /\ Len(seqs) = n
                  /\ DOMAIN seqs = 1..n
                  /\ n = 0 => seqs = <<>>
                  /\ \A k \in 1..n : seqs[k] = OnWay(from, to, k) /\ Statements(seqs[k])
                  /\ Scripts(from, to) = FlattenSeq(seqs)
  BY ScriptsAre
<1> HIDE DEF n
<1>2. PICK q : /\ q[0] = d
               /\ \A k \in 1..n : q[k] = Run(seqs[k], q[k - 1])
               /\ q[n] = Run(FlattenSeq(seqs), d)
  BY <1>1, RunsInTurn
<1>3. \A k \in 1..n : q[k] = Run(OnWay(from, to, k), q[k - 1])
  BY <1>1, <1>2
<1>4. q[n] = Migrated(d, from, to)
  BY <1>1, <1>2 DEF Migrated
<1> QED BY <1>2, <1>3, <1>4 DEF n
-----------------------------------------------------------------------------
(* The invariant *)

\* What is known of the database of a version.  An emptied version table stands
\* for any database whose tables are those of the newest revisions.
Known(d, v, emptied) ==
    /\ DOMAIN d = Parts
    /\ \/ d.aborted
       \/ emptied /\ v \in 0..2 /\ There(d, B)
       \/ emptied /\ v = 0 /\ There(d, "listed_info")
       \/ ~emptied /\ v = 0 /\ \E X : Legacy(X) /\ Holds(d, X, FALSE)
       \/ ~emptied /\ v \in 1..12 /\ Holds(d, At(v), Shared(v))
       \/ ~emptied /\ v = 3 /\ Sticky(d)

\* All of these have the parts of a database.
LEMMA PartsOf ==
    /\ \A d, X, same : Holds(d, X, same) => DOMAIN d = Parts
    /\ \A d, t : There(d, t) => DOMAIN d = Parts
    /\ \A d : Sticky(d) => DOMAIN d = Parts
<1>1. \A d, X, same : Holds(d, X, same) => DOMAIN d = Parts
  BY DEF Holds, Fits
<1>2. \A d, t : There(d, t) => DOMAIN d = Parts
  BY DEF There, Whole
<1>3. \A d : Sticky(d) => DOMAIN d = Parts
  BY DEF Sticky, Unindexed, Whole
<1> QED BY <1>1, <1>2, <1>3

\* upgrade() of the next revision
LEMMA KnownUp ==
    ASSUME NEW d, NEW v \in 0..11, NEW emptied, Known(d, v, emptied)
    PROVE  Known(Run(Up[v + 1], d), v + 1, emptied)
<1> DEFINE e == Run(Up[v + 1], d)
<1>1. v + 1 \in 1..12
  OBVIOUS
<1>2. Statements(Up[v + 1])
  BY <1>1, ScriptsAreStatements
<1>3. DOMAIN d = Parts
  BY DEF Known
<1>4. DOMAIN e = Parts
  BY <1>2, <1>3, RunKeepsParts
<1> HIDE DEF e
<1>5. CASE d.aborted
  <2>1. e.aborted
    BY <1>2, <1>3, <1>5, AbortedRun DEF e
  <2> QED BY <1>4, <2>1 DEF Known, e
<1>6. CASE emptied /\ v \in 0..2 /\ There(d, B)
  <2>1. CASE v = 0
    <3>1. Up[v + 1] = UpInitial /\ v + 1 = 1
      BY <2>1, RevisionsAre
    <3>2. There(e, B)
      BY <1>6, <3>1, BeatStays DEF Keeps, e
    <3>3. v + 1 \in 0..2
      BY <3>1
    <3> QED BY <1>4, <1>6, <3>2, <3>3 DEF Known, e
  <2>2. CASE v = 1
    <3>1. Up[v + 1] = UpRemoveUnused /\ v + 1 = 2
      BY <2>2, RevisionsAre
    <3>2. There(e, B)
      BY <1>6, <3>1, BeatStays DEF Keeps, e
    <3>3. v + 1 \in 0..2
      BY <3>1
    <3> QED BY <1>4, <1>6, <3>2, <3>3 DEF Known, e
  <2>3. CASE v = 2
    <3>1. Up[v + 1] = UpBeatTables
      BY <2>3, RevisionsAre
    <3>2. e.aborted
      BY <1>6, <3>1, BeatTablesRefused DEF e
    <3> QED BY <1>4, <3>2 DEF Known, e
  <2>4. v = 0 \/ v = 1 \/ v = 2
    BY <1>6
  <2> QED BY <2>1, <2>2, <2>3, <2>4
<1>7. CASE emptied /\ v = 0 /\ There(d, "listed_info")
  <2>1. Up[v + 1] = UpInitial
    BY <1>7, RevisionsAre
  <2>2. e.aborted
    BY <1>7, <2>1, InitialRefused DEF e
  <2> QED BY <1>4, <2>2 DEF Known, e
<1>8. CASE ~emptied /\ v = 0 /\ \E X : Legacy(X) /\ Holds(d, X, FALSE)
  <2>1. Up[v + 1] = UpInitial /\ v + 1 = 1
    BY <1>8, RevisionsAre
  <2>2. Holds(Run(UpInitial, d), At(1), FALSE)
    BY <1>8, UpTo1 DEF Takes
  <2>3. Holds(Run(UpInitial, d), At(1), Shared(1))
    BY <2>2, SharedAt, Zenon
  <2>4. Holds(e, At(v + 1), Shared(v + 1))
    BY <2>1, <2>3, Zenon DEF e
  <2> QED BY <1>1, <1>4, <1>8, <2>4 DEF Known, e
<1>9. CASE ~emptied /\ v \in 1..12 /\ Holds(d, At(v), Shared(v))
  <2>1. v \in 1..11
    BY <1>9
  <2>2. Takes(Up[v + 1], At(v), Shared(v), At(v + 1), Shared(v + 1))
    BY <2>1, UpTakes
  <2>3. Holds(e, At(v + 1), Shared(v + 1))
    BY <1>9, <2>2 DEF Takes, e
  <2> QED BY <1>1, <1>4, <1>9, <2>3 DEF Known, e
<1>10. CASE ~emptied /\ v = 3 /\ Sticky(d)
  <2>1. Up[v + 1] = UpFlexible
    BY <1>10, RevisionsAre
  <2>2. e.aborted
    BY <1>10, <2>1, StuckUp DEF Sticky, e
  <2> QED BY <1>4, <2>2 DEF Known, e
<1> QED BY <1>5, <1>6, <1>7, <1>8, <1>9, <1>10 DEF Known

\* downgrade() of the last one
LEMMA KnownDown ==
    ASSUME NEW d, NEW v \in 1..12, NEW emptied, Known(d, v, emptied)
    PROVE  Known(Run(Down[v], d), v - 1, emptied)
<1> DEFINE e == Run(Down[v], d)
<1>1. v - 1 \in 0..11
  OBVIOUS
<1>2. Statements(Down[v])
  BY ScriptsAreStatements
<1>3. DOMAIN d = Parts
  BY DEF Known
<1>4. DOMAIN e = Parts
  BY <1>2, <1>3, RunKeepsParts
<1> HIDE DEF e
<1>5. CASE d.aborted
  <2>1. e.aborted
    BY <1>2, <1>3, <1>5, AbortedRun DEF e
  <2> QED BY <1>4, <2>1 DEF Known, e
<1>6. CASE emptied /\ v \in 0..2 /\ There(d, B)
  <2>1. Down[v] = DownInitial \/ Down[v] = DownRemoveUnused
    BY <1>6, RevisionsAre
  <2>2. There(e, B)
    BY <1>6, <2>1, BeatStays DEF Keeps, e
  <2>3. v - 1 \in 0..2
    BY <1>6
  <2> QED BY <1>4, <1>6, <2>2, <2>3 DEF Known, e
<1>7. CASE ~emptied /\ v \in 1..12 /\ v # 4 /\ Holds(d, At(v), Shared(v))
  <2>1. Leads(Down[v], At(v), Shared(v), At(v - 1), Shared(v - 1))
    BY <1>7, DownLeads
  <2>2. Holds(e, At(v - 1), Shared(v - 1))
    BY <1>7, <2>1 DEF Leads, e
  <2>3. CASE v = 1
    <3>1. v - 1 = 0
      BY <2>3
    <3>2. Holds(e, At(0), Shared(0))
      BY <2>2, <3>1, Zenon
    <3>3. Holds(e, Nothing, FALSE)
      BY <3>2, AtIs, SharedAt, Zenon
    <3>4. Legacy(Nothing)
      BY DEF Legacy, Nothing
    <3> QED BY <1>4, <1>7, <3>1, <3>3, <3>4 DEF Known, e
  <2>4. CASE v # 1
    <3>1. v - 1 \in 1..12
      BY <2>4
    <3> QED BY <1>4, <1>7, <2>2, <3>1 DEF Known, e
  <2> QED BY <2>3, <2>4
<1>8. CASE ~emptied /\ v = 4 /\ Holds(d, At(v), Shared(v))
  <2>1. Down[v] = DownFlexible /\ v - 1 = 3
    BY <1>8, RevisionsAre
  <2>2. Holds(d, At(4), TRUE)
    BY <1>8, SharedAt, Zenon
  <2>3. Sticky(e)
    BY <2>1, <2>2, DownTo3 DEF e
  <2> QED BY <1>4, <1>8, <2>1, <2>3 DEF Known, e
<1>9. CASE ~emptied /\ v = 3 /\ Sticky(d)
  <2>1. Down[v] = DownBeatTables
    BY <1>9, RevisionsAre
  <2>2. e.aborted
    BY <1>9, <2>1, StuckDown DEF Sticky, e
  <2> QED BY <1>4, <2>2 DEF Known, e
<1>10. v # 0
  OBVIOUS
<1> QED BY <1>5, <1>6, <1>7, <1>8, <1>9, <1>10 DEF Known

\* Any migration
LEMMA KnownAfter ==
    ASSUME NEW from \in Versions, NEW to \in Versions, NEW d, NEW emptied,
           Known(d, from, emptied)
    PROVE  Known(Migrated(d, from, to), to, emptied)
<1> DEFINE n == Way(from, to)
           at(k) == IF from <= to THEN from + k ELSE from - k
<1>1. from \in 0..12 /\ to \in 0..12
  BY TwelveRevisions DEF Versions
<1>2. n \in Nat /\ at(0) = from /\ at(n) = to
  BY <1>1 DEF Way
<1>3. PICK q : /\ q[0] = d
               /\ \A k \in 1..n : q[k] = Run(OnWay(from, to, k), q[k - 1])
               /\ q[n] = Migrated(d, from, to)
  BY WayRuns
<1> DEFINE Good == {k \in Nat : k \in 0..n => Known(q[k], at(k), emptied)}
<1>4. 0 \in Good
  BY <1>2, <1>3
<1>5. ASSUME NEW k \in Nat, k \in Good PROVE k + 1 \in Good
  <2> SUFFICES ASSUME k + 1 \in 0..n PROVE Known(q[k + 1], at(k + 1), emptied)
    OBVIOUS
  <2>1. k \in 0..n /\ k + 1 \in 1..n /\ (k + 1) - 1 = k
    BY <1>2
  <2>2. Known(q[k], at(k), emptied)
    BY <1>5, <2>1
  <2>3. q[k + 1] = Run(OnWay(from, to, k + 1), q[k])
    BY <1>3, <2>1
  <2>4. CASE from <= to
    <3>1. at(k) \in 0..11 /\ at(k + 1) = at(k) + 1 /\ from + (k + 1) = at(k) + 1
      BY <1>1, <2>1, <2>4 DEF Way
    <3>2. OnWay(from, to, k + 1) = Up[at(k) + 1]
      BY <2>4, <3>1 DEF OnWay
    <3> HIDE DEF at
    <3> QED BY <2>2, <2>3, <3>1, <3>2, KnownUp
  <2>5. CASE ~(from <= to)
    <3>1. at(k) \in 1..12 /\ at(k + 1) = at(k) - 1 /\ from + 1 - (k + 1) = at(k)
      BY <1>1, <2>1, <2>5 DEF Way
    <3>2. OnWay(from, to, k + 1) = Down[at(k)]
      BY <2>5, <3>1 DEF OnWay
    <3> HIDE DEF at
    <3> QED BY <2>2, <2>3, <3>1, <3>2, KnownDown
  <2> QED BY <2>4, <2>5
<1>6. Nat \subseteq Good
  <2> HIDE DEF Good
  <2> QED BY <1>4, <1>5, SetInduction
<1>7. n \in 0..n
  BY <1>2
<1> HIDE DEF n, at
<1> QED BY <1>2, <1>3, <1>6, <1>7

\* The database of a version that only upgrades have come to
Fine(d, v) ==
    /\ ~d.aborted
    /\ \/ v = 0 /\ \E X : Legacy(X) /\ Holds(d, X, FALSE)
       \/ v \in 1..12 /\ Holds(d, At(v), Shared(v))

\* The next upgrade goes through,
LEMMA FineUp ==
    ASSUME NEW d, NEW v \in 0..11, Fine(d, v)
    PROVE  Fine(Run(Up[v + 1], d), v + 1)
<1>1. v + 1 \in 1..12
  OBVIOUS
<1>2. CASE v = 0 /\ \E X : Legacy(X) /\ Holds(d, X, FALSE)
  <2>1. Up[v + 1] = UpInitial /\ v + 1 = 1
    BY <1>2, RevisionsAre
  <2>2. Holds(Run(UpInitial, d), At(1), FALSE) /\ ~Run(UpInitial, d).aborted
    BY <1>2, UpTo1 DEF Takes, Fine
  <2>3. Holds(Run(UpInitial, d), At(1), Shared(1))
    BY <2>2, SharedAt, Zenon
  <2>4. Holds(Run(Up[v + 1], d), At(v + 1), Shared(v + 1))
    BY <2>1, <2>3, Zenon
  <2> QED BY <1>1, <2>1, <2>2, <2>4 DEF Fine
<1>3. CASE v \in 1..12 /\ Holds(d, At(v), Shared(v))
  <2>1. v \in 1..11
    BY <1>3
  <2>2. Takes(Up[v + 1], At(v), Shared(v), At(v + 1), Shared(v + 1))
    BY <2>1, UpTakes
  <2> QED BY <1>1, <1>3, <2>2 DEF Takes, Fine
<1> QED BY <1>2, <1>3 DEF Fine

\* Upgrades do not fail on it.
LEMMA FineAfter ==
    ASSUME NEW from \in Versions, NEW to \in Versions, from <= to, NEW d, Fine(d, from)
    PROVE  Fine(Migrated(d, from, to), to)
<1> DEFINE n == Way(from, to)
<1>1. from \in 0..12 /\ to \in 0..12
  BY TwelveRevisions DEF Versions
<1>2. n = to - from /\ n \in Nat
  BY <1>1 DEF Way
<1>3. PICK q : /\ q[0] = d
               /\ \A k \in 1..n : q[k] = Run(OnWay(from, to, k), q[k - 1])
               /\ q[n] = Migrated(d, from, to)
  BY WayRuns
<1> DEFINE Good == {k \in Nat : k \in 0..n => Fine(q[k], from + k)}
<1>4. 0 \in Good
  BY <1>1, <1>3
<1>5. ASSUME NEW k \in Nat, k \in Good PROVE k + 1 \in Good
  <2> DEFINE v == from + k
  <2> SUFFICES ASSUME k + 1 \in 0..n PROVE Fine(q[k + 1], from + (k + 1))
    OBVIOUS
  <2>1. k \in 0..n /\ k + 1 \in 1..n /\ (k + 1) - 1 = k
    BY <1>2
  <2>2. Fine(q[k], v)
    BY <1>5, <2>1
  <2>3. v \in 0..11 /\ from + (k + 1) = v + 1
    BY <1>1, <1>2, <2>1
  <2> HIDE DEF v
  <2>4. q[k + 1] = Run(Up[v + 1], q[k])
    BY <1>3, <2>1, <2>3 DEF OnWay
  <2> QED BY <2>2, <2>3, <2>4, FineUp
<1>6. Nat \subseteq Good
  <2> HIDE DEF Good
  <2> QED BY <1>4, <1>5, SetInduction
<1>7. n \in 0..n /\ from + n = to
  BY <1>1, <1>2
<1> HIDE DEF n
<1> QED BY <1>2, <1>3, <1>6, <1>7

\* The empty database is one of version 0.
LEMMA EmptyIsFine ==
    /\ Holds(EmptyDb, Nothing, FALSE) /\ Legacy(Nothing)
    /\ Fine(EmptyDb, 0) /\ Known(EmptyDb, 0, FALSE)
<1>1. Holds(EmptyDb, Nothing, FALSE) /\ ~EmptyDb.aborted /\ DOMAIN EmptyDb = Parts
  BY DEF Holds, Fits, EmptyDb, Nothing, Parts
<1>2. Legacy(Nothing)
  BY DEF Legacy, Nothing
<1> QED BY <1>1, <1>2 DEF Fine, Known

\* The recursion of Upgraded has a solution.
LEMMA UpgradedIs ==
    Upgraded = [v \in Base..HeadVersion |->
                  IF v = Base THEN EmptyDb ELSE Migrated(Upgraded[v - 1], v - 1, v)]
<1> DEFINE Next1(g, v) == IF v = 0 THEN EmptyDb ELSE Migrated(g[v - 1], v - 1, v)
           S == {n \in Nat : \E g : g = [v \in 0..n |-> Next1(g, v)]}
<1>1. 0 \in S
  <2> DEFINE g == [v \in 0..0 |-> EmptyDb]
  <2>1. g = [v \in 0..0 |-> Next1(g, v)]
    OBVIOUS
  <2> QED BY <2>1
<1>2. ASSUME NEW n \in Nat, n \in S PROVE n + 1 \in S
  <2>1. PICK g : g = [v \in 0..n |-> Next1(g, v)]
    BY <1>2
  <2> DEFINE h == [v \in 0..(n + 1) |-> IF v = n + 1 THEN Next1(g, v) ELSE g[v]]
  <2>2. ASSUME NEW v \in 0..(n + 1)
        PROVE  h[v] = Next1(h, v)
    <3>1. v # 0 => v - 1 \in 0..n /\ v - 1 \in 0..(n + 1) /\ v - 1 # n + 1
      OBVIOUS
    <3>2. v # 0 => h[v - 1] = g[v - 1]
      BY <3>1
    <3>3. CASE v = n + 1
      <4>1. h[v] = Next1(g, v)
        BY <3>3
      <4> HIDE DEF h
      <4> QED BY <3>2, <4>1
    <3>4. CASE v # n + 1
      <4>1. v \in 0..n /\ h[v] = g[v]
        BY <3>4
      <4> HIDE DEF h
      <4> QED BY <2>1, <3>2, <4>1
    <3> QED BY <3>3, <3>4
  <2>3. h = [v \in 0..(n + 1) |-> h[v]]
    OBVIOUS
  <2> HIDE DEF h
  <2>4. h = [v \in 0..(n + 1) |-> Next1(h, v)]
    BY <2>2, <2>3
  <2> HIDE DEF Next1
  <2> QED BY <2>4
<1>3. Nat \subseteq S
  <2> HIDE DEF S
  <2> QED BY <1>1, <1>2, SetInduction
<1>4. \E g : g = [v \in 0..12 |-> Next1(g, v)]
  BY <1>3
<1>5. \E g : g = [v \in Base..HeadVersion |->
                    IF v = Base THEN EmptyDb ELSE Migrated(g[v - 1], v - 1, v)]
  BY <1>4, TwelveRevisions
<1> QED BY <1>5 DEF Upgraded

\* Upgrades alone come to every version.
LEMMA UpgradedFine ==
    ASSUME NEW v \in Versions
    PROVE  Fine(Upgraded[v], v)
<1> DEFINE Good == {k \in Nat : k \in 0..12 => Fine(Upgraded[k], k)}
<1>1. \A k \in 0..12 : Upgraded[k] =
        IF k = 0 THEN EmptyDb ELSE Migrated(Upgraded[k - 1], k - 1, k)
  BY UpgradedIs, TwelveRevisions
<1>2. 0 \in Good
  BY <1>1, EmptyIsFine
<1>3. ASSUME NEW k \in Nat, k \in Good PROVE k + 1 \in Good
  <2> SUFFICES ASSUME k + 1 \in 0..12 PROVE Fine(Upgraded[k + 1], k + 1)
    OBVIOUS
  <2>1. k \in 0..12 /\ k + 1 # 0 /\ (k + 1) - 1 = k /\ k <= k + 1
    OBVIOUS
  <2>2. Upgraded[k + 1] = Migrated(Upgraded[k], k, k + 1)
    BY <1>1, <2>1
  <2>3. k \in Versions /\ k + 1 \in Versions
    BY <2>1, TwelveRevisions DEF Versions
  <2>4. Fine(Upgraded[k], k)
    BY <1>3, <2>1
  <2> QED BY <2>1, <2>2, <2>3, <2>4, FineAfter
<1>4. Nat \subseteq Good
  <2> HIDE DEF Good
  <2> QED BY <1>2, <1>3, SetInduction
<1> QED BY <1>4, TwelveRevisions DEF Versions

\* Where celery_beat_schedules is, and where it is not
LEMMA BeatWhere ==
    /\ \A c \in At(1).c \cup At(2).c : c.table # B
    /\ \A v \in 3..12 : \E c \in At(v).c : c.table = B
<1>1. /\ \A c \in LI.c : c.table = "listed_info"
      /\ \A c \in PR.c : c.table = "prices"
      /\ \A c \in ST.c : c.table = "stocks"
  BY PartsIn DEF In, Owned
<1>2. "listed_info" # B /\ "prices" # B /\ "stocks" # B
  BY DEF B
<1>3. At(1).c = (LI.c \cup PR.c) \cup ST.c /\ At(2).c = LI.c
  BY AtIs, JoinParts
<1>4. \A c \in At(1).c \cup At(2).c : c.table # B
  BY <1>1, <1>2, <1>3
<1>5. PICK c \in FirstColumns : c.table = B
  BY FirstColumnsHave
<1>6. c \in B3.c /\ c \in B4.c /\ c \in B7.c /\ c \in B12.c
  BY <1>5 DEF B3, B4, B7, B12
<1>7. /\ c \in At(3).c /\ c \in At(4).c /\ c \in At(5).c /\ c \in At(6).c /\ c \in At(7).c
      /\ c \in At(8).c /\ c \in At(9).c /\ c \in At(10).c /\ c \in At(11).c
           /\ c \in At(12).c
  BY <1>6, AtIs, JoinParts
<1>8. \A v \in 3..12 : \/ v = 3 \/ v = 4 \/ v = 5 \/ v = 6 \/ v = 7 \/ v = 8
                       \/ v = 9 \/ v = 10 \/ v = 11 \/ v = 12
  OBVIOUS
<1>9. \A v \in 3..12 : c \in At(v).c
  BY <1>7, <1>8
<1> QED BY <1>4, <1>5, <1>9

\* ... and where listed_info is
LEMMA ListedInfoWhere ==
    \A v \in 1..2 : \E c \in At(v).c : c.table = "listed_info"
<1>1. \A c \in LI.c : c.table = "listed_info"
  BY PartsIn DEF In, Owned
<1>2. PICK c : c \in LI.c
  BY SomeColumns
<1>3. c \in At(1).c /\ c \in At(2).c
  BY <1>2, AtIs, JoinParts
<1>4. \A v \in 1..2 : v = 1 \/ v = 2
  OBVIOUS
<1> QED BY <1>1, <1>2, <1>3, <1>4

\* Of what is there an emptied version table knows enough.
LEMMA KnownCleared ==
    ASSUME NEW d, NEW v \in 1..12, ~d.aborted, Known(d, v, FALSE)
    PROVE  Known(d, 0, TRUE)
<1>1. DOMAIN d = Parts
  BY DEF Known
<1>2. CASE Holds(d, At(v), Shared(v))
  <2>1. Whole(d) /\ d.columns = At(v).c
    BY <1>2, FitsWhole DEF Holds
  <2>2. CASE v \in 1..2
    <3>1. HasTable(d, "listed_info")
      BY <2>1, <2>2, ListedInfoWhere DEF HasTable
    <3> QED BY <1>1, <2>1, <3>1 DEF Known, There
  <2>3. CASE v \in 3..12
    <3>1. HasTable(d, B)
      BY <2>1, <2>3, BeatWhere DEF HasTable
    <3> QED BY <1>1, <2>1, <3>1 DEF Known, There
  <2>4. v \in 1..2 \/ v \in 3..12
    OBVIOUS
  <2> QED BY <2>2, <2>3, <2>4, Zenon
<1>3. CASE Sticky(d)
  <2>1. Declared("id").table = B
    BY ColumnIs DEF Declared
  <2>2. Whole(d) /\ HasTable(d, B)
    BY <1>3, <2>1 DEF Sticky, Unindexed, HasTable
  <2> QED BY <1>1, <2>2 DEF Known, There
<1>4. Holds(d, At(v), Shared(v)) \/ Sticky(d)
  <2>1. v # 0
    OBVIOUS
  <2> QED BY <2>1, Zenon DEF Known
<1> QED BY <1>2, <1>3, <1>4

\* A second schedule of one name, or none again
LEMMA KnownSame ==
    ASSUME NEW d, NEW v, NEW emptied, ~d.aborted, Known(d, v, emptied),
           HasTable(d, B), NEW same
    PROVE  Known([d EXCEPT !.sameNames = same], v, emptied)
<1> DEFINE e == [d EXCEPT !.sameNames = same]
<1>1. DOMAIN d = Parts
  BY DEF Known
<1>2. /\ DOMAIN e = Parts /\ e.columns = d.columns /\ e.indexes = d.indexes
      /\ e.constraints = d.constraints /\ e.aborted = d.aborted
  BY <1>1 DEF Parts
<1> HIDE DEF e
<1>3. Whole(d) => Whole(e)
  BY <1>2 DEF Whole
<1>4. \A t : There(d, t) => There(e, t)
  BY <1>2, <1>3 DEF There, HasTable
<1>5. Sticky(d) => Sticky(e)
  BY <1>2, <1>3 DEF Sticky, Unindexed
<1>6. CASE ~emptied /\ v \in 1..12 /\ Holds(d, At(v), Shared(v))
  <2>1. d.columns = At(v).c
    BY <1>6, FitsWhole DEF Holds
  <2>2. v \notin 1..2
    <3>1. \A k \in 1..2 : k = 1 \/ k = 2
      OBVIOUS
    <3> QED BY <2>1, <3>1, BeatWhere DEF HasTable
  <2>3. v \in 3..12
    BY <1>6, <2>2
  <2>4. Shared(v)
    BY <2>3 DEF Shared
  <2>5. Holds(e, At(v), Shared(v))
    BY <1>2, <1>6, <2>4 DEF Holds, Fits
  <2> QED BY <1>2, <1>6, <2>5 DEF Known, e
<1>7. ~\E X : Legacy(X) /\ Holds(d, X, FALSE)
  <2> SUFFICES ASSUME NEW X, Legacy(X), Holds(d, X, FALSE) PROVE FALSE
    OBVIOUS
  <2>1. d.columns = X.c
    BY FitsWhole DEF Holds
  <2>2. B # "data_sources"
    BY DEF B
  <2> QED BY <2>1, <2>2 DEF Legacy, HasTable
<1> QED BY <1>2, <1>4, <1>5, <1>6, <1>7 DEF Known, e

\* It is known of both databases a start is possible from,
LEMMA KnownAtFirst ==
    ASSUME DbInit
    PROVE  Known(db, version, cleared)
<1>1. CASE db = EmptyDb
  BY <1>1, EmptyIsFine DEF DbInit, Base
<1>2. CASE db = LegacyTable
  <2> DEFINE cs == Plain({"id"})
             X == [c |-> {} \cup TableColumns("data_sources", cs), i |-> {},
               k |-> {} \cup {}]
  <2>1. LegacyTable = Apply(EmptyDb, CreateTable("data_sources", cs, {}))
    BY OneStatement DEF LegacyTable
  <2>2. Fits(EmptyDb, {}, {}, {}, FALSE)
    BY EmptyIsFine DEF Holds, Nothing
  <2>3. Fits(LegacyTable, {} \cup TableColumns("data_sources", cs), {}, {} \cup {}, FALSE)
    <3> HIDE DEF cs
    <3> QED BY <2>1, <2>2, CreatesTable
  <2>4. Holds(LegacyTable, X, FALSE)
    BY <2>3 DEF Holds
  <2>5. \A c \in TableColumns("data_sources", cs) : c.table = "data_sources"
    BY ColumnsIn
  <2>6. Legacy(X)
    BY <2>5 DEF Legacy
  <2>7. DOMAIN LegacyTable = Parts
    BY <2>4, PartsOf
  <2> HIDE DEF X
  <2> QED BY <1>2, <2>4, <2>6, <2>7 DEF DbInit, Base, Known
<1> QED BY <1>1, <1>2 DEF DbInit

\* The invariant: of the database as it is, whatever version it is said to be of
KnownInv == Known(db, version, cleared)

\* every step of the database keeps it,
LEMMA KnownKept ==
    ASSUME PlanInv, DbInv, KnownInv, [DbNext]_<<db, version, cleared>>
    PROVE  KnownInv'
<1>1. ASSUME NEW v \in Versions, MigrateTo(v)
      PROVE  KnownInv'
  <2>1. Known(Migrated(db, version, v), v, cleared)
    BY KnownAfter DEF PlanInv, KnownInv
  <2> QED BY <1>1, <2>1 DEF MigrateTo, KnownInv
<1>2. ASSUME NEW same \in BOOLEAN, SetSameNames(same)
      PROVE  KnownInv'
  <2>1. HasTable(db, B)
    BY <1>2 DEF SetSameNames, Tables, HasTable, B
  <2>2. Known([db EXCEPT !.sameNames = same], version, cleared)
    BY <2>1, KnownSame DEF DbInv, KnownInv
  <2> QED BY <1>2, <2>2 DEF SetSameNames, KnownInv
<1>3. CASE ClearVersion
  <2>1. version \in 1..12 /\ cleared = FALSE /\ version' = 0 /\ cleared' = TRUE /\ db' = db
    BY <1>3, TwelveRevisions DEF ClearVersion, PlanInv, Versions
  <2>2. Known(db, version, FALSE)
    BY <2>1 DEF KnownInv
  <2>3. Known(db, 0, TRUE)
    BY <2>1, <2>2, KnownCleared DEF DbInv
  <2> QED BY <2>1, <2>3 DEF KnownInv
<1>4. CASE UNCHANGED <<db, version, cleared>>
  BY <1>4 DEF KnownInv
<1> QED BY <1>1, <1>2, <1>3, <1>4 DEF DbNext, Versions

\* and so every step of the commands.
LEMMA KnownAlways == Spec => []KnownInv
<1>1. Init => KnownInv
  BY KnownAtFirst DEF Init, KnownInv
<1>2. PlanInv /\ DbInv /\ KnownInv /\ [Next]_vars => KnownInv'
  BY StepIsDbStep, KnownKept
<1> QED BY <1>1, <1>2, PlanAlways, DbAlways, PTL DEF Spec
-----------------------------------------------------------------------------
(* What the models find *)

\* What a model finds in a table
LEMMA ColumnsServe ==
    ASSUME NEW d, NEW t, NEW cs, \A n \in cs : \E c \in d.columns : c.table = t
           /\ c.name = n
    PROVE  cs \subseteq ColumnsOf(t, d)
BY DEF ColumnsOf

\* The newest version has all that the models ask for.
LEMMA NewestServes ==
    ASSUME NEW d, ~d.aborted, NEW same, Holds(d, At(12), same)
    PROVE  \A model \in Models : Serves(d, model)
<1>1. d.columns = (JLI.c \cup LOG.c) \cup B12.c
  BY FitsWhole, AtIs, JoinParts DEF Holds
<1>2. Serves(d, JQuantsListedInfoModel)
  <2> DEFINE t == "jquants_listed_info"
  <2>1. TableColumns(t, Plain(ListedInfoColumns)) \subseteq d.columns
    BY <1>1 DEF JLI
  <2>2. \A n \in ListedInfoColumns : \E c \in d.columns : c.table = t /\ c.name = n
    <3> SUFFICES ASSUME NEW n \in ListedInfoColumns
                        PROVE \E c \in d.columns : c.table = t /\ c.name = n
      OBVIOUS
    <3>1. Column(t, n, "as declared") \in d.columns
      BY <2>1, ColumnIn
    <3> QED BY <3>1 DEF Column
  <2>3. ListedInfoColumns \subseteq ColumnsOf(t, d)
    BY <2>2, ColumnsServe
  <2> QED BY <2>3 DEF Serves, JQuantsListedInfoModel
<1>3. Serves(d, TaskExecutionLog)
  <2> DEFINE t == "task_execution_logs"
             cs == TaskExecutionLog.columns
  <2>1. TableColumns(t, Plain(cs)) \subseteq d.columns
    <3>1. CreateTaskLogs[1].table = t
            /\ CreateTaskLogs[1].columns = Plain(TaskExecutionLog.columns)
      BY TableIs DEF CreateTaskLogs
    <3>2. LOG.c = TableColumns(t, Plain(TaskExecutionLog.columns))
      BY <3>1 DEF LOG, Part, Cols
    <3> QED BY <1>1, <3>2
  <2> HIDE DEF cs
  <2>2. \A n \in cs : \E c \in d.columns : c.table = t /\ c.name = n
    <3> SUFFICES ASSUME NEW n \in cs PROVE \E c \in d.columns : c.table = t /\ c.name = n
      OBVIOUS
    <3>1. Column(t, n, "as declared") \in d.columns
      BY <2>1, ColumnIn
    <3> QED BY <3>1 DEF Column
  <2>3. cs \subseteq ColumnsOf(t, d)
    BY <2>2, ColumnsServe
  <2>4. TaskExecutionLog.table = t
    BY DEF TaskExecutionLog
  <2> QED BY <2>3, <2>4 DEF Serves, cs
<1>4. Serves(d, CeleryBeatSchedule)
  <2> DEFINE first == {"id", "name", "task_name", "cron_expression", "enabled", "args",
             "kwargs",
                       "description", "created_at", "updated_at"}
             flexible == {"category", "tags", "execution_policy", "auto_generated_name"}
             cs == (first \cup flexible) \cup {"last_run_at"}
  <2>1. B12.c = (FirstColumns \cup FlexibleColumns)
          \cup {Column(B, "last_run_at", "as declared")}
    BY DEF B12, B4
  <2>2. /\ FirstColumns = TableColumns(B, Plain(first))
        /\ FlexibleColumns = TableColumns(B, Plain(flexible))
    BY DEF FirstColumns, FlexibleColumns
  <2>3. /\ \A n \in first : Column(B, n, "as declared") \in d.columns
        /\ \A n \in flexible : Column(B, n, "as declared") \in d.columns
        /\ Column(B, "last_run_at", "as declared") \in d.columns
    <3> HIDE DEF first, flexible
    <3> QED BY <1>1, <2>1, <2>2, ColumnIn
  <2> HIDE DEF first, flexible
  <2>4. \A n \in cs : \E c \in d.columns : c.table = B /\ c.name = n
    BY <2>3, ColumnIs
  <2>5. cs \subseteq ColumnsOf(B, d)
    <3> HIDE DEF cs
    <3> QED BY <2>4, ColumnsServe
  <2>6. CeleryBeatSchedule.table = B /\ CeleryBeatSchedule.columns = cs
    BY DEF CeleryBeatSchedule, B, first, flexible
  <2> HIDE DEF cs
  <2> QED BY <2>5, <2>6 DEF Serves
<1> QED BY <1>2, <1>3, <1>4 DEF Models

\* Before the version table is emptied a database is fine, or version 3 as
\* dba980847750 leaves it.
LEMMA KnownFine ==
    ASSUME PlanInv, DbInv, KnownInv, ~cleared
    PROVE  (version = BeatTables /\ Sticky(db)) \/ Fine(db, version)
BY DEF DbInv, KnownInv, Known, Fine, BeatTables

\* The latter is what the properties except.
LEMMA StickyIsStuck ==
    ASSUME DbInv, version = BeatTables, Sticky(db)
    PROVE  Stuck
BY DEF DbInv, Sticky, Stuck

-----------------------------------------------------------------------------
(* The theorems *)

\* Whatever commands overlap, fail, are lost or go on after a reset: the database
\* goes through whole migrations, each from the version that is there, one after
\* the other (run_async_migrations, do_run_migrations).
THEOREM MigrationsAreAtomic == Spec => DbSpec
<1>1. Init => DbInit
  BY DEF Init
<1>2. PlanInv /\ [Next]_vars => [DbNext]_<<db, version, cleared>>
  BY StepIsDbStep
<1> QED BY <1>1, <1>2, PlanAlways, PTL DEF Spec, DbSpec

\* Only versions there are are planned and stored, a downgrade never goes up, and
\* nothing of a script that PostgreSQL has refused a statement of is committed
\* (upgrade_database, downgrade_database, reset_database).
THEOREM MigrationsTypeCorrect == Spec => []TypeOK
<1>1. PlanInv /\ DbInv => TypeOK
  BY DEF PlanInv, DbInv, TypeOK, Commands, Versions
<1> QED BY <1>1, PlanAlways, DbAlways, PTL

\* The database is the one its version stands for, whatever commands, overlapping
\* commands, failures and lost processes it has seen: every downgrade undoes
\* exactly what its upgrade did, but for dba980847750 and for an emptied version
\* table (alembic/versions, env.py).
THEOREM SchemaAlwaysFitsVersion == Spec => []SchemaFitsVersion
<1>1. PlanInv /\ DbInv /\ KnownInv => SchemaFitsVersion
  <2> SUFFICES ASSUME PlanInv, DbInv, KnownInv, ~cleared, version # Base, ~Stuck
               PROVE  Schema(db) = Schema(Upgraded[version])
    BY DEF SchemaFitsVersion
  <2>1. version \in Versions /\ version # 0
    BY TwelveRevisions DEF PlanInv
  <2>2. Fine(db, version)
    BY KnownFine, StickyIsStuck
  <2>3. Fine(Upgraded[version], version)
    BY <2>1, UpgradedFine
  <2>4. \A d : Fine(d, version) => Schema(d)
          = <<At(version).c, At(version).i, At(version).k>>
    BY <2>1 DEF Fine, Holds, Fits, Schema
  <2> QED BY <2>2, <2>3, <2>4
<1> QED BY <1>1, PlanAlways, DbAlways, KnownAlways, PTL

\* A database that `check' finds up to date has every table and column the models
\* are declared with, also when alembic_version was once emptied: from there the
\* scripts do not get past version 2 (get_current_revision,
\* check_pending_migrations, the models of infrastructure/database/models).
THEOREM UpToDateAlwaysServes == Spec => []UpToDateServesModels
<1>1. PlanInv /\ DbInv /\ KnownInv => UpToDateServesModels
  <2> SUFFICES ASSUME PlanInv, DbInv, KnownInv, version = HeadVersion
               PROVE  \A model \in Models : Serves(db, model)
    BY DEF UpToDateServesModels, CheckPending
  <2>1. version = 12
    BY TwelveRevisions
  <2>2. version \notin 0..2 /\ version # 0 /\ version # 3
    BY <2>1
  <2>3. Holds(db, At(version), Shared(version))
    BY <2>2, Zenon DEF DbInv, KnownInv, Known
  <2>4. Holds(db, At(12), Shared(12))
    BY <2>1, <2>3, Zenon
  <2> QED BY <2>4, NewestServes DEF DbInv
<1> QED BY <1>1, PlanAlways, DbAlways, KnownAlways, PTL

\* From every database the commands can leave behind an upgrade to the newest
\* version goes through, whatever rows the tables hold: no downgrade is a dead
\* end, but for dba980847750 and an emptied version table (upgrade_database).
THEOREM HeadAlwaysInReach == Spec => []HeadInReach
<1>1. PlanInv /\ DbInv /\ KnownInv => HeadInReach
  <2> SUFFICES ASSUME PlanInv, DbInv, KnownInv, ~cleared, ~Stuck
               PROVE  ~Migrated(db, version, HeadVersion).aborted
    BY DEF HeadInReach
  <2>1. version \in Versions /\ HeadVersion \in Versions /\ version <= HeadVersion
    BY TwelveRevisions DEF PlanInv, Versions
  <2>2. Fine(db, version)
    BY KnownFine, StickyIsStuck
  <2>3. Fine(Migrated(db, version, HeadVersion), HeadVersion)
    BY <2>1, <2>2, FineAfter
  <2> QED BY <2>3 DEF Fine
<1> QED BY <1>1, PlanAlways, DbAlways, KnownAlways, PTL

=============================================================================
