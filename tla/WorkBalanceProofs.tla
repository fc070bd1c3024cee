-------------------------- MODULE WorkBalanceProofs --------------------------
(***************************************************************************)
(* The inductive invariant of WorkBalance, and what follows from it for    *)
(* any number of months, callers, overlapping refreshes and failures.      *)
(***************************************************************************)
EXTENDS WorkBalance, TLAPS

Holding == {"locked", "closed", "computed"}

\* No total is of a version that its month does not have yet.
VersionInv ==
    /\ \A m \in Month : source[m] <= edits
    /\ \A m \in Month : bucket[m] # None => bucket[m] <= source[m]
    /\ \A m \in Month : row.counted[m] # None => row.counted[m] <= source[m]

\* A row that was reset is dirty from its beginning until a refresh replaces it.
ResetInv == row.reset => row.exists /\ row.dirty /\ row.from = None

LockInv == \A x, y \in LockHolders : x = y

\* What the refresh w has read.  While it holds the lock nobody else writes the period
\* rows or the counted minutes, so what it read stays at least as new as the row.
RefreshOK(w) ==
    /\ \A m \in Month : w.totals[m] # None => w.totals[m] <= source[m]
    /\ \A m \in Month : w.closed[m] # None => w.closed[m] <= source[m]
    /\ w.phase \in Holding => (row.reset => w.force)
    /\ w.phase \in {"started", "locked"} => w.totals = NoTotals
    /\ w.phase = "closed" => \A m \in Month :
          IF m < HotStart(w.month) THEN w.force => w.totals[m] # None ELSE w.totals[m] = None
    /\ w.phase = "computed" => \A m \in Month :
          IF m < HotStart(w.month)
          THEN (w.force => w.totals[m] # None) /\ w.closed[m] = Buckets(w)[m]
          ELSE /\ m <= w.month => w.totals[m] # None
               /\ w.totals[m] # None /\ row.counted[m] # None /\ m >= HotStart(row.through) =>
                     row.counted[m] <= w.totals[m]

RefreshInv == \A x \in Started : RefreshOK(worker[x])

IInv == TypeOK /\ VersionInv /\ ResetInv /\ LockInv /\ RefreshInv /\ ReadModelIsItsTiers

-----------------------------------------------------------------------------
(***************************************************************************)
(* Months, totals and the states of a refresh.                             *)
(***************************************************************************)
LEMMA MonthFacts ==
    /\ \A m \in Month : m \in Int /\ m >= 1
    /\ MaxMonth \in Nat /\ 1 \in Month
    /\ \A m \in Month : HotStart(m) \in Month /\ HotStart(m) <= m
    /\ \A m \in 0..MaxMonth : HotStart(m) \in Int
BY MonthsAssumption DEF Month, HotStart

LEMMA VersionFacts ==
    /\ \A v \in Version : v \in Int /\ v >= 0
    /\ None \notin Version /\ 0 \in Version
    /\ NoTotals \in Totals /\ \A m \in Month : NoTotals[m] = None
BY BoundsAssumption, NullAssumption DEF Version, NoTotals, Totals

\* A refresh is idle, listed or under way, and has the fields of its phase.
LEMMA WorkerStates ==
    ASSUME TypeOK, NEW x \in Worker
    PROVE  /\ worker[x].phase \in {"idle", "listed", "started", "locked", "closed", "computed"}
           /\ worker[x].phase = "listed" => worker[x] \in Listed
           /\ x \in Started <=> worker[x] \in Refreshing
           /\ x \in LockHolders <=> worker[x].phase \in Holding
           /\ x \in LockHolders => x \in Started
BY DEF TypeOK, Idle, Listed, Refreshing, Started, LockHolders, Holding

\* The versions in a refresh and in the tables are numbers.
LEMMA ReadVersions ==
    ASSUME NEW w \in Refreshing, NEW m \in Month
    PROVE  /\ w.totals[m] # None => w.totals[m] \in Int
           /\ w.closed[m] # None => w.closed[m] \in Int
<1>1. w.totals[m] \in Version \cup {None} /\ w.closed[m] \in Version \cup {None}
  BY DEF Refreshing, Totals
<1> QED
  BY <1>1, VersionFacts

LEMMA TableVersions ==
    ASSUME TypeOK, NEW m \in Month
    PROVE  /\ source[m] \in Int /\ edits \in Int
           /\ bucket[m] # None => bucket[m] \in Int
           /\ row.counted[m] # None => row.counted[m] \in Int
<1>1. /\ source[m] \in Version /\ bucket[m] \in Version \cup {None}
      /\ row.counted[m] \in Version \cup {None}
  BY DEF TypeOK, BalanceRow, Totals
<1> QED
  BY <1>1, VersionFacts, BoundsAssumption DEF TypeOK

\* What a call has still to mark, and since when.
LEMMA CallerStates ==
    ASSUME TypeOK, NEW c \in Caller
    PROVE  /\ caller[c].phase \in {"idle", "changed", "stamped"}
           /\ caller[c].phase # "idle" => caller[c].from \in Month \cup {None}
           /\ caller[c].phase = "changed" => caller[c] \in [phase : {"changed"}, from : Month \cup {None}]
           /\ caller[c].phase = "stamped" =>
                caller[c] \in [phase : {"stamped"}, from : Month \cup {None}, after : SUBSET Worker]
BY DEF TypeOK, Idle, Owing

\* The empty row and the row that stands for it have their types.
LEMMA NoRowType == NoRow \in BalanceRow
BY VersionFacts, MonthsAssumption DEF NoRow, BalanceRow

\* What a refresh reads, and the period rows with its upserts, are totals.
LEMMA ReadType ==
    ASSUME TypeOK, NEW w \in Refreshing, NEW S
    PROVE  Read(w, S) \in Totals
BY DEF TypeOK, Refreshing, Read, Totals

LEMMA BucketsType ==
    ASSUME TypeOK, NEW w \in Refreshing
    PROVE  Buckets(w) \in Totals
BY DEF TypeOK, Refreshing, Buckets, Totals

-----------------------------------------------------------------------------
(***************************************************************************)
(* Steps that leave what a refresh has read alone.                         *)
(***************************************************************************)

\* What a refresh has read stays right when months only get newer versions, the period
\* rows stay while it holds the lock, and the row only loses minutes.
LEMMA RefreshStable ==
    ASSUME TypeOK, NEW x \in Started, RefreshOK(worker[x]), worker'[x] = worker[x],
           \A m \in Month : source'[m] \in Int /\ source'[m] >= source[m],
           x \in LockHolders =>
              /\ bucket' = bucket /\ (row'.reset => row.reset)
              /\ \/ row'.counted = row.counted /\ row'.through = row.through
                 \/ row'.counted = NoTotals
    PROVE  RefreshOK(worker[x])'
<1> DEFINE w == worker[x]
<1>1. w \in Refreshing /\ w' = w /\ (x \in LockHolders <=> w.phase \in Holding)
  BY WorkerStates DEF Started
<1> HIDE DEF w
<1>2. ASSUME NEW m \in Month
      PROVE  /\ source[m] \in Int
             /\ w.totals[m] # None => w.totals[m] \in Int
             /\ w.closed[m] # None => w.closed[m] \in Int
  BY <1>1, ReadVersions, TableVersions
<1>3. RefreshOK(w)
  BY DEF w
<1>4. \A m \in Month : w.totals[m] # None => w.totals[m] <= source'[m]
  <2> SUFFICES ASSUME NEW m \in Month, w.totals[m] # None PROVE w.totals[m] <= source'[m]
    OBVIOUS
  <2>1. w.totals[m] <= source[m]
    BY <1>3 DEF RefreshOK
  <2> QED
    BY <1>2, <2>1
<1>5. \A m \in Month : w.closed[m] # None => w.closed[m] <= source'[m]
  <2> SUFFICES ASSUME NEW m \in Month, w.closed[m] # None PROVE w.closed[m] <= source'[m]
    OBVIOUS
  <2>1. w.closed[m] <= source[m]
    BY <1>3 DEF RefreshOK
  <2> QED
    BY <1>2, <2>1
<1>6. w.phase = "computed" => \A m \in Month : Buckets(w)'[m] = Buckets(w)[m]
  BY <1>1 DEF Holding, Buckets
<1>7. w.phase = "computed" => \A m \in Month :
          IF m < HotStart(w.month)
          THEN (w.force => w.totals[m] # None) /\ w.closed[m] = Buckets(w)'[m]
          ELSE /\ m <= w.month => w.totals[m] # None
               /\ w.totals[m] # None /\ row'.counted[m] # None /\ m >= HotStart(row'.through) =>
                     row'.counted[m] <= w.totals[m]
  BY <1>1, <1>3, <1>6, VersionFacts DEF RefreshOK, Holding
<1>8. RefreshOK(w)'
  BY <1>1, <1>3, <1>4, <1>5, <1>7 DEF RefreshOK, Holding
<1> QED
  BY <1>8 DEF w

-----------------------------------------------------------------------------
(***************************************************************************)
(* Type correctness.                                                       *)
(***************************************************************************)
LEMMA InitInv == Init => IInv
<1> SUFFICES ASSUME Init PROVE IInv
  OBVIOUS
<1>1. TypeOK
  BY VersionFacts, NoRowType, BoundsAssumption DEF Init, TypeOK, Idle
<1>2. VersionInv
  BY VersionFacts DEF Init, VersionInv, NoRow
<1>3. Started = {} /\ LockHolders = {}
  BY DEF Init, Started, LockHolders, Idle
<1>4. ResetInv /\ ReadModelIsItsTiers
  BY DEF Init, ResetInv, ReadModelIsItsTiers, NoRow
<1> QED
  BY <1>1, <1>2, <1>3, <1>4 DEF IInv, LockInv, RefreshInv

\* A change makes newer versions, within the bound.
LEMMA ChangeType ==
    ASSUME TypeOK, VersionInv, NEW c \in Caller,
           ChangePolicy(c) \/ \E m \in Month : ChangeMonth(c, m)
    PROVE  /\ TypeOK'
           /\ \A m \in Month : source[m] <= source'[m] /\ source'[m] <= edits'
<1>1. \A m \in Month : source[m] \in 0..edits /\ edits \in 0..MaxEdits
  BY VersionFacts, TableVersions DEF TypeOK, VersionInv
<1>2. /\ edits < MaxEdits /\ edits' = edits + 1
      /\ UNCHANGED <<today, failures, bucket, row, worker, missed>>
  BY DEF ChangeMonth, ChangePolicy
<1>3. edits' \in 0..MaxEdits
  BY <1>2, BoundsAssumption DEF TypeOK
<1>4. \A m \in Month : source'[m] \in {source[m], source[m] + 1}
  BY DEF ChangeMonth, ChangePolicy, TypeOK
<1>5. \A m \in Month : /\ source'[m] \in Version
                       /\ source[m] <= source'[m] /\ source'[m] <= edits'
  <2> SUFFICES ASSUME NEW m \in Month
               PROVE  source'[m] \in Version /\ source[m] <= source'[m] /\ source'[m] <= edits'
    OBVIOUS
  <2> QED
    BY <1>1, <1>2, <1>4, BoundsAssumption DEF Version
<1>6. source' \in [Month -> Version]
  <2>1. DOMAIN source' = Month /\ source' = [m \in Month |-> source'[m]]
    BY DEF ChangeMonth, ChangePolicy, TypeOK
  <2> QED
    BY <1>5, <2>1
<1>7. caller' \in [Caller -> {Idle} \cup Owing]
  <2>1. \A m \in Month \cup {None} : [phase |-> "changed", from |-> m] \in Owing
    BY DEF Owing
  <2> QED
    BY <2>1 DEF ChangeMonth, ChangePolicy, TypeOK
<1> QED
  BY <1>2, <1>3, <1>5, <1>6, <1>7 DEF TypeOK

\* A mark, with or without a date, is a row of the table.
LEMMA MarkedType ==
    ASSUME TypeOK, NEW m \in Month \cup {None}, NEW S \in SUBSET Worker
    PROVE  Marked(m, S) \in BalanceRow
<1>1. row \in BalanceRow /\ row.from \in Month \cup {None}
  BY DEF TypeOK, BalanceRow
<1>2. m # None => DirtyFrom(m) \in Month \cup {None}
  BY <1>1 DEF DirtyFrom
<1>3. m # None => m \in 0..MaxMonth
  BY MonthFacts DEF Month
<1> QED
  BY <1>1, <1>2, <1>3, NoRowType DEF Marked, BalanceRow

\* The steps of a caller that owes a mark.
LEMMA CallerType ==
    ASSUME TypeOK, NEW c \in Caller, Stamp(c) \/ Mark(c) \/ ForgetMark(c)
    PROVE  TypeOK'
<1>1. CASE Stamp(c)
  <2>1. [phase |-> "stamped", from |-> caller[c].from, after |-> Started] \in Owing
    BY <1>1, CallerStates DEF Stamp, Owing, Started
  <2> QED
    BY <1>1, <2>1 DEF Stamp, TypeOK
<1>2. CASE Mark(c)
  <2>1. row' \in BalanceRow
    BY <1>2, CallerStates, MarkedType DEF Mark
  <2>2. missed' \subseteq Month
    BY <1>2 DEF Mark, TypeOK, NotAskedFor, NotCounted, ToldTooEarly
  <2> QED
    BY <1>2, <2>1, <2>2 DEF Mark, TypeOK
<1>3. CASE ForgetMark(c)
  BY <1>3 DEF ForgetMark, TypeOK
<1> QED
  BY <1>1, <1>2, <1>3

LEMMA RebuildType ==
    ASSUME TypeOK, RequestRebuild
    PROVE  TypeOK'
<1>1. row' \in BalanceRow
  BY NoRowType DEF RequestRebuild, BalanceRow, Started
<1>2. edits' \in 0..MaxEdits
  BY BoundsAssumption DEF RequestRebuild, TypeOK
<1> QED
  BY <1>1, <1>2, VersionFacts DEF RequestRebuild, TypeOK

\* Listing and starting a refresh,
LEMMA StartType ==
    ASSUME TypeOK, NEW x \in Worker, List(x) \/ Start(x)
    PROVE  TypeOK'
<1>1. CASE List(x)
  <2>1. [phase |-> "listed", from |-> row.from, force |-> ~row.exists \/ (row.dirty /\ row.from = None)]
           \in Listed
    BY DEF TypeOK, BalanceRow, Listed
  <2> QED
    BY <1>1, <2>1 DEF List, TypeOK
<1>2. CASE Start(x)
  <2>1. [phase |-> "started", from |-> worker[x].from, force |-> worker[x].force,
           month |-> today, totals |-> NoTotals, closed |-> NoTotals] \in Refreshing
    BY <1>2, WorkerStates, VersionFacts DEF Start, TypeOK, Listed, Refreshing
  <2>2. row' \in BalanceRow
    BY <1>2 DEF Start, TypeOK, BalanceRow
  <2>3. \A c \in Caller : caller[c].phase = "stamped" => [caller[c] EXCEPT !.after = @ \ {x}] \in Owing
    BY CallerStates DEF Owing
  <2>4. caller' \in [Caller -> {Idle} \cup Owing]
    BY <1>2, <2>3 DEF Start, TypeOK
  <2> QED
    BY <1>2, <2>1, <2>2, <2>4 DEF Start, TypeOK
<1> QED
  BY <1>1, <1>2

\* its reads,
LEMMA ReadingType ==
    ASSUME TypeOK, NEW x \in Worker, Lock(x) \/ ComputeClosed(x) \/ ComputeHot(x)
    PROVE  TypeOK' /\ worker'[x] \in Refreshing
<1> DEFINE w == worker[x]
<1>1. w \in Refreshing
  BY WorkerStates DEF Lock, ComputeClosed, ComputeHot, Started
<1>2. UNCHANGED <<today, source, edits, failures, bucket, row, caller, missed>>
  BY DEF Lock, ComputeClosed, ComputeHot
<1>3. \A y \in Worker : y # x => worker'[y] = worker[y]
  BY DEF Lock, ComputeClosed, ComputeHot, TypeOK
<1>4. worker'[x] \in Refreshing
  <2>1. CASE Lock(x)
    <3>1. worker'[x] = [w EXCEPT !.phase = "locked", !.force = @ \/ ~row.exists \/ IsResetMarker]
      BY <2>1 DEF Lock, TypeOK
    <3> HIDE DEF w
    <3> QED
      BY <1>1, <3>1 DEF Refreshing
  <2>2. CASE ComputeClosed(x)
    <3> DEFINE t == Read(w, AffectedStart(w)..(HotStart(w.month) - 1))
    <3>1. t \in Totals
      BY <1>1, ReadType
    <3>2. worker'[x] = [w EXCEPT !.phase = "closed", !.totals = t]
      BY <2>2 DEF ComputeClosed, TypeOK
    <3> HIDE DEF w, t
    <3> QED
      BY <1>1, <3>1, <3>2 DEF Refreshing
  <2>3. CASE ComputeHot(x)
    <3> DEFINE t == Read(w, HotStart(w.month)..w.month)
               b == [m \in Month |-> IF m < HotStart(w.month) THEN Buckets(w)[m] ELSE None]
    <3>1. t \in Totals
      BY <1>1, ReadType
    <3>2. b \in Totals
      BY <1>1, BucketsType DEF Totals
    <3>3. worker'[x] = [w EXCEPT !.phase = "computed", !.totals = t, !.closed = b]
      BY <2>3 DEF ComputeHot, TypeOK
    <3> HIDE DEF w, t, b
    <3> QED
      BY <1>1, <3>1, <3>2, <3>3 DEF Refreshing
  <2> QED
    BY <2>1, <2>2, <2>3
<1>5. worker' \in [Worker -> {Idle} \cup Listed \cup Refreshing]
  <2>1. DOMAIN worker' = Worker /\ worker' = [y \in Worker |-> worker'[y]]
    BY DEF Lock, ComputeClosed, ComputeHot, TypeOK
  <2> QED
    BY <1>3, <1>4, <2>1 DEF TypeOK
<1> QED
  BY <1>2, <1>4, <1>5 DEF TypeOK

\* and its end.
LEMMA EndType ==
    ASSUME TypeOK, NEW x \in Worker, Upsert(x) \/ Fail(x)
    PROVE  TypeOK'
<1>1. CASE Upsert(x)
  <2> DEFINE w == worker[x]
  <2>1. w \in Refreshing
    BY <1>1, WorkerStates DEF Upsert, Started
  <2>2. Refreshed(w) \in BalanceRow
    <3>1. w.month \in 0..MaxMonth /\ w.closed \in Totals /\ w.totals \in Totals
      BY <2>1, MonthFacts DEF Refreshing, Month
    <3> HIDE DEF w
    <3> QED
      BY <3>1 DEF Refreshed, BalanceRow, Totals
  <2>3. bucket' \in Totals /\ row' \in BalanceRow
    BY <1>1, <2>1, <2>2, BucketsType DEF Upsert, TypeOK
  <2>4. PassedOver(x) \subseteq Month
    BY <2>1, MonthsAssumption DEF PassedOver, Refreshing, Month
  <2> QED
    BY <1>1, <2>3, <2>4 DEF Upsert, TypeOK
<1>2. CASE Fail(x)
  BY <1>2, BoundsAssumption DEF Fail, TypeOK
<1> QED
  BY <1>1, <1>2

-----------------------------------------------------------------------------
(***************************************************************************)
(* Preservation of the invariant, one lemma for each kind of step.         *)
(***************************************************************************)

\* Steps of callers that do not write the row, and the passing of a month.
LEMMA QuietInv ==
    ASSUME IInv, TypeOK', UNCHANGED <<bucket, row, worker>>,
           \A m \in Month : source[m] <= source'[m] /\ source'[m] <= edits'
    PROVE  IInv'
<1>1. \A m \in Month : source'[m] \in Int /\ source'[m] >= source[m]
  BY TableVersions DEF TypeOK, IInv, Version
<1>2. VersionInv'
  <2>1. ASSUME NEW m \in Month
        PROVE  /\ bucket[m] # None => bucket[m] <= source'[m]
               /\ row.counted[m] # None => row.counted[m] <= source'[m]
    BY <1>1, TableVersions DEF IInv, VersionInv
  <2> QED
    BY <2>1 DEF VersionInv
<1>3. LockHolders' = LockHolders /\ Started' = Started
  BY DEF LockHolders, Started
<1>4. RefreshInv'
  BY <1>1, <1>3, RefreshStable DEF IInv, RefreshInv
<1>5. (ResetInv /\ LockInv /\ ReadModelIsItsTiers)'
  BY <1>3 DEF IInv, ResetInv, LockInv, ReadModelIsItsTiers
<1> QED
  BY <1>2, <1>4, <1>5 DEF IInv

\* A mark leaves the minutes and a reset as they are, or makes a row without minutes.
LEMMA MarkedRow ==
    ASSUME TypeOK, NEW m \in Month \cup {None}, NEW S
    PROVE  LET r == Marked(m, S) IN
           \/ r = row
           \/ /\ r.exists /\ r.dirty /\ r.counted = row.counted /\ r.through = row.through
              /\ r.reset = row.reset /\ (row.dirty /\ row.from = None => r.from = None)
           \/ r.exists /\ r.dirty /\ r.counted = NoTotals /\ ~r.reset
BY DEF Marked, DirtyFrom, NoRow, TypeOK, BalanceRow

LEMMA MarkInv ==
    ASSUME IInv, NEW c \in Caller, Mark(c)
    PROVE  IInv'
<1>1. TypeOK /\ TypeOK'
  BY CallerType DEF IInv
<1>2. UNCHANGED <<source, edits, bucket, worker>> /\ LockHolders' = LockHolders /\ Started' = Started
  BY DEF Mark, LockHolders, Started
<1>3. \/ row' = row
      \/ /\ row'.exists /\ row'.dirty /\ row'.counted = row.counted /\ row'.through = row.through
         /\ row'.reset = row.reset /\ (row.dirty /\ row.from = None => row'.from = None)
      \/ row'.exists /\ row'.dirty /\ row'.counted = NoTotals /\ ~row'.reset
  BY <1>1, CallerStates, MarkedRow DEF Mark
<1>4. VersionInv'
  BY <1>2, <1>3, VersionFacts DEF IInv, VersionInv
<1>5. (ResetInv /\ LockInv /\ ReadModelIsItsTiers)'
  BY <1>2, <1>3 DEF IInv, ResetInv, LockInv, ReadModelIsItsTiers
<1>6. \A m \in Month : source'[m] \in Int /\ source'[m] >= source[m]
  BY <1>1, <1>2, TableVersions
<1>7. RefreshInv'
  BY <1>1, <1>2, <1>3, <1>6, RefreshStable DEF IInv, RefreshInv
<1> QED
  BY <1>1, <1>4, <1>5, <1>7 DEF IInv

\* A requested rebuild waits for the lock and removes all minutes.
LEMMA RebuildInv ==
    ASSUME IInv, RequestRebuild
    PROVE  IInv'
<1>1. TypeOK /\ TypeOK'
  BY RebuildType DEF IInv
<1>2. /\ UNCHANGED <<source, worker>> /\ edits' = edits + 1 /\ bucket' = NoTotals
      /\ LockHolders = {} /\ LockHolders' = {} /\ Started' = Started
      /\ row' = [NoRow EXCEPT !.exists = TRUE, !.dirty = TRUE, !.reset = TRUE, !.after = Started]
  BY DEF RequestRebuild, LockHolders, Started
<1>3. row'.dirty /\ row'.exists /\ row'.from = None /\ row'.counted = NoTotals
  BY <1>2 DEF NoRow
<1>4. VersionInv'
  <2>1. \A m \in Month : source[m] <= edits + 1
    BY <1>1, TableVersions DEF IInv, VersionInv
  <2> QED
    BY <1>2, <1>3, <2>1, VersionFacts DEF VersionInv
<1>5. \A m \in Month : source'[m] \in Int /\ source'[m] >= source[m]
  BY <1>1, <1>2, TableVersions
<1>6. RefreshInv'
  BY <1>1, <1>2, <1>5, RefreshStable DEF IInv, RefreshInv
<1> QED
  BY <1>1, <1>2, <1>3, <1>4, <1>6 DEF IInv, ResetInv, LockInv, ReadModelIsItsTiers

\* A refresh that is listed, starts or fails writes no minutes.
LEMMA OutsideInv ==
    ASSUME IInv, NEW x \in Worker, List(x) \/ Start(x) \/ Fail(x)
    PROVE  IInv'
<1>1. TypeOK /\ TypeOK'
  BY StartType, EndType DEF IInv
<1>2. /\ UNCHANGED <<source, edits, bucket>>
      /\ \A y \in Worker : y # x => worker'[y] = worker[y]
      /\ row'.exists = row.exists /\ row'.dirty = row.dirty /\ row'.from = row.from
      /\ row'.reset = row.reset /\ row'.through = row.through /\ row'.counted = row.counted
  BY <1>1 DEF List, Start, Fail, TypeOK, BalanceRow
<1>3. /\ x \in Started' => Start(x) /\ worker'[x].phase = "started" /\ worker'[x].totals = NoTotals
                                 /\ worker'[x].closed = NoTotals
      /\ x \notin LockHolders'
  BY <1>1 DEF List, Start, Fail, Started, LockHolders, TypeOK, Idle
<1>4. LockHolders' \subseteq LockHolders /\ Started' \subseteq Started \cup {x}
  BY <1>2, <1>3 DEF LockHolders, Started
<1>5. \A m \in Month : source'[m] \in Int /\ source'[m] >= source[m]
  BY <1>1, <1>2, TableVersions
<1>6. RefreshInv'
  <2> SUFFICES ASSUME NEW y \in Started' PROVE RefreshOK(worker[y])'
    BY DEF RefreshInv
  <2>1. CASE y = x
    BY <1>3, <2>1, VersionFacts DEF RefreshOK, Holding
  <2>2. CASE y # x
    <3>1. y \in Worker /\ y \in Started /\ RefreshOK(worker[y])
      BY <1>4, <2>2 DEF IInv, RefreshInv, Started
    <3> QED
      BY <1>1, <1>2, <1>5, <2>2, <3>1, RefreshStable
  <2> QED
    BY <2>1, <2>2
<1>7. VersionInv' /\ ResetInv' /\ ReadModelIsItsTiers'
  BY <1>2 DEF IInv, VersionInv, ResetInv, ReadModelIsItsTiers
<1>8. LockInv'
  BY <1>4 DEF IInv, LockInv
<1> QED
  BY <1>1, <1>6, <1>7, <1>8 DEF IInv

\* A step of the refresh x that only reads: it is enough that what x has read is right,
\* and that the lock is taken by nobody else.
LEMMA ReadingInv ==
    ASSUME IInv, NEW x \in Worker, Lock(x) \/ ComputeClosed(x) \/ ComputeHot(x),
           RefreshOK(worker[x])'
    PROVE  IInv'
<1>1. TypeOK /\ TypeOK'
  BY ReadingType DEF IInv
<1>2. UNCHANGED <<source, edits, bucket, row>> /\ \A y \in Worker : y # x => worker'[y] = worker[y]
  BY <1>1 DEF Lock, ComputeClosed, ComputeHot, TypeOK
<1>3. LockHolders \subseteq {x}
  BY <1>1 DEF Lock, ComputeClosed, ComputeHot, IInv, LockInv, LockHolders
<1>4. LockHolders' \subseteq {x} /\ Started' \subseteq Started \cup {x}
  BY <1>2, <1>3 DEF LockHolders, Started
<1>5. \A m \in Month : source'[m] \in Int /\ source'[m] >= source[m]
  BY <1>1, <1>2, TableVersions
<1>6. RefreshInv'
  <2> SUFFICES ASSUME NEW y \in Started', y # x PROVE RefreshOK(worker[y])'
    BY DEF RefreshInv
  <2>1. y \in Worker /\ y \in Started /\ RefreshOK(worker[y])
    BY <1>4 DEF IInv, RefreshInv, Started
  <2> QED
    BY <1>1, <1>2, <1>5, <2>1, RefreshStable
<1> QED
  BY <1>1, <1>2, <1>4, <1>6 DEF IInv, VersionInv, ResetInv, LockInv, ReadModelIsItsTiers

\* With the lock a refresh learns whether the row was reset before.
LEMMA LockStep ==
    ASSUME IInv, NEW x \in Worker, Lock(x)
    PROVE  IInv'
<1> DEFINE w == worker[x]
<1>1. w \in Refreshing /\ RefreshOK(w)
  BY WorkerStates DEF IInv, RefreshInv, Lock, Started
<1>2. worker'[x] = [w EXCEPT !.phase = "locked", !.force = @ \/ ~row.exists \/ IsResetMarker]
  BY DEF Lock, IInv, TypeOK
<1>3. w.phase = "started" /\ row' = row /\ source' = source
  BY DEF Lock
<1> HIDE DEF w
<1>4. /\ worker'[x].phase = "locked" /\ worker'[x].totals = w.totals /\ worker'[x].closed = w.closed
      /\ row.reset => worker'[x].force
  BY <1>1, <1>2 DEF Refreshing, IInv, ResetInv, IsResetMarker
<1>5. RefreshOK(worker[x])'
  BY <1>1, <1>3, <1>4 DEF RefreshOK, Holding
<1> QED
  BY <1>5, ReadingInv

\* The closed months: all of them when the refresh is forced.
LEMMA ClosedStep ==
    ASSUME IInv, NEW x \in Worker, ComputeClosed(x)
    PROVE  IInv'
<1> DEFINE w == worker[x]
           months == AffectedStart(w)..(HotStart(w.month) - 1)
           t == Read(w, months)
<1>1. w \in Refreshing /\ RefreshOK(w)
  BY WorkerStates DEF IInv, RefreshInv, ComputeClosed, Started
<1>2. worker'[x] = [w EXCEPT !.phase = "closed", !.totals = t]
  BY DEF ComputeClosed, IInv, TypeOK
<1>3. w.phase = "locked" /\ row' = row /\ source' = source
  BY DEF ComputeClosed
<1> HIDE DEF w
<1>4. \A m \in Month : t[m] = IF m \in months THEN source[m] ELSE None
  BY <1>1, <1>3, VersionFacts DEF RefreshOK, Read
<1>5. /\ \A m \in months : m < HotStart(w.month)
      /\ w.force => \A m \in Month : m < HotStart(w.month) => m \in months
  <2>1. HotStart(w.month) \in Int /\ \A m \in Month : m \in Int /\ m >= 1
    BY <1>1, MonthFacts DEF Refreshing
  <2>2. w.force => AffectedStart(w) = 1
    BY DEF AffectedStart
  <2>3. \A m \in months : m <= HotStart(w.month) - 1 /\ m \in Int
    OBVIOUS
  <2> QED
    BY <2>1, <2>2, <2>3
<1> HIDE DEF t, months
<1>6. \A m \in Month : source[m] # None /\ source[m] <= source[m]
  BY TableVersions, NullAssumption DEF IInv
<1>7. /\ worker'[x].phase = "closed" /\ worker'[x].totals = t /\ worker'[x].closed = w.closed
      /\ worker'[x].force = w.force /\ worker'[x].month = w.month
  BY <1>1, <1>2 DEF Refreshing
<1>8. RefreshOK(worker[x])'
  BY <1>1, <1>3, <1>4, <1>5, <1>6, <1>7 DEF RefreshOK, Holding
<1> QED
  BY <1>8, ReadingInv

\* The hot window, which is at least as new as the row, and the sum of the closed months.
LEMMA HotStep ==
    ASSUME IInv, NEW x \in Worker, ComputeHot(x)
    PROVE  IInv'
<1> DEFINE w == worker[x]
           months == HotStart(w.month)..w.month
           t == Read(w, months)
           b == [m \in Month |-> IF m < HotStart(w.month) THEN Buckets(w)[m] ELSE None]
           v == [w EXCEPT !.phase = "computed", !.totals = t, !.closed = b]
<1>1. w \in Refreshing /\ RefreshOK(w)
  BY WorkerStates DEF IInv, RefreshInv, ComputeHot, Started
<1>2. worker'[x] = v
  BY DEF ComputeHot, IInv, TypeOK
<1>3. w.phase = "closed" /\ row' = row /\ source' = source /\ bucket' = bucket
  BY DEF ComputeHot
<1> HIDE DEF w
<1>4. /\ v.phase = "computed" /\ v.totals = t /\ v.closed = b
      /\ v.force = w.force /\ v.month = w.month
  BY <1>1 DEF Refreshing
<1>5. \A m \in Month : t[m] = IF m \in months THEN source[m] ELSE w.totals[m]
  BY DEF Read
<1>6. \A m \in Month : (m \in months <=> HotStart(w.month) <= m /\ m <= w.month)
                       /\ (m < HotStart(w.month) \/ HotStart(w.month) <= m)
  BY <1>1, MonthFacts DEF Refreshing
<1>7. \A m \in Month : m < HotStart(w.month) => t[m] = w.totals[m]
  BY <1>1, <1>5, <1>6, MonthFacts DEF Refreshing
<1>8. \A m \in Month : Buckets(v)[m] = IF m < HotStart(w.month) THEN Buckets(w)[m] ELSE bucket[m]
  BY <1>4, <1>7 DEF Buckets
<1>9. \A m \in Month : b[m] = IF m < HotStart(w.month) THEN Buckets(w)[m] ELSE None
  OBVIOUS
<1>10. \A m \in Month : /\ bucket[m] # None => bucket[m] <= source[m]
                        /\ row.counted[m] # None => row.counted[m] <= source[m]
                        /\ w.totals[m] # None => w.totals[m] <= source[m]
                        /\ source[m] # None /\ source[m] <= source[m]
  BY <1>1, TableVersions, NullAssumption DEF IInv, VersionInv, RefreshOK
<1>11. \A m \in Month : Buckets(w)[m] # None => Buckets(w)[m] <= source[m]
  BY <1>10 DEF Buckets
<1>12. \A m \in Month : IF m < HotStart(w.month) THEN w.force => w.totals[m] # None
                        ELSE w.totals[m] = None
  BY <1>1, <1>3 DEF RefreshOK
<1> HIDE DEF t, b, months
<1>13. /\ \A m \in Month : t[m] # None => t[m] <= source[m]
       /\ \A m \in Month : b[m] # None => b[m] <= source[m]
  BY <1>5, <1>9, <1>10, <1>11
<1>14. \A m \in Month :
          IF m < HotStart(w.month)
          THEN (w.force => t[m] # None) /\ b[m] = Buckets(v)[m]
          ELSE /\ m <= w.month => t[m] # None
               /\ t[m] # None /\ row.counted[m] # None => row.counted[m] <= t[m]
  BY <1>5, <1>6, <1>7, <1>8, <1>9, <1>10, <1>12
<1>15. row.reset => w.force
  BY <1>1, <1>3 DEF RefreshOK, Holding
<1> HIDE DEF v
<1>16. Buckets(worker[x])' = Buckets(v)
  BY <1>2, <1>3 DEF Buckets
<1>17. RefreshOK(worker[x])'
  BY <1>2, <1>3, <1>4, <1>13, <1>14, <1>15, <1>16 DEF RefreshOK, Holding
<1> QED
  BY <1>17, ReadingInv

\* The end of a refresh: its period rows and its row are written together, and no other
\* refresh holds the lock.
LEMMA UpsertInv ==
    ASSUME IInv, NEW x \in Worker, Upsert(x)
    PROVE  IInv'
<1> DEFINE w == worker[x]
<1>1. TypeOK /\ TypeOK'
  BY EndType DEF IInv
<1>2. w \in Refreshing /\ RefreshOK(w) /\ LockHolders = {x} /\ w.phase = "computed"
  BY <1>1, WorkerStates DEF IInv, RefreshInv, LockInv, Upsert, Started, LockHolders
<1>3. /\ UNCHANGED <<source, edits>> /\ bucket' = Buckets(w) /\ worker'[x].phase = "idle"
      /\ \A y \in Worker : y # x => worker'[y] = worker[y]
      /\ (row' = row /\ row.dirty) \/ row' = Refreshed(w)
  BY <1>1 DEF Upsert, KeepsRequest, TypeOK, Idle
<1>4. LockHolders' = {} /\ Started' \subseteq Started \ {x}
  BY <1>2, <1>3 DEF LockHolders, Started
<1>5. \A m \in Month : source'[m] \in Int /\ source'[m] >= source[m]
  BY <1>1, <1>3, TableVersions
<1>6. RefreshInv'
  <2> SUFFICES ASSUME NEW y \in Started' PROVE RefreshOK(worker[y])'
    BY DEF RefreshInv
  <2>1. y \in Worker /\ y # x /\ y \in Started /\ y \notin LockHolders /\ RefreshOK(worker[y])
    BY <1>2, <1>4 DEF IInv, RefreshInv, Started
  <2> QED
    BY <1>1, <1>3, <1>5, <2>1, RefreshStable
<1> HIDE DEF w
<1>7. \A m \in Month : bucket'[m] # None => bucket'[m] <= source[m]
  <2>1. \A m \in Month : Buckets(w)[m] \in {w.totals[m], bucket[m]}
    BY DEF Buckets
  <2> QED
    BY <1>2, <1>3, <2>1 DEF IInv, VersionInv, RefreshOK
<1>8. \A m \in Month : row'.counted[m] # None => row'.counted[m] <= source[m]
  <2>1. \A m \in Month : Refreshed(w).counted[m] \in {w.closed[m], w.totals[m]}
    BY DEF Refreshed
  <2> QED
    BY <1>2, <1>3, <2>1 DEF IInv, VersionInv, RefreshOK
<1>9. VersionInv'
  BY <1>3, <1>7, <1>8 DEF IInv, VersionInv
<1>10. ReadModelIsItsTiers'
  <2> SUFFICES ASSUME row' = Refreshed(w), NEW m \in Month, m < HotStart(row'.through)
               PROVE  row'.counted[m] = bucket'[m]
    BY <1>3 DEF ReadModelIsItsTiers
  <2>1. row'.through = w.month /\ row'.counted[m] = w.closed[m]
    BY DEF Refreshed
  <2> QED
    BY <1>2, <1>3, <2>1 DEF RefreshOK
<1>11. ResetInv'
  BY <1>3 DEF IInv, ResetInv, Refreshed
<1> QED
  BY <1>1, <1>4, <1>6, <1>9, <1>10, <1>11 DEF IInv, LockInv

LEMMA NextInv == IInv /\ [Next]_vars => IInv'
<1> SUFFICES ASSUME IInv, [Next]_vars PROVE IInv'
  OBVIOUS
<1>1. TypeOK /\ VersionInv
  BY DEF IInv
<1>2. \A m \in Month : source[m] <= source[m] /\ source[m] <= edits
  BY <1>1, TableVersions DEF VersionInv
<1>3. ASSUME NEW c \in Caller, ChangePolicy(c) \/ \E m \in Month : ChangeMonth(c, m) PROVE IInv'
  <2>1. UNCHANGED <<bucket, row, worker>>
    BY <1>3 DEF ChangePolicy, ChangeMonth
  <2> QED
    BY <1>1, <1>3, <2>1, ChangeType, QuietInv
<1>4. ASSUME NEW c \in Caller, Stamp(c) \/ ForgetMark(c) PROVE IInv'
  <2>1. UNCHANGED <<source, edits, bucket, row, worker>>
    BY <1>4 DEF Stamp, ForgetMark
  <2> QED
    BY <1>1, <1>2, <1>4, <2>1, CallerType, QuietInv
<1>5. CASE NextMonth
  <2>1. UNCHANGED <<source, edits, bucket, row, worker>>
    BY <1>5 DEF NextMonth
  <2>2. TypeOK'
    BY <1>1, <1>5, MonthsAssumption DEF NextMonth, TypeOK, Month
  <2> QED
    BY <1>2, <2>1, <2>2, QuietInv
<1>6. CASE UNCHANGED vars
  <2>1. TypeOK' /\ UNCHANGED <<source, edits, bucket, row, worker>>
    BY <1>1, <1>6 DEF vars, TypeOK
  <2> QED
    BY <1>2, <2>1, QuietInv
<1> QED
  BY <1>3, <1>4, <1>5, <1>6, MarkInv, RebuildInv, OutsideInv, LockStep, ClosedStep, HotStep, UpsertInv
     DEF Next, Continue

-----------------------------------------------------------------------------
(***************************************************************************)
(* The months that are current.                                            *)
(***************************************************************************)

\* Somebody will have the month m recomputed: the row asks for it or a call owes it.
Expected(m) == Asks(row, m) \/ \E c \in Caller : Owes(c, m)

\* And when the refresh x ends, it will see that this was asked for after it started.
Told(x, m) ==
    \/ Asks(row, m) /\ x \in row.after
    \/ \E c \in Caller : Owes(c, m) /\ (caller[c].phase = "stamped" => x \in caller[c].after)

\* A change that its call has not taken a timestamp for: every refresh will be told.
Fresh(m) == \E c \in Caller : Owes(c, m) /\ caller[c].phase = "changed"

\* What the row counts, what the period rows hold and what a refresh has read is as the
\* source rows are, or will be recomputed: of a month that was not missed.
CurrentInv ==
    /\ row.dirty => row.exists
    /\ \A m \in Month \ missed :
         /\ m <= row.through => row.counted[m] = source[m] \/ Expected(m)
         /\ m < HotStart(row.through) => bucket[m] = source[m] \/ Expected(m)
         /\ \A x \in Started : worker[x].totals[m] # None =>
               worker[x].totals[m] = source[m] \/ Told(x, m)

LEMMA CurrentInvCurrent == TypeOK /\ CurrentInv => BalanceIsCurrent
<1> SUFFICES ASSUME TypeOK, CurrentInv, NEW m \in (1..row.through) \ missed
             PROVE  row.counted[m] = source[m] \/ Asks(row, m) \/ \E c \in Caller : Owes(c, m)
  BY DEF BalanceIsCurrent
<1>1. m \in Month /\ m <= row.through
  BY MonthsAssumption DEF TypeOK, BalanceRow, Month
<1> QED
  BY <1>1 DEF CurrentInv, Expected

\* Steps that keep what is expected and write no minutes, or leave a row that asks for
\* all it claims.  A refresh may have read months as they are, or forgotten them.
LEMMA CurrentStable ==
    ASSUME TypeOK, CurrentInv, TypeOK', row'.dirty => row'.exists,
           missed \subseteq missed',
           \/ bucket' = bucket /\ row'.counted = row.counted /\ row'.through = row.through
           \/ \A m \in Month \ missed' : m <= row'.through => Asks(row', m),
           \A m \in Month \ missed' : source'[m] = source[m] \/ Fresh(m)',
           \A m \in Month \ missed' : Expected(m) => Expected(m)',
           \A x \in Started' :
              \/ worker'[x].totals = NoTotals
              \/ /\ x \in Started
                 /\ \A m \in Month \ missed' :
                      /\ Told(x, m) => Told(x, m)'
                      /\ worker'[x].totals[m] \in {worker[x].totals[m], source[m], None}
    PROVE  CurrentInv'
<1>1. \A m \in Month : Fresh(m)' => Expected(m)' /\ \A x \in Worker : Told(x, m)'
  BY DEF Fresh, Expected, Told
<1>2. \A m \in Month : m < HotStart(row'.through) => m <= row'.through
  <2>1. row'.through \in 0..MaxMonth
    BY DEF TypeOK, BalanceRow
  <2> QED
    BY <2>1, MonthsAssumption DEF HotStart, Month
<1> SUFFICES ASSUME NEW m \in Month, m \notin missed'
             PROVE  /\ m <= row'.through => row'.counted[m] = source'[m] \/ Expected(m)'
                    /\ m < HotStart(row'.through) => bucket'[m] = source'[m] \/ Expected(m)'
                    /\ \A x \in Started' : worker'[x].totals[m] # None =>
                         worker'[x].totals[m] = source'[m] \/ Told(x, m)'
  BY DEF CurrentInv
<1>3. m \in Month \ missed /\ m \in Month \ missed'
  OBVIOUS
<1>4. /\ m <= row.through => row.counted[m] = source[m] \/ Expected(m)
      /\ m < HotStart(row.through) => bucket[m] = source[m] \/ Expected(m)
      /\ \A x \in Started : worker[x].totals[m] # None =>
            worker[x].totals[m] = source[m] \/ Told(x, m)
  BY <1>3 DEF CurrentInv
<1>5. Asks(row', m) => Expected(m)'
  BY DEF Expected
<1>6. /\ m <= row'.through => row'.counted[m] = source'[m] \/ Expected(m)'
      /\ m < HotStart(row'.through) => bucket'[m] = source'[m] \/ Expected(m)'
  BY <1>1, <1>2, <1>3, <1>4, <1>5
<1>7. ASSUME NEW x \in Started', worker'[x].totals[m] # None
      PROVE  worker'[x].totals[m] = source'[m] \/ Told(x, m)'
  <2>1. x \in Worker
    BY DEF Started
  <2> QED
    BY <1>1, <1>3, <1>4, <1>7, <2>1, VersionFacts
<1> QED
  BY <1>6, <1>7

\* A change is owed by its call from the moment it commits.
LEMMA ChangeCurrent ==
    ASSUME TypeOK, CurrentInv, TypeOK', NEW c \in Caller,
           ChangePolicy(c) \/ \E m \in Month : ChangeMonth(c, m)
    PROVE  CurrentInv'
<1>1. /\ UNCHANGED <<bucket, row, worker, missed>>
      /\ caller[c].phase = "idle" /\ caller'[c].phase = "changed"
      /\ \A d \in Caller : d # c => caller'[d] = caller[d]
      /\ Started' = Started
  BY DEF ChangePolicy, ChangeMonth, TypeOK, Started
<1>2. \A m \in Month : source'[m] = source[m] \/ Owes(c, m)'
  BY MonthFacts DEF ChangePolicy, ChangeMonth, TypeOK, Owes
<1>3. \A m \in Month : \A d \in Caller : Owes(d, m) => Owes(d, m)' /\ caller'[d] = caller[d]
  BY <1>1 DEF Owes
<1>4. \A m \in Month : /\ Asks(row', m) <=> Asks(row, m)
                       /\ Expected(m) => Expected(m)'
                       /\ \A x \in Started : Told(x, m) => Told(x, m)'
                       /\ source'[m] = source[m] \/ Fresh(m)'
  BY <1>1, <1>2, <1>3 DEF Asks, Expected, Told, Fresh
<1>5. row'.dirty => row'.exists
  BY <1>1 DEF CurrentInv
<1> QED
  BY <1>1, <1>4, <1>5, CurrentStable

\* A timestamp is newer than every refresh that has started.
LEMMA StampCurrent ==
    ASSUME TypeOK, CurrentInv, TypeOK', NEW c \in Caller, Stamp(c)
    PROVE  CurrentInv'
<1>1. /\ UNCHANGED <<source, bucket, row, worker, missed>>
      /\ caller[c].phase = "changed"
      /\ caller'[c] = [phase |-> "stamped", from |-> caller[c].from, after |-> Started]
      /\ \A d \in Caller : d # c => caller'[d] = caller[d]
      /\ Started' = Started
  BY DEF Stamp, TypeOK, Started
<1>2. /\ caller'[c].phase = "stamped" /\ caller'[c].from = caller[c].from
      /\ caller'[c].after = Started
  BY <1>1
<1>3. \A m \in Month : \A d \in Caller : Owes(d, m) => Owes(d, m)'
  BY <1>1, <1>2 DEF Owes
<1>4. \A x \in Started : \A d \in Caller :
         (caller[d].phase = "stamped" => x \in caller[d].after)
            => (caller'[d].phase = "stamped" => x \in caller'[d].after)
  BY <1>1, <1>2
<1>5. \A m \in Month : /\ Expected(m) => Expected(m)'
                       /\ \A x \in Started : Told(x, m) => Told(x, m)'
  BY <1>1, <1>3, <1>4 DEF Asks, Expected, Told
<1>6. row'.dirty => row'.exists
  BY <1>1 DEF CurrentInv
<1> QED
  BY <1>1, <1>5, <1>6, CurrentStable

\* The months that a forgotten call owed are missed.
LEMMA ForgetCurrent ==
    ASSUME TypeOK, CurrentInv, TypeOK', NEW c \in Caller, ForgetMark(c)
    PROVE  CurrentInv'
<1>1. /\ UNCHANGED <<source, bucket, row, worker>>
      /\ missed' = missed \cup {m \in Month : Owes(c, m)}
      /\ \A d \in Caller : d # c => caller'[d] = caller[d]
      /\ Started' = Started
  BY DEF ForgetMark, TypeOK, Started
<1>2. \A m \in Month \ missed' : \A d \in Caller :
         Owes(d, m) => Owes(d, m)' /\ caller'[d] = caller[d]
  BY <1>1 DEF Owes
<1>3. \A m \in Month \ missed' : /\ Expected(m) => Expected(m)'
                                 /\ \A x \in Started : Told(x, m) => Told(x, m)'
  BY <1>1, <1>2 DEF Asks, Expected, Told
<1>4. row'.dirty => row'.exists
  BY <1>1 DEF CurrentInv
<1> QED
  BY <1>1, <1>3, <1>4, CurrentStable

\* A mark adds to what the row asks for, with the timestamp of its call.
LEMMA MarkedAsks ==
    ASSUME TypeOK, row.dirty => row.exists, NEW d \in Month \cup {None}, NEW S
    PROVE  LET r == Marked(d, S) IN
           /\ r.dirty => r.exists
           /\ \A m \in Month : Asks(row, m) => Asks(r, m)
           /\ (r = row /\ ~row.exists) \/ r.after = S
           /\ \/ r.counted = row.counted /\ r.through = row.through
              \/ ~row.exists /\ d # None /\ r.through = d /\ r.from = d /\ r.dirty
<1>1. d # None => d \in Int
  BY MonthFacts
<1>2. row.from # None => row.from \in Int
  BY MonthFacts DEF TypeOK, BalanceRow
<1>3. \A m \in Month : m \in Int
  BY MonthFacts
<1>4. CASE row.exists /\ d # None
  <2>1. Marked(d, S) = [row EXCEPT !.dirty = TRUE, !.after = S, !.from = DirtyFrom(d)]
    BY <1>4 DEF Marked
  <2>2. \A m \in Month : Asks(row, m) => DirtyFrom(d) = None \/ DirtyFrom(d) <= m
    BY <1>1, <1>2, <1>3 DEF Asks, DirtyFrom
  <2> QED
    BY <1>4, <2>1, <2>2 DEF Asks, TypeOK, BalanceRow
<1>5. CASE row.exists /\ d = None
  <2>1. Marked(d, S) = [row EXCEPT !.dirty = TRUE, !.after = S]
    BY <1>5 DEF Marked
  <2> QED
    BY <1>5, <2>1 DEF Asks, TypeOK, BalanceRow
<1>6. CASE ~row.exists /\ d # None
  <2>1. Marked(d, S) = [NoRow EXCEPT !.exists = TRUE, !.dirty = TRUE, !.from = d,
                                     !.through = d, !.after = S]
    BY <1>6 DEF Marked
  <2> QED
    BY <1>6, <2>1 DEF Asks, NoRow
<1>7. CASE ~row.exists /\ d = None
  <2>1. Marked(d, S) = row
    BY <1>7 DEF Marked
  <2> QED
    BY <1>7, <2>1
<1> QED
  BY <1>4, <1>5, <1>6, <1>7

\* What the row asked for and what the call owed is asked for now, and each refresh under
\* way is told: the months for which this is not so are missed.
LEMMA MarkCurrent ==
    ASSUME TypeOK, CurrentInv, TypeOK', NEW c \in Caller, Mark(c)
    PROVE  CurrentInv'
<1> DEFINE d == caller[c].from
           S == caller[c].after
           r == Marked(d, S)
<1>1. /\ UNCHANGED <<source, bucket, worker>> /\ row' = r /\ caller[c].phase = "stamped"
      /\ missed' = missed \cup NotAskedFor(c) \cup NotCounted(c) \cup ToldTooEarly(c)
      /\ \A e \in Caller : e # c => caller'[e] = caller[e]
      /\ Started' = Started
  BY DEF Mark, TypeOK, Started
<1>2. d \in Month \cup {None}
  BY <1>1, CallerStates
<1>3. /\ r.dirty => r.exists
      /\ \A m \in Month : Asks(row, m) => Asks(r, m)
      /\ (r = row /\ ~row.exists) \/ r.after = S
      /\ \/ r.counted = row.counted /\ r.through = row.through
         \/ ~row.exists /\ d # None /\ r.through = d /\ r.from = d /\ r.dirty
  <2>1. row.dirty => row.exists
    BY DEF CurrentInv
  <2> QED
    BY <1>2, <2>1, MarkedAsks
<1>4. \A m \in Month \ missed' :
         /\ Owes(c, m) => Asks(r, m)
         /\ ~row.exists /\ d # None => ~(m < d)
         /\ Asks(row, m) => row.after \cap Started \subseteq S
  BY <1>1 DEF NotAskedFor, NotCounted, ToldTooEarly
<1> HIDE DEF r
<1>5. ~row.exists /\ d # None /\ r.from = d /\ r.dirty => \A m \in Month \ missed' : Asks(r, m)
  BY <1>2, <1>4, MonthFacts DEF Asks
<1>6. \A m \in Month \ missed' : Expected(m) => Expected(m)'
  BY <1>1, <1>3, <1>4 DEF Expected, Owes
<1>7. ASSUME NEW m \in Month \ missed', NEW x \in Started, Told(x, m)
      PROVE  Told(x, m)'
  <2>1. CASE Asks(row, m) /\ x \in row.after
    <3>1. Asks(r, m) /\ x \in r.after
      BY <1>3, <1>4, <2>1
    <3> QED
      BY <1>1, <3>1 DEF Told
  <2>2. CASE Owes(c, m) /\ x \in S
    <3>1. Asks(r, m)
      BY <1>4, <2>2
    <3>2. r.after = S
      BY <1>3, <3>1 DEF Asks
    <3> QED
      BY <1>1, <2>2, <3>1, <3>2 DEF Told
  <2>3. ASSUME NEW e \in Caller, e # c, Owes(e, m), caller[e].phase = "stamped" => x \in caller[e].after
        PROVE  Told(x, m)'
    BY <1>1, <2>3 DEF Told, Owes
  <2> QED
    BY <1>1, <1>7, <2>1, <2>2, <2>3 DEF Told
<1> QED
  BY <1>1, <1>3, <1>5, <1>6, <1>7, CurrentStable

\* A rebuild claims no month, and asks for all.
LEMMA RebuildCurrent ==
    ASSUME TypeOK, CurrentInv, TypeOK', RequestRebuild
    PROVE  CurrentInv'
<1>1. /\ UNCHANGED <<source, caller, worker>> /\ Started' = Started
      /\ row' = [NoRow EXCEPT !.exists = TRUE, !.dirty = TRUE, !.reset = TRUE, !.after = Started]
  BY DEF RequestRebuild, Started
<1>2. row'.exists /\ row'.dirty /\ row'.from = None /\ row'.after = Started
  BY <1>1 DEF NoRow
<1>3. \A m \in Month : Asks(row', m)
  BY <1>2 DEF Asks
<1>4. \A m \in Month : Expected(m)' /\ \A x \in Started : Told(x, m)'
  BY <1>1, <1>2, <1>3 DEF Expected, Told
<1> QED
  BY <1>1, <1>2, <1>4 DEF CurrentInv

\* A refresh is only told of what is asked for after its start, and then it has read nothing.
LEMMA StartCurrent ==
    ASSUME TypeOK, CurrentInv, TypeOK', NEW x \in Worker, Start(x)
    PROVE  CurrentInv'
<1>1. /\ UNCHANGED <<source, bucket, missed>>
      /\ worker'[x].totals = NoTotals
      /\ \A y \in Worker : y # x => worker'[y] = worker[y]
      /\ row' = [row EXCEPT !.after = @ \ {x}]
  BY DEF Start, TypeOK
<1>2. /\ row'.exists = row.exists /\ row'.dirty = row.dirty /\ row'.from = row.from
      /\ row'.through = row.through /\ row'.counted = row.counted /\ row'.after = row.after \ {x}
  BY <1>1 DEF TypeOK, BalanceRow
<1>3. \A d \in Caller :
         /\ caller'[d].phase = caller[d].phase
         /\ caller[d].phase # "idle" => caller'[d].from = caller[d].from
         /\ caller[d].phase = "stamped" => caller'[d].after = caller[d].after \ {x}
  <2> SUFFICES ASSUME NEW d \in Caller
               PROVE  /\ caller'[d].phase = caller[d].phase
                      /\ caller[d].phase # "idle" => caller'[d].from = caller[d].from
                      /\ caller[d].phase = "stamped" => caller'[d].after = caller[d].after \ {x}
    OBVIOUS
  <2>1. caller'[d] = IF caller[d].phase = "stamped" THEN [caller[d] EXCEPT !.after = @ \ {x}]
                     ELSE caller[d]
    BY DEF Start
  <2> QED
    BY <2>1, CallerStates
<1>4. \A m \in Month : /\ Asks(row', m) <=> Asks(row, m)
                       /\ \A d \in Caller : Owes(d, m)' <=> Owes(d, m)
  BY <1>2, <1>3 DEF Asks, Owes
<1>5. \A m \in Month : Expected(m) => Expected(m)'
  BY <1>4 DEF Expected
<1>6. \A m \in Month : \A y \in Worker : y # x /\ Told(y, m) => Told(y, m)'
  BY <1>2, <1>3, <1>4 DEF Told
<1>7. \A y \in Started' : y \in Worker /\ (y # x => y \in Started)
  BY <1>1 DEF Started
<1>8. row'.dirty => row'.exists
  BY <1>2 DEF CurrentInv
<1> QED
  BY <1>1, <1>2, <1>5, <1>6, <1>7, <1>8, CurrentStable

\* A refresh reads the months as they are.
LEMMA ReadingCurrent ==
    ASSUME TypeOK, CurrentInv, TypeOK', NEW x \in Worker,
           Lock(x) \/ ComputeClosed(x) \/ ComputeHot(x)
    PROVE  CurrentInv'
<1> DEFINE w == worker[x]
<1>1. /\ UNCHANGED <<source, bucket, row, caller, missed>> /\ x \in Started
      /\ \A y \in Worker : y # x => worker'[y] = worker[y]
  BY DEF Lock, ComputeClosed, ComputeHot, TypeOK, Started
<1>2. w \in Refreshing
  BY <1>1, WorkerStates DEF Started
<1>3. \A m \in Month : worker'[x].totals[m] \in {w.totals[m], source[m], None}
  <2>1. CASE Lock(x)
    <3>1. worker'[x] = [w EXCEPT !.phase = "locked", !.force = @ \/ ~row.exists \/ IsResetMarker]
      BY <2>1 DEF Lock, TypeOK
    <3> HIDE DEF w
    <3> QED
      BY <1>2, <3>1 DEF Refreshing
  <2>2. ASSUME NEW S, NEW t, t = Read(w, S), worker'[x].totals = t
        PROVE  \A m \in Month : worker'[x].totals[m] \in {w.totals[m], source[m], None}
    BY <2>2 DEF Read
  <2>3. CASE ComputeClosed(x)
    <3> DEFINE t == Read(w, AffectedStart(w)..(HotStart(w.month) - 1))
    <3>1. worker'[x] = [w EXCEPT !.phase = "closed", !.totals = t]
      BY <2>3 DEF ComputeClosed, TypeOK
    <3> HIDE DEF w, t
    <3>2. worker'[x].totals = t
      BY <1>2, <3>1 DEF Refreshing
    <3> QED
      BY <2>2, <3>2 DEF t
  <2>4. CASE ComputeHot(x)
    <3> DEFINE t == Read(w, HotStart(w.month)..w.month)
               b == [m \in Month |-> IF m < HotStart(w.month) THEN Buckets(w)[m] ELSE None]
    <3>1. worker'[x] = [w EXCEPT !.phase = "computed", !.totals = t, !.closed = b]
      BY <2>4 DEF ComputeHot, TypeOK
    <3> HIDE DEF w, t, b
    <3>2. worker'[x].totals = t
      BY <1>2, <3>1 DEF Refreshing
    <3> QED
      BY <2>2, <3>2 DEF t
  <2> QED
    BY <2>1, <2>3, <2>4
<1>4. \A m \in Month : /\ Expected(m) => Expected(m)'
                       /\ \A y \in Started : Told(y, m) => Told(y, m)'
  BY <1>1 DEF Expected, Told, Asks, Owes
<1>5. \A y \in Started' : y \in Started /\ \A m \in Month :
         worker'[y].totals[m] \in {worker[y].totals[m], source[m], None}
  BY <1>1, <1>3 DEF Started
<1>6. row'.dirty => row'.exists
  BY <1>1 DEF CurrentInv
<1> QED
  BY <1>1, <1>4, <1>5, <1>6, CurrentStable

\* Steps that change neither the tables, nor what is owed, nor what a refresh has read.
LEMMA QuietCurrent ==
    ASSUME TypeOK, CurrentInv, TypeOK', UNCHANGED <<source, bucket, row, caller, missed>>,
           \A x \in Started' : x \in Started /\ worker'[x] = worker[x]
    PROVE  CurrentInv'
<1>1. \A m \in Month : /\ Expected(m) => Expected(m)'
                       /\ \A x \in Started : Told(x, m) => Told(x, m)'
  BY DEF Expected, Told, Asks, Owes
<1>2. row'.dirty => row'.exists
  BY DEF CurrentInv
<1> QED
  BY <1>1, <1>2, CurrentStable

\* The end of a refresh that clears the row: nothing was asked for after its start, so what
\* it read is current or owed by a call; the months it has not read are in period rows that
\* were current before, or missed.
LEMMA UpsertCurrent ==
    ASSUME IInv, CurrentInv, TypeOK', NEW x \in Worker, Upsert(x)
    PROVE  CurrentInv'
<1> DEFINE w == worker[x]
<1>1. w \in Refreshing /\ RefreshOK(w) /\ LockHolders = {x} /\ w.phase = "computed" /\ x \in Started
  BY WorkerStates DEF IInv, RefreshInv, LockInv, Upsert, Started, LockHolders
<1>2. /\ UNCHANGED <<source, caller>> /\ bucket' = Buckets(w)
      /\ \A y \in Worker : y # x => worker'[y] = worker[y]
      /\ worker'[x].phase = "idle"
      /\ IF KeepsRequest(x) THEN row' = row /\ missed' = missed
         ELSE /\ row' = Refreshed(w)
              /\ missed' = (missed \ CountedAsIs(w)) \cup PassedOver(x)
  BY DEF Upsert, IInv, TypeOK, Idle
<1>3. \A y \in Started' : worker'[y].totals = NoTotals
  <2> SUFFICES ASSUME NEW y \in Started' PROVE worker'[y].totals = NoTotals
    OBVIOUS
  <2>1. y \in Worker /\ y # x /\ y \in Started /\ worker'[y] = worker[y]
    BY <1>2 DEF Started
  <2>2. worker[y].phase = "started"
    BY <1>1, <2>1, WorkerStates DEF IInv, LockHolders, Started, Holding
  <2> QED
    BY <2>1, <2>2 DEF IInv, RefreshInv, RefreshOK
<1>4. row'.dirty => row'.exists
  BY <1>2 DEF CurrentInv, Refreshed
<1> SUFFICES ASSUME NEW m \in Month, m \notin missed'
             PROVE  /\ m <= row'.through => row'.counted[m] = source[m] \/ Expected(m)'
                    /\ m < HotStart(row'.through) => bucket'[m] = source[m] \/ Expected(m)'
  BY <1>2, <1>3, <1>4, VersionFacts DEF CurrentInv
<1>5. m \notin missed =>
         /\ m <= row.through => row.counted[m] = source[m] \/ Expected(m)
         /\ m < HotStart(row.through) => bucket[m] = source[m] \/ Expected(m)
         /\ w.totals[m] # None => w.totals[m] = source[m] \/ Told(x, m)
  BY <1>1 DEF CurrentInv
<1>6. Told(x, m) => Expected(m)
  BY DEF Told, Expected
<1>7. Expected(m) /\ ~Asks(row, m) => Expected(m)'
  BY <1>2 DEF Expected, Owes
<1>8. /\ w.closed[m] = bucket'[m] \/ ~(m < HotStart(w.month))
      /\ bucket'[m] = IF m < HotStart(w.month) /\ w.totals[m] # None THEN w.totals[m] ELSE bucket[m]
      /\ m <= w.month /\ w.totals[m] = None => m < HotStart(w.month)
  BY <1>1, <1>2 DEF RefreshOK, Buckets
<1>9. CASE KeepsRequest(x)
  <2>1. m \notin missed /\ (Expected(m) => Expected(m)')
    BY <1>2, <1>9 DEF Expected, Owes
  <2> QED
    BY <1>2, <1>5, <1>6, <1>8, <1>9, <2>1
<1>10. CASE ~KeepsRequest(x)
  <2>1. Told(x, m) => Expected(m)'
    BY <1>2, <1>10 DEF Told, Expected, KeepsRequest, Asks, Owes
  <2>2. row'.through = w.month
        /\ row'.counted[m] = IF m < HotStart(w.month) THEN w.closed[m] ELSE w.totals[m]
    BY <1>2, <1>10 DEF Refreshed
  <2>3. m \in missed => row'.counted[m] = source[m]
    BY <1>2, <1>10 DEF CountedAsIs
  <2>4. CASE w.totals[m] # None
    BY <1>5, <1>8, <2>1, <2>2, <2>3, <2>4
  <2>5. CASE w.totals[m] = None /\ m <= w.month
    <3>1. m \in 1..w.month /\ w.month \in Int /\ m \in Int
      BY <1>1, <2>5, MonthFacts DEF Refreshing
    <3>2. ~Asks(row, m) /\ ~(m >= HotStart(row.through))
      BY <1>2, <1>10, <2>5, <3>1 DEF PassedOver
    <3>3. HotStart(row.through) \in Int
      BY MonthFacts DEF IInv, TypeOK, BalanceRow
    <3>4. m \notin missed => bucket[m] = source[m] \/ Expected(m)'
      BY <1>5, <1>7, <3>1, <3>2, <3>3
    <3> QED
      BY <1>8, <2>2, <2>3, <2>5, <3>4
  <2>6. CASE ~(m <= w.month)
    <3>1. HotStart(w.month) <= w.month /\ HotStart(w.month) \in Int /\ w.month \in Int /\ m \in Int
      BY <1>1, MonthFacts DEF Refreshing
    <3> QED
      BY <2>2, <2>6, <3>1
  <2> QED
    BY <2>4, <2>5, <2>6
<1> QED
  BY <1>9, <1>10

LEMMA InitCurrent == Init => CurrentInv
BY MonthsAssumption DEF Init, CurrentInv, NoRow, Started, Idle, HotStart, Month

LEMMA NextCurrent == IInv /\ CurrentInv /\ [Next]_vars => CurrentInv'
<1> SUFFICES ASSUME IInv, CurrentInv, [Next]_vars PROVE CurrentInv'
  OBVIOUS
<1>1. TypeOK /\ TypeOK'
  BY NextInv DEF IInv
<1>2. ASSUME NEW x \in Worker, List(x) \/ Fail(x) PROVE CurrentInv'
  <2>1. /\ UNCHANGED <<source, bucket, row, caller, missed>>
        /\ worker'[x].phase \in {"listed", "idle"}
        /\ \A y \in Worker : y # x => worker'[y] = worker[y]
    BY <1>1, <1>2 DEF List, Fail, TypeOK, Idle
  <2>2. \A y \in Started' : y \in Started /\ worker'[y] = worker[y]
    BY <2>1 DEF Started
  <2> QED
    BY <1>1, <2>1, <2>2, QuietCurrent
<1>3. CASE NextMonth \/ UNCHANGED vars
  <2>1. UNCHANGED <<source, bucket, row, caller, missed, worker>>
    BY <1>3 DEF NextMonth, vars
  <2>2. \A y \in Started' : y \in Started /\ worker'[y] = worker[y]
    BY <2>1 DEF Started
  <2> QED
    BY <1>1, <2>1, <2>2, QuietCurrent
<1> QED
  BY <1>1, <1>2, <1>3, ChangeCurrent, StampCurrent, ForgetCurrent, MarkCurrent, RebuildCurrent,
     StartCurrent, ReadingCurrent, UpsertCurrent
     DEF Next, Continue

-----------------------------------------------------------------------------
(***************************************************************************)
(* The theorems.                                                           *)
(***************************************************************************)

\* Every variable of the work balance keeps its type, for any number of months, callers
\* and refreshes.
THEOREM TypeCorrect == Spec => []TypeOK
<1>1. IInv => TypeOK
  BY DEF IInv
<1> QED
  BY <1>1, InitInv, NextInv, PTL DEF Spec

\* A clean balance is the sum of its tiers: the advisory lock lets one refresh at a time
\* add up the period rows and write them with its row (refreshEmployeeWorkBalance).
THEOREM ReadModelCorrect == Spec => []ReadModelIsItsTiers
<1>1. IInv => ReadModelIsItsTiers
  BY DEF IInv
<1> QED
  BY <1>1, InitInv, NextInv, PTL DEF Spec

\* The balance is current wherever no month was missed: a mark that is newer than a refresh
\* survives it, and what was marked before, the refresh reads afterwards
\* (markEmployeeWorkBalanceDirty, upsertEmployeeWorkBalance).
THEOREM BalanceCorrect == Spec => []BalanceIsCurrent
<1>1. IInv /\ CurrentInv => BalanceIsCurrent
  BY CurrentInvCurrent DEF IInv
<1> QED
  BY <1>1, InitInv, NextInv, InitCurrent, NextCurrent, PTL DEF Spec

\* What a step does to the row: it leaves the minutes, empties them, or replaces them by
\* those of the refresh that holds the lock.  A reset is left by the last of these only.
LEMMA RowStep ==
    ASSUME IInv, [Next]_vars
    PROVE  \/ /\ \/ row'.counted = row.counted /\ row'.through = row.through
                 \/ row'.counted = NoTotals
              /\ row.reset => row'.reset
           \/ \E x \in Worker : Upsert(x) /\ row' = Refreshed(worker[x])
<1>1. ASSUME NEW c \in Caller, Mark(c)
      PROVE  /\ \/ row'.counted = row.counted /\ row'.through = row.through
                \/ row'.counted = NoTotals
             /\ row.reset => row'.reset
  <2>1. \/ row' = row
        \/ row'.counted = row.counted /\ row'.through = row.through /\ row'.reset = row.reset
        \/ row'.counted = NoTotals
    BY <1>1, CallerStates, MarkedRow DEF Mark, IInv
  <2>2. row.reset => row'.reset
    BY <1>1, CallerStates DEF Mark, Marked, IInv, ResetInv, TypeOK, BalanceRow
  <2> QED
    BY <2>1, <2>2
<1>2. CASE RequestRebuild
  BY <1>2 DEF RequestRebuild, NoRow
<1>3. ASSUME NEW x \in Worker, Upsert(x)
      PROVE  row' = row \/ row' = Refreshed(worker[x])
  BY <1>3 DEF Upsert
<1>4. ASSUME NEW x \in Worker, Start(x)
      PROVE  row'.counted = row.counted /\ row'.through = row.through /\ row'.reset = row.reset
  BY <1>4 DEF Start, IInv, TypeOK, BalanceRow
<1>5. ASSUME NEW c \in Caller, \/ ChangePolicy(c) \/ Stamp(c) \/ ForgetMark(c)
                               \/ \E m \in Month : ChangeMonth(c, m)
      PROVE  row' = row
  BY <1>5 DEF ChangePolicy, ChangeMonth, Stamp, ForgetMark
<1>6. ASSUME NEW x \in Worker, List(x) \/ Fail(x) \/ Lock(x) \/ ComputeClosed(x) \/ ComputeHot(x)
      PROVE  row' = row
  BY <1>6 DEF List, Fail, Lock, ComputeClosed, ComputeHot
<1>7. NextMonth \/ UNCHANGED vars => row' = row
  BY DEF NextMonth, vars
<1> QED
  BY <1>1, <1>2, <1>3, <1>4, <1>5, <1>6, <1>7 DEF Next, Continue

\* A slow refresh never puts older minutes of the hot window over newer ones, whatever
\* other refreshes, marks and resets run (the lock and refreshRequestedAt).
THEOREM HotWindowCorrect == Spec => HotWindowNeverOlder
<1> DEFINE Newer == \A m \in Month :
              (/\ row.counted[m] # None /\ m >= HotStart(row.through)
               /\ row'.counted[m] # None /\ m >= HotStart(row'.through))
                  => row'.counted[m] >= row.counted[m]
<1>1. IInv /\ [Next]_vars => Newer
  <2> SUFFICES ASSUME IInv, [Next]_vars, NEW m \in Month,
                      row.counted[m] # None, m >= HotStart(row.through),
                      row'.counted[m] # None, m >= HotStart(row'.through)
               PROVE  row'.counted[m] >= row.counted[m]
    OBVIOUS
  <2>1. row.counted[m] \in Int
    BY TableVersions DEF IInv
  <2>2. ASSUME NEW x \in Worker, Upsert(x), row' = Refreshed(worker[x])
        PROVE  row'.counted[m] >= row.counted[m]
    <3> DEFINE w == worker[x]
    <3>1. w \in Refreshing /\ RefreshOK(w) /\ w.phase = "computed"
      BY <2>2, WorkerStates DEF IInv, RefreshInv, Upsert, Started
    <3>2. row' = Refreshed(w)
      BY <2>2
    <3> HIDE DEF w
    <3>3. row'.through = w.month /\ HotStart(w.month) \in Int /\ m \in Int
      BY <3>1, <3>2, MonthFacts DEF Refreshed, Refreshing
    <3>4. ~(m < HotStart(w.month))
      BY <3>3
    <3>5. row'.counted[m] = w.totals[m]
      BY <3>2, <3>4 DEF Refreshed
    <3>6. row.counted[m] <= w.totals[m] /\ w.totals[m] \in Int
      BY <3>1, <3>4, <3>5, ReadVersions DEF RefreshOK
    <3> QED
      BY <2>1, <3>5, <3>6
  <2>3. row'.counted # NoTotals
    BY VersionFacts
  <2>4. CASE row'.counted = row.counted
    BY <2>1, <2>4
  <2> QED
    BY <2>2, <2>3, <2>4, RowStep
<1> QED
  BY <1>1, InitInv, NextInv, PTL DEF Spec, HotWindowNeverOlder

\* A requested rebuild is never lost: the row leaves the reset only with every month
\* counted (requestEmployeeWorkBalanceFullRebuild and the reset marker).
THEOREM ResetCorrect == Spec => ResetEndsInFullRebuild
<1> DEFINE Full == row.reset /\ ~row'.reset =>
              ~row'.dirty /\ \A m \in 1..row'.through : row'.counted[m] # None
<1>1. IInv /\ [Next]_vars => Full
  <2> SUFFICES ASSUME IInv, [Next]_vars, row.reset, ~row'.reset
               PROVE  ~row'.dirty /\ \A m \in 1..row'.through : row'.counted[m] # None
    OBVIOUS
  <2>1. PICK x \in Worker : Upsert(x) /\ row' = Refreshed(worker[x])
    BY RowStep
  <2> DEFINE w == worker[x]
  <2>2. w \in Refreshing /\ RefreshOK(w) /\ w.phase = "computed"
    BY <2>1, WorkerStates DEF IInv, RefreshInv, Upsert, Started
  <2>3. row' = Refreshed(w)
    BY <2>1
  <2> HIDE DEF w
  <2>4. w.force
    BY <2>2 DEF RefreshOK, Holding
  <2>5. ~row'.dirty /\ row'.through = w.month
    BY <2>3 DEF Refreshed
  <2>6. ASSUME NEW m \in 1..w.month PROVE row'.counted[m] # None
    <3>1. m \in Month /\ m <= w.month
      BY <2>2, MonthsAssumption DEF Refreshing, Month
    <3>2. m < HotStart(w.month) => w.closed[m] = w.totals[m]
      BY <2>2, <2>4, <3>1 DEF RefreshOK, Buckets
    <3>3. w.totals[m] # None
      BY <2>2, <2>4, <3>1 DEF RefreshOK
    <3> QED
      BY <2>3, <3>1, <3>2, <3>3 DEF Refreshed
  <2> QED
    BY <2>5, <2>6
<1> QED
  BY <1>1, InitInv, NextInv, PTL DEF Spec, ResetEndsInFullRebuild
=============================================================================
