----------------------- MODULE AdaptivePruningProofs -----------------------
(***************************************************************************)
(* That the walk-forward backtest never looks ahead and that its holding   *)
(* periods tile the days, for every calendar, every pair of frequencies,   *)
(* every tree and every order of estimates; and that contraction leaves a  *)
(* tree and keeps every exposure, whatever the tree and the verdicts.      *)
(***************************************************************************)
EXTENDS AdaptivePruning, FiniteSetTheorems, WellFoundedInduction, TLAPS

-----------------------------------------------------------------------------
(* Periods and windows                                                     *)

LEMMA PeriodLabel ==
    ASSUME NEW frequency \in DOMAIN Ends, NEW d \in Business
    PROVE  Period(d, frequency) \in Ends[frequency] /\ d <= Period(d, frequency)
<1> DEFINE later == {e \in Ends[frequency] : e >= d}
<1>1. \E e \in later : \A x \in later : e <= x
  <2>1. PICK e \in Ends[frequency] :
          d <= e /\ \A x \in Ends[frequency] : d <= x => e <= x
    BY LabelsCoverTheDays
  <2>2. e \in Nat /\ d \in Nat /\ Ends[frequency] \subseteq Nat
    BY DaysAreNumbered
  <2> QED  BY <2>1, <2>2
<1>2. Period(d, frequency) \in later
  BY <1>1 DEF Period, Min
<1> QED  BY <1>2, DaysAreNumbered

\* A fold's signal is a number, and its days and its training are on either side.
LEMMA WindowsAreApart ==
    ASSUME NEW s \in Studies, NEW f \in PlannedFolds(s)
    PROVE  /\ f = [signal |-> f.signal, train |-> Train(s, f.signal),
                   holding |-> Holding(s, f.signal)]
           /\ f.signal \in Nat
           /\ \A d \in f.holding : d > f.signal /\ d \in s.days
           /\ \A l \in f.train : l <= f.signal
<1>1. PICK x \in Schedule(s) :
        f = [signal |-> x, train |-> Train(s, x), holding |-> Holding(s, x)]
  BY DEF PlannedFolds
<1>2. x \in Labels(s.days, s.rebalance)
  BY DEF Schedule, RebalanceDates
<1>3. x \in Nat
  BY <1>2, PeriodLabel, StudiesAreOfDays, DaysAreNumbered DEF Labels
<1>4. \A l \in Train(s, x) : l <= x
  BY DEF Train, Latest
<1>5. \A d \in Holding(s, x) : d > x /\ d \in s.days
  BY DEF Holding
<1> QED  BY <1>1, <1>3, <1>4, <1>5

-----------------------------------------------------------------------------
(* The ledgers                                                             *)

\* Every point of every curve lies in the holding of a planned fold.
HeldOnFolds ==
    /\ study \in Studies
    /\ folds \subseteq PlannedFolds(study)
    /\ phase = "plan" => DOMAIN points = {}
    /\ \A a \in DOMAIN points : \A p \in points[a] :
         \E f \in folds : p.on = f.signal /\ p.day \in f.holding

LEMMA HeldInit == Init => HeldOnFolds
BY DEF Init, BacktestInit, HeldOnFolds, Empty

LEMMA HeldUnchanged ==
    ASSUME HeldOnFolds, UNCHANGED <<study, folds, points>>, phase' = phase \/ phase' # "plan"
    PROVE  HeldOnFolds'
BY DEF HeldOnFolds

LEMMA PlanHeld ==
    ASSUME HeldOnFolds, Plan
    PROVE  HeldOnFolds'
BY DEF HeldOnFolds, Plan

LEMMA HoldHeld ==
    ASSUME HeldOnFolds, HoldFold
    PROVE  HeldOnFolds'
<1>1. PICK f \in NotHeld :
        /\ points' = Earned(f, Arms(estimates[f.signal]))
        /\ phase' = IF NotHeld # {f} THEN phase
                    ELSE IF OneGrid(points') THEN "report" ELSE "no common grid"
  BY DEF HoldFold
<1>2. phase = "hold" /\ UNCHANGED <<study, folds>> /\ f \in folds
  BY DEF HoldFold, NotHeld
<1>3. phase' # "plan"
  BY <1>1, <1>2
<1>4. ASSUME NEW a \in DOMAIN points', NEW p \in points'[a]
      PROVE  \E g \in folds : p.on = g.signal /\ p.day \in g.holding
  <2>1. \/ a \in DOMAIN points /\ p \in points[a]
        \/ \E d \in f.holding : p = [day |-> d, on |-> f.signal]
    BY <1>1 DEF Earned
  <2> QED  BY <1>2, <2>1 DEF HeldOnFolds
<1> QED  BY <1>2, <1>3, <1>4 DEF HeldOnFolds

LEMMA HeldStep == HeldOnFolds /\ [Next]_vars => HeldOnFolds'
<1> SUFFICES ASSUME HeldOnFolds, [Next]_vars PROVE HeldOnFolds'
  OBVIOUS
<1>1. CASE UNCHANGED vars
  BY <1>1, HeldUnchanged DEF vars, backtestVars
<1>2. CASE BacktestStep
  <2>1. CASE Plan
    BY <2>1, PlanHeld
  <2>2. CASE EstimateFold \/ (SolveStep /\ UNCHANGED backtestVars)
    BY <2>2, HeldUnchanged DEF EstimateFold, backtestVars
  <2>3. CASE KeepEstimate \/ FoldFails
    BY <2>3, HeldUnchanged DEF KeepEstimate, FoldFails
  <2>4. CASE HoldFold
    BY <2>4, HoldHeld
  <2> QED  BY <1>2, <2>1, <2>2, <2>3, <2>4 DEF BacktestStep
<1>3. CASE BeginAdaptive \/ PrepareFold \/ KeepCandidate \/ CandidateFails \/ AdaptFold
  BY <1>3, HeldUnchanged
     DEF BeginAdaptive, PrepareFold, KeepCandidate, CandidateFails, AdaptFold
<1>4. CASE Stay
  BY <1>4, HeldUnchanged DEF Stay, vars, backtestVars
<1> QED  BY <1>1, <1>2, <1>3, <1>4 DEF Next

\* Every point of every arm's curve lies in the holding period of a planned fold, with
\* the fold's target, whatever the estimates and the pruning did (HierarchicalV2Backtester.run).
THEOREM AlwaysHeldOnFolds == Spec => []HeldOnFolds
BY HeldInit, HeldStep, PTL DEF Spec

\* No curve earns a day on a target estimated with that day or a later one: a fold
\* trains on the periods labelled up to its signal and holds the days after it, and a
\* day is never later than its period's label (run, _resample_simple_returns).
THEOREM NeverLooksAhead == Spec => []NoLookAhead
<1>1. HeldOnFolds => NoLookAhead
  <2> SUFFICES ASSUME HeldOnFolds, NEW f \in folds, NEW a \in DOMAIN points,
                      NEW p \in points[a], p.on = f.signal, NEW d \in TrainedDays(f)
               PROVE  d < p.day
    BY DEF NoLookAhead
  <2>1. PICK g \in folds : p.on = g.signal /\ p.day \in g.holding
    BY DEF HeldOnFolds
  <2>2. study \in Studies /\ f \in PlannedFolds(study) /\ g \in PlannedFolds(study)
    BY DEF HeldOnFolds
  <2>3. g.holding = f.holding
    BY <2>1, <2>2, WindowsAreApart
  <2>4. p.day > f.signal /\ p.day \in Nat /\ f.signal \in Nat
    BY <2>1, <2>2, <2>3, WindowsAreApart, StudiesAreOfDays, DaysAreNumbered
  <2>5. /\ d \in Business /\ study.estimation \in DOMAIN Ends
        /\ Period(d, study.estimation) \in f.train
    BY <2>2, StudiesAreOfDays DEF TrainedDays
  <2>6. /\ d <= Period(d, study.estimation) /\ Period(d, study.estimation) <= f.signal
        /\ d \in Nat /\ Period(d, study.estimation) \in Nat
    BY <2>2, <2>5, PeriodLabel, WindowsAreApart, DaysAreNumbered
  <2> QED  BY <2>4, <2>6
<1> QED  BY <1>1, AlwaysHeldOnFolds, PTL

-----------------------------------------------------------------------------
(* The first and the last of some numbers                                  *)

LEMMA FirstExists ==
    ASSUME NEW S, S \subseteq Nat, S # {}
    PROVE  Min(S) \in S /\ \A y \in S : Min(S) <= y
<1>1. PICK x \in S : \A y \in S : ~ (<<y, x>> \in OpToRel(<, Nat))
  BY NatLessThanWellFounded, WFMin
<1>2. \A y, z \in Nat : y < z => <<y, z>> \in OpToRel(<, Nat)
  BY DEF OpToRel
<1>3. ASSUME NEW y \in S  PROVE x <= y
  <2>1. x \in Nat /\ y \in Nat  OBVIOUS
  <2>2. ~ (y < x)  BY <1>1, <1>2, <2>1
  <2> QED  BY <2>1, <2>2
<1> QED  BY <1>3 DEF Min

LEMMA LastExists ==
    ASSUME NEW S, S \subseteq Nat, S # {}, IsFiniteSet(S)
    PROVE  Max(S) \in S /\ \A y \in S : y <= Max(S)
<1> DEFINE above(x) == {y \in S : x < y}
           T == {above(x) : x \in S}
<1>1. T \subseteq FiniteSubsetsOf(S) /\ T # {}
  <2>1. ASSUME NEW x \in S  PROVE above(x) \in FiniteSubsetsOf(S)
    <3>1. above(x) \subseteq S  OBVIOUS
    <3> HIDE DEF above
    <3> QED  BY <3>1, FS_Subset DEF FiniteSubsetsOf
  <2> QED  BY <2>1
<1>2. PICK t \in T : \A u \in T : <<u, t>> \notin StrictSubsetOrdering(S)
  <2> HIDE DEF T
  <2> QED  BY <1>1, FS_StrictSubsetOrderingWellFounded, WFMin
<1>3. PICK x \in S : t = above(x)
  BY <1>2
<1>4. ASSUME NEW y \in S  PROVE y <= x
  <2>1. x \in Nat /\ y \in Nat
    OBVIOUS
  <2>2. ASSUME x < y  PROVE FALSE
    <3>1. \A z \in above(y) : z \in above(x)
      <4>1. ASSUME NEW z \in above(y)  PROVE x < z
        <5>1. z \in Nat /\ y < z  OBVIOUS
        <5> QED  BY <2>1, <2>2, <5>1
      <4> QED  BY <4>1
    <3>2. y \in above(x) /\ y \notin above(y)
      BY <2>1, <2>2
    <3>3. above(x) \subseteq S /\ above(y) \subseteq S /\ above(y) \in T
      OBVIOUS
    <3> HIDE DEF above, T
    <3>4. <<above(y), above(x)>> \in StrictSubsetOrdering(S)
      BY <3>1, <3>2, <3>3 DEF StrictSubsetOrdering
    <3> QED  BY <1>2, <1>3, <3>3, <3>4
  <2> QED  BY <2>1, <2>2
<1> QED  BY <1>4 DEF Max

-----------------------------------------------------------------------------
(* Training windows                                                        *)

LEMMA LabelsAreFinite ==
    ASSUME NEW days, IsFiniteSet(days), NEW frequency
    PROVE  IsFiniteSet(Labels(days, frequency))
<1> DEFINE label == [d \in days |-> Period(d, frequency)]
<1>1. label \in Surjection(days, Labels(days, frequency))
  BY DEF Surjection, Labels
<1> QED  BY <1>1, FS_Surjection

\* The last k of at least k numbers are at least k.
LEMMA LatestAreEnough ==
    ASSUME NEW S, S \subseteq Nat, IsFiniteSet(S), NEW k \in Nat, Cardinality(S) >= k
    PROVE  Cardinality(Latest(S, k)) >= k
<1> DEFINE L == Latest(S, k)
<1>1. L \subseteq S
  BY DEF Latest
<1>2. IsFiniteSet(L) /\ Cardinality(L) \in Nat
  BY <1>1, FS_Subset, FS_CardinalityType
<1>3. SUFFICES ASSUME Cardinality(L) < k  PROVE FALSE
  BY <1>2
<1>4. S \ L # {}
  <2>1. ASSUME S \ L = {}  PROVE Cardinality(L) >= k
    <3>1. S = L  BY <1>1, <2>1
    <3> HIDE DEF L
    <3> QED  BY <3>1
  <2> QED  BY <1>2, <1>3, <2>1
<1> DEFINE m == Max(S \ L)
<1>5. m \in S \ L /\ \A y \in S \ L : y <= m
  <2>1. S \ L \subseteq Nat /\ IsFiniteSet(S \ L)
    BY FS_Subset
  <2> HIDE DEF L
  <2> QED  BY <1>4, <2>1, LastExists
<1>6. {y \in S : y > m} \subseteq L
  <2> HIDE DEF m
  <2>1. ASSUME NEW y \in S, y > m, y \notin L  PROVE FALSE
    <3>1. y <= m /\ y \in Nat /\ m \in Nat  BY <1>5, <2>1
    <3> QED  BY <2>1, <3>1
  <2> QED  BY <2>1
<1>7. Cardinality({y \in S : y > m}) <= Cardinality(L)
  BY <1>2, <1>6, FS_Subset
<1>8. Cardinality({y \in S : y > m}) \in Nat
  BY <1>2, <1>6, FS_Subset, FS_CardinalityType
<1>9. Cardinality({y \in S : y > m}) < k
  BY <1>2, <1>3, <1>7, <1>8
<1> QED  BY <1>5, <1>9 DEF Latest

\* Once there are enough observations to train on, there are at every later signal.
LEMMA TrainingStaysEnough ==
    ASSUME NEW s \in Studies, NEW x \in Nat, NEW y \in Nat, x <= y,
           Cardinality(Train(s, x)) >= s.trainSize
    PROVE  Cardinality(Train(s, y)) >= s.trainSize
<1> DEFINE A(z) == {l \in Observations(s) : l <= z}
<1>1. Observations(s) \subseteq Nat /\ s.trainSize \in Nat
  BY PeriodLabel, StudiesAreOfDays, DaysAreNumbered DEF Observations, Labels
<1>2. IsFiniteSet(Observations(s))
  BY StudiesAreOfDays, LabelsAreFinite DEF Observations
<1>3. ASSUME NEW z
      PROVE  /\ IsFiniteSet(A(z)) /\ Cardinality(A(z)) \in Nat /\ A(z) \subseteq Nat
             /\ Train(s, z) \subseteq A(z) /\ Cardinality(Train(s, z)) \in Nat
             /\ Cardinality(Train(s, z)) <= Cardinality(A(z))
  <2>1. A(z) \subseteq Observations(s)
    OBVIOUS
  <2>2. Train(s, z) \subseteq A(z)
    BY DEF Train, Latest
  <2> QED  BY <1>1, <1>2, <2>1, <2>2, FS_Subset, FS_CardinalityType
<1>4. A(x) \subseteq A(y)
  BY <1>1
<1>5. Cardinality(A(x)) <= Cardinality(A(y))
  BY <1>3, <1>4, FS_Subset
<1>6. Cardinality(A(y)) >= s.trainSize
  BY <1>1, <1>3, <1>5
<1>7. CASE s.expanding
  BY <1>6, <1>7 DEF Train
<1>8. CASE ~s.expanding
  <2>1. Cardinality(Latest(A(y), s.trainSize)) >= s.trainSize
    <3> HIDE DEF A
    <3> QED  BY <1>1, <1>3, <1>6, LatestAreEnough
  <2> QED  BY <1>8, <2>1 DEF Train
<1> QED  BY <1>7, <1>8

-----------------------------------------------------------------------------
(* Holding periods                                                         *)

FoldAt(s, x) == [signal |-> x, train |-> Train(s, x), holding |-> Holding(s, x)]

LEMMA ScheduleIsNumbered ==
    ASSUME NEW s \in Studies
    PROVE  Schedule(s) \subseteq Nat /\ IsFiniteSet(Schedule(s)) /\ s.days \subseteq Nat
<1>1. Schedule(s) \subseteq Labels(s.days, s.rebalance)
  BY DEF Schedule, RebalanceDates
<1>2. Labels(s.days, s.rebalance) \subseteq Nat
  BY PeriodLabel, StudiesAreOfDays, DaysAreNumbered DEF Labels
<1>3. IsFiniteSet(Schedule(s))
  BY <1>1, StudiesAreOfDays, LabelsAreFinite, FS_Subset
<1> QED  BY <1>1, <1>2, <1>3, StudiesAreOfDays, DaysAreNumbered

\* A day is held from the last signal before it, and from no other.
LEMMA LastSignalHolds ==
    ASSUME NEW s \in Studies, NEW d \in s.days, NEW first \in Schedule(s), first < d
    PROVE  \E x \in Schedule(s) :
             /\ first <= x /\ x < d /\ d \in Holding(s, x)
             /\ \A y \in Schedule(s) : d \in Holding(s, y) => y = x
<1> DEFINE before == {y \in Schedule(s) : y < d}
           x == Max(before)
<1>1. Schedule(s) \subseteq Nat /\ d \in Nat
  BY ScheduleIsNumbered
<1>2. x \in before /\ \A y \in before : y <= x
  <2>1. before \subseteq Schedule(s) /\ first \in before
    OBVIOUS
  <2>2. IsFiniteSet(before)
    BY <2>1, ScheduleIsNumbered, FS_Subset
  <2> HIDE DEF before
  <2> QED  BY <1>1, <2>1, <2>2, LastExists
<1>3. x \in Schedule(s) /\ x \in Nat /\ x < d /\ first <= x
  BY <1>1, <1>2
<1>4. \A y \in Schedule(s) : y < d => y <= x
  BY <1>2
<1> HIDE DEF x
<1>5. \A later \in Schedule(s) : later > x => d <= later
  <2>1. ASSUME NEW later \in Schedule(s), later > x  PROVE d <= later
    <3>1. later \in Nat  BY <1>1
    <3>2. ~ (later < d)  BY <1>3, <1>4, <2>1, <3>1
    <3> QED  BY <1>1, <3>1, <3>2
  <2> QED  BY <2>1
<1>6. d \in Holding(s, x)
  BY <1>1, <1>3, <1>5 DEF Holding
<1>7. ASSUME NEW y \in Schedule(s), d \in Holding(s, y)  PROVE y = x
  <2>1. y \in Nat /\ y < d
    BY <1>1, <1>7 DEF Holding
  <2>2. y <= x  BY <1>4, <2>1
  <2>3. x > y => d <= x
    BY <1>3, <1>7 DEF Holding
  <2> QED  BY <1>1, <1>3, <2>1, <2>2, <2>3
<1> QED  BY <1>3, <1>6, <1>7

\* A day with a fold's signal before it, and a day held at or after it, has a fold.
LEMMA DayIsHeldOnce ==
    ASSUME NEW s \in Studies, NEW d \in s.days,
           NEW f \in PlannedFolds(s), f.signal < d,
           NEW g \in PlannedFolds(s), NEW h \in g.holding, d <= h
    PROVE  Cardinality({k \in PlannedFolds(s) : d \in k.holding}) = 1
<1>1. /\ f = FoldAt(s, f.signal) /\ f.signal \in Schedule(s) /\ IsFold(s, f.signal)
      /\ g = FoldAt(s, g.signal) /\ g.signal \in Schedule(s) /\ IsFold(s, g.signal)
  BY DEF PlannedFolds, FoldAt
<1>2. PICK x \in Schedule(s) :
        /\ f.signal <= x /\ x < d /\ d \in Holding(s, x)
        /\ \A y \in Schedule(s) : d \in Holding(s, y) => y = x
  BY <1>1, LastSignalHolds
<1>3. Schedule(s) \subseteq Nat /\ s.days \subseteq Nat
  BY ScheduleIsNumbered
<1>4. IsFold(s, x)
  <2>1. Cardinality(Train(s, x)) >= s.trainSize
    BY <1>1, <1>2, <1>3, TrainingStaysEnough DEF IsFold
  <2>2. Holding(s, x) # {}
    BY <1>2
  <2>3. s.partial \/ \E later \in Schedule(s) : later > x
    <3>1. CASE s.partial
      BY <3>1
    <3>2. CASE ~s.partial
      <4>1. PICK later \in Schedule(s) : later > g.signal
        BY <1>1, <3>2 DEF IsFold
      <4>2. h \in s.days /\ h <= later
        BY <1>1, <4>1 DEF FoldAt, Holding
      <4>3. h \in Nat /\ d \in Nat /\ x \in Nat /\ later \in Nat
        BY <1>3, <4>2
      <4> QED  BY <1>2, <4>1, <4>2, <4>3
    <3> QED  BY <3>1, <3>2
  <2> QED  BY <2>1, <2>2, <2>3 DEF IsFold
<1>5. FoldAt(s, x) \in PlannedFolds(s) /\ d \in FoldAt(s, x).holding
  BY <1>2, <1>4 DEF PlannedFolds, FoldAt
<1>6. ASSUME NEW k \in PlannedFolds(s), d \in k.holding  PROVE k = FoldAt(s, x)
  <2>1. PICK y \in Schedule(s) : k = FoldAt(s, y)
    BY DEF PlannedFolds, FoldAt
  <2>2. d \in Holding(s, y)
    BY <1>6, <2>1 DEF FoldAt
  <2> QED  BY <1>2, <2>1, <2>2
<1>7. {k \in PlannedFolds(s) : d \in k.holding} = {FoldAt(s, x)}
  BY <1>5, <1>6
<1> QED  BY <1>7, FS_Singleton

\* The windows of a backtest are those planned for it, or not yet planned.
PlannedOnce ==
    /\ study \in Studies
    /\ phase # "plan" => folds = PlannedFolds(study)
    /\ phase = "plan" => folds = {}

LEMMA PlannedUnchanged ==
    ASSUME PlannedOnce, UNCHANGED <<study, folds>>,
           phase' = phase \/ (phase # "plan" /\ phase' # "plan")
    PROVE  PlannedOnce'
BY DEF PlannedOnce

LEMMA PlannedStep == PlannedOnce /\ [Next]_vars => PlannedOnce'
<1> SUFFICES ASSUME PlannedOnce, [Next]_vars  PROVE PlannedOnce'
  OBVIOUS
<1>1. CASE UNCHANGED vars \/ Stay
  <2>1. UNCHANGED <<study, folds>> /\ phase' = phase
    BY <1>1 DEF Stay, vars, backtestVars
  <2> QED  BY PlannedUnchanged, <2>1
<1>2. CASE Plan
  <2>1. study' = study /\ folds' = PlannedFolds(study) /\ phase' # "plan"
    BY <1>2 DEF Plan
  <2>2. PlannedFolds(study)' = PlannedFolds(study')
    OBVIOUS
  <2> QED  BY <2>1, <2>2 DEF PlannedOnce
<1>3. CASE EstimateFold \/ (SolveStep /\ UNCHANGED backtestVars)
  BY PlannedUnchanged, <1>3 DEF EstimateFold, backtestVars
<1>4. CASE KeepEstimate \/ FoldFails \/ HoldFold
  BY PlannedUnchanged, <1>4 DEF KeepEstimate, FoldFails, HoldFold
<1>5. CASE BeginAdaptive \/ PrepareFold \/ KeepCandidate \/ CandidateFails \/ AdaptFold
  BY PlannedUnchanged, <1>5
     DEF BeginAdaptive, PrepareFold, KeepCandidate, CandidateFails, AdaptFold, backtestVars
<1> QED  BY <1>1, <1>2, <1>3, <1>4, <1>5 DEF Next, BacktestStep

LEMMA PlannedInit == Init => PlannedOnce
BY DEF Init, BacktestInit, PlannedOnce

\* Whatever the calendar's gaps and the frequencies, every day from the first signal to
\* the last fold's end is held on exactly one fold (backtest.run): a fold starts where
\* the one before it ends, and once there is history enough for one there is for all.
THEOREM HoldingsAlwaysTile == Spec => []HoldingsTile
<1>1. PlannedOnce => HoldingsTile
  <2> DEFINE signals == {f.signal : f \in folds}
             first == Min(signals)
             held == UNION {f.holding : f \in folds}
  <2> SUFFICES ASSUME PlannedOnce, folds # {},
                      NEW d \in study.days, first < d, d <= Max(held)
               PROVE  Cardinality({f \in folds : d \in f.holding}) = 1
    BY DEF HoldingsTile
  <2>1. study \in Studies /\ folds = PlannedFolds(study)
    BY DEF PlannedOnce
  <2>2. PICK f \in folds : f.signal = first
    <3>1. signals \subseteq Nat /\ signals # {}
      BY <2>1, WindowsAreApart
    <3>2. first \in signals
      <4> HIDE DEF signals
      <4> QED  BY <3>1, FirstExists
    <3> QED  BY <3>2
  <2>3. held \subseteq study.days /\ held # {}
    BY <2>1 DEF PlannedFolds, Holding, IsFold
  <2>4. PICK g \in folds : Max(held) \in g.holding
    <3>1. study.days \subseteq Nat /\ IsFiniteSet(study.days)
      BY <2>1, ScheduleIsNumbered, StudiesAreOfDays
    <3>2. Max(held) \in held
      <4> HIDE DEF held
      <4>1. held \subseteq Nat /\ IsFiniteSet(held)
        BY <2>3, <3>1, FS_Subset
      <4> QED  BY <2>3, <4>1, LastExists
    <3> HIDE DEF held
    <3>3. Max(held) \in UNION {k.holding : k \in folds}
      BY <3>2 DEF held
    <3> QED  BY <3>3
  <2> HIDE DEF first, held
  <2> QED  BY <2>1, <2>2, <2>4, DayIsHeldOnce
<1> QED  BY <1>1, PlannedInit, PlannedStep, PTL DEF Spec

-----------------------------------------------------------------------------
(* Functions defined along the naturals                                    *)

Iterates(f, start, step) == f[0] = start /\ \A k \in Nat \ {0} : f[k] = step[k][f[k - 1]]

\* A function given by its value at 0 and by steps exists.
LEMMA IterationExists ==
    ASSUME NEW S, NEW start \in S, NEW step \in [Nat \ {0} -> [S -> S]]
    PROVE  \E f \in [Nat -> S] : Iterates(f, start, step)
<1> DEFINE Part(n) == {f \in [0..n -> S] :
                         f[0] = start /\ \A k \in 1..n : f[k] = step[k][f[k - 1]]}
<1>1. \A n \in Nat : Part(n) # {}
  <2> DEFINE missing == {n \in Nat : Part(n) = {}}
             n == Min(missing)
  <2> SUFFICES ASSUME missing # {}  PROVE FALSE
    OBVIOUS
  <2>1. n \in missing /\ \A y \in missing : n <= y
    <3> missing \subseteq Nat  OBVIOUS
    <3> HIDE DEF missing
    <3> QED  BY FirstExists
  <2> HIDE DEF n
  <2>2. n \in Nat /\ Part(n) = {}
    BY <2>1
  <2>3. CASE n = 0
    <3>1. [k \in 0..0 |-> start] \in Part(0)
      OBVIOUS
    <3> QED  BY <2>2, <2>3, <3>1
  <2>4. CASE n # 0
    <3>1. n - 1 \in Nat /\ n - 1 \notin missing
      <4>1. n - 1 \in Nat /\ ~(n <= n - 1)
        BY <2>2, <2>4
      <4> QED  BY <2>1, <4>1
    <3>2. PICK f : f \in Part(n - 1)
      BY <3>1
    <3> DEFINE g == [k \in 0..n |-> IF k < n THEN f[k] ELSE step[n][f[n - 1]]]
    <3>3. f \in [0..(n - 1) -> S] /\ f[0] = start
          /\ \A k \in 1..(n - 1) : f[k] = step[k][f[k - 1]]
      BY <3>2
    <3>4. step[n][f[n - 1]] \in S
      BY <2>2, <2>4, <3>1, <3>3
    <3>5. g \in [0..n -> S] /\ g[0] = start
      BY <2>2, <2>4, <3>3, <3>4
    <3>6. ASSUME NEW k \in 1..n  PROVE g[k] = step[k][g[k - 1]]
      <4>1. CASE k < n
        <5>1. k \in 1..(n - 1) /\ k \in 0..n /\ k - 1 \in 0..n /\ k - 1 < n
          BY <2>2, <4>1
        <5>2. g[k] = f[k] /\ g[k - 1] = f[k - 1]
          BY <4>1, <5>1
        <5> QED  BY <3>3, <5>1, <5>2
      <4>2. CASE k = n
        <5>1. n \in 0..n /\ n - 1 \in 0..n /\ n - 1 < n /\ ~(n < n)
          BY <2>2, <2>4
        <5>2. g[n] = step[n][f[n - 1]] /\ g[n - 1] = f[n - 1]
          BY <5>1
        <5> QED  BY <4>2, <5>2
      <4> QED  BY <2>2, <4>1, <4>2
    <3>7. g \in Part(n)
      <4> HIDE DEF g
      <4> QED  BY <3>5, <3>6
    <3> QED  BY <2>2, <3>7
  <2> QED  BY <2>3, <2>4
<1>2. ASSUME NEW m \in Nat, NEW n \in Nat, m <= n, NEW f \in Part(m), NEW g \in Part(n)
      PROVE  \A k \in 0..m : f[k] = g[k]
  <2> DEFINE apart == {k \in 0..m : f[k] # g[k]}
             k == Min(apart)
  <2> SUFFICES ASSUME apart # {}  PROVE FALSE
    OBVIOUS
  <2>1. k \in apart /\ \A y \in apart : k <= y
    <3> apart \subseteq Nat  OBVIOUS
    <3> HIDE DEF apart
    <3> QED  BY FirstExists
  <2> HIDE DEF k
  <2>2. k \in 0..m /\ k # 0 /\ f[k] # g[k]
    BY <2>1
  <2>3. k - 1 \in 0..m /\ k - 1 \notin apart
    <3>1. k - 1 \in 0..m /\ ~(k <= k - 1)
      BY <2>2
    <3> QED  BY <2>1, <3>1
  <2>4. f[k - 1] = g[k - 1]
    BY <2>3
  <2>5. k \in 1..m /\ k \in 1..n
    BY <1>2, <2>2
  <2> QED  BY <2>2, <2>4, <2>5
<1> DEFINE chosen(n) == CHOOSE f : f \in Part(n)
           F == [n \in Nat |-> chosen(n)[n]]
<1>3. \A n \in Nat : chosen(n) \in Part(n)
  BY <1>1
<1> HIDE DEF chosen
<1>4. F \in [Nat -> S] /\ F[0] = start
  <2>1. ASSUME NEW n \in Nat  PROVE chosen(n)[n] \in S
    BY <1>3
  <2> QED  BY <1>3, <2>1
<1>5. ASSUME NEW k \in Nat \ {0}  PROVE F[k] = step[k][F[k - 1]]
  <2>1. k - 1 \in Nat /\ k - 1 <= k /\ k \in 1..k /\ k - 1 \in 0..(k - 1)
    OBVIOUS
  <2>2. chosen(k)[k] = step[k][chosen(k)[k - 1]]
    BY <1>3, <2>1
  <2>3. chosen(k - 1)[k - 1] = chosen(k)[k - 1]
    <3> HIDE DEF Part
    <3> QED  BY <1>2, <1>3, <2>1
  <2> QED  BY <2>1, <2>2, <2>3
<1> HIDE DEF F
<1> QED  BY <1>4, <1>5 DEF Iterates

-----------------------------------------------------------------------------
(* What is reached from the root                                           *)

ChildrenOf(c, S) == UNION {c.children[n] : n \in S}

LEMMA ReachedUnfolds ==
    ASSUME NEW c, c.root \in c.nodes, ChildrenAreDeclared(c)
    PROVE  \E r \in [Nat -> SUBSET c.nodes] :
             /\ r[0] = {c.root}
             /\ \A k \in Nat \ {0} : r[k] = r[k - 1] \cup ChildrenOf(c, r[k - 1])
             /\ Reached(c) = r[Cardinality(c.nodes)]
<1> DEFINE S == SUBSET c.nodes
           start == {c.root}
           step == [k \in Nat \ {0} |-> [x \in S |-> x \cup ChildrenOf(c, x)]]
           R(r) == r = [k \in Nat |-> IF k = 0 THEN {c.root}
                                             ELSE r[k - 1] \cup ChildrenOf(c, r[k - 1])]
<1>1. start \in S
  OBVIOUS
<1>2. step \in [Nat \ {0} -> [S -> S]]
  BY DEF ChildrenAreDeclared, ChildrenOf
<1>3. PICK f \in [Nat -> S] : Iterates(f, start, step)
  <2> HIDE DEF S, step, start
  <2> QED  BY <1>1, <1>2, IterationExists
<1>4. ASSUME NEW k \in Nat \ {0}  PROVE f[k] = f[k - 1] \cup ChildrenOf(c, f[k - 1])
  <2>1. f[k - 1] \in S
    <3>1. k - 1 \in Nat  OBVIOUS
    <3> HIDE DEF S
    <3> QED  BY <1>3, <3>1
  <2> QED  BY <1>3, <2>1 DEF Iterates
<1>5. R(f)
  <2> DEFINE g == [k \in Nat |-> IF k = 0 THEN {c.root} ELSE f[k - 1] \cup ChildrenOf(c, f[k - 1])]
  <2>1. \A k \in Nat : f[k] = g[k]
    BY <1>3, <1>4 DEF Iterates
  <2>2. DOMAIN f = Nat /\ f = [k \in Nat |-> f[k]]
    BY <1>3
  <2> QED  BY <2>1, <2>2
<1>6. PICK r : R(r) /\ Reached(c) = r[Cardinality(c.nodes)]
  <2>1. R(CHOOSE r : R(r))
    BY <1>5
  <2>2. Reached(c) = (CHOOSE r : R(r))[Cardinality(c.nodes)]
    BY DEF Reached, ChildrenOf
  <2> QED  BY <2>1, <2>2
<1>7. r[0] = {c.root} /\ \A k \in Nat \ {0} : r[k] = r[k - 1] \cup ChildrenOf(c, r[k - 1])
  <2> DEFINE value(k) == IF k = 0 THEN {c.root} ELSE r[k - 1] \cup ChildrenOf(c, r[k - 1])
  <2>1. r = [k \in Nat |-> value(k)]
    BY <1>6
  <2>2. \A k \in Nat : r[k] = value(k)
    <3> HIDE DEF value
    <3> QED  BY <2>1
  <2> QED  BY <2>2
<1>8. r \in [Nat -> SUBSET c.nodes]
  <2> DEFINE bad == {k \in Nat : ~(r[k] \subseteq c.nodes)}
             k == Min(bad)
  <2>1. bad = {}
    <3> SUFFICES ASSUME bad # {}  PROVE FALSE
      OBVIOUS
    <3>1. k \in bad /\ \A y \in bad : k <= y
      <4> bad \subseteq Nat  OBVIOUS
      <4> HIDE DEF bad
      <4> QED  BY FirstExists
    <3> HIDE DEF k
    <3>2. k \in Nat \ {0}
      BY <1>7, <3>1
    <3>3. k - 1 \in Nat /\ k - 1 \notin bad
      <4>1. k - 1 \in Nat /\ ~(k <= k - 1)  BY <3>2
      <4> QED  BY <3>1, <4>1
    <3>4. r[k - 1] \subseteq c.nodes
      BY <3>3
    <3> QED  BY <1>7, <3>1, <3>2, <3>4 DEF ChildrenAreDeclared, ChildrenOf
  <2>2. r = [j \in Nat |-> IF j = 0 THEN {c.root} ELSE r[j - 1] \cup ChildrenOf(c, r[j - 1])]
    BY <1>6
  <2>3. r = [j \in Nat |-> r[j]]
    BY <2>2
  <2> QED  BY <2>1, <2>3
<1> QED  BY <1>6, <1>7, <1>8

\* Where every node but the root hangs below one nearer to it, every node is reached.
LEMMA RankedNodesAreReached ==
    ASSUME NEW t, t.root \in t.nodes, IsFiniteSet(t.nodes), ChildrenAreDeclared(t),
           NEW up, NEW d, \A n \in t.nodes : d[n] \in Nat,
           \A n \in NonRoot(t) : /\ up[n] \in t.nodes /\ n \in t.children[up[n]]
                                 /\ d[up[n]] < d[n]
    PROVE  EveryNodeIsReached(t)
<1>1. PICK r \in [Nat -> SUBSET t.nodes] :
        /\ r[0] = {t.root}
        /\ \A k \in Nat \ {0} : r[k] = r[k - 1] \cup ChildrenOf(t, r[k - 1])
        /\ Reached(t) = r[Cardinality(t.nodes)]
  BY ReachedUnfolds
<1> DEFINE few == {k \in Nat : t.root \notin r[k] \/ (r[k] # t.nodes /\ Cardinality(r[k]) <= k)}
<1>2. \A k \in Nat : IsFiniteSet(r[k]) /\ Cardinality(r[k]) \in Nat
  BY <1>1, FS_Subset, FS_CardinalityType
<1>3. ASSUME NEW k \in Nat \ {0}, k - 1 \notin few  PROVE k \notin few
  <2>1. k - 1 \in Nat /\ k \in Nat
    OBVIOUS
  <2>2. t.root \in r[k - 1] /\ r[k - 1] \subseteq r[k] /\ r[k] \subseteq t.nodes
    BY <1>1, <1>3, <2>1
  <2>3. SUFFICES ASSUME r[k] # t.nodes  PROVE Cardinality(r[k]) > k
    BY <1>2, <2>2
  <2>4. r[k - 1] # t.nodes /\ Cardinality(r[k - 1]) > k - 1
    <3>1. r[k - 1] # t.nodes
      BY <2>2, <2>3
    <3>2. ~(Cardinality(r[k - 1]) <= k - 1)
      BY <1>3, <2>1, <3>1
    <3>3. Cardinality(r[k - 1]) \in Nat
      BY <1>2, <2>1
    <3> QED  BY <2>1, <3>1, <3>2, <3>3
  <2> DEFINE ranks == {d[n] : n \in t.nodes \ r[k - 1]}
  <2>5. Min(ranks) \in ranks /\ \A y \in ranks : Min(ranks) <= y
    <3> ranks \subseteq Nat /\ ranks # {}  BY <2>2, <2>4
    <3> HIDE DEF ranks
    <3> QED  BY FirstExists
  <2>6. PICK n \in t.nodes \ r[k - 1] : d[n] = Min(ranks)
    BY <2>5
  <2>7. n \in NonRoot(t)
    BY <2>2 DEF NonRoot
  <2>8. up[n] \in r[k - 1]
    <3> SUFFICES ASSUME up[n] \notin r[k - 1]  PROVE FALSE
      OBVIOUS
    <3>1. up[n] \in t.nodes \ r[k - 1] /\ d[up[n]] < d[n]
      BY <2>7
    <3>2. d[n] <= d[up[n]] /\ d[n] \in Nat /\ d[up[n]] \in Nat
      BY <2>5, <2>6, <3>1
    <3> QED  BY <3>1, <3>2
  <2>9. n \in r[k]
    BY <1>1, <2>7, <2>8 DEF ChildrenOf
  <2>10. r[k - 1] \cup {n} \subseteq r[k]
    BY <2>2, <2>9
  <2>11. Cardinality(r[k - 1] \cup {n}) = Cardinality(r[k - 1]) + 1
    BY <1>2, <2>1, <2>6, FS_AddElement
  <2>12. Cardinality(r[k - 1] \cup {n}) <= Cardinality(r[k])
    BY <1>2, <2>10, FS_Subset
  <2> QED  BY <1>2, <2>1, <2>4, <2>11, <2>12
<1>4. 0 \notin few
  <2>1. Cardinality({t.root}) = 1
    BY FS_Singleton
  <2>2. Cardinality(r[0]) = 1 /\ t.root \in r[0]
    BY <1>1, <2>1
  <2>3. ~(Cardinality(r[0]) <= 0)
    BY <2>2
  <2> QED  BY <2>2, <2>3
<1>5. few = {}
  <2> DEFINE k == Min(few)
  <2> SUFFICES ASSUME few # {}  PROVE FALSE
    OBVIOUS
  <2>1. k \in few /\ \A y \in few : k <= y
    <3> few \subseteq Nat  OBVIOUS
    <3> HIDE DEF few
    <3> QED  BY FirstExists
  <2>2. few \subseteq Nat
    OBVIOUS
  <2> HIDE DEF k, few
  <2>3. k \in Nat \ {0}
    BY <1>4, <2>1, <2>2
  <2>4. k - 1 \notin few
    <3>1. k - 1 \in Nat /\ ~(k <= k - 1)  BY <2>3
    <3> QED  BY <2>1, <3>1
  <2> QED  BY <1>3, <2>1, <2>3, <2>4
<1>6. Cardinality(t.nodes) \in Nat
  BY FS_CardinalityType
<1>7. SUFFICES ASSUME r[Cardinality(t.nodes)] # t.nodes  PROVE FALSE
  BY <1>1 DEF EveryNodeIsReached
<1>8. Cardinality(r[Cardinality(t.nodes)]) > Cardinality(t.nodes)
  BY <1>2, <1>5, <1>6, <1>7
<1>9. Cardinality(r[Cardinality(t.nodes)]) <= Cardinality(t.nodes)
  BY <1>1, <1>6, FS_Subset
<1> QED  BY <1>2, <1>6, <1>8, <1>9

-----------------------------------------------------------------------------
(* Parents and depths                                                      *)

ParentIs(c, n, p) ==
    /\ p \in c.nodes /\ n \in c.children[p]
    /\ \A q \in c.nodes : n \in c.children[q] => q = p

LEMMA ParentIsOne ==
    ASSUME NEW c, IsTree(c), IsFiniteSet(c.nodes), NEW n \in NonRoot(c)
    PROVE  ParentIs(c, n, Parent(c, n))
<1> DEFINE S == {p \in c.nodes : n \in c.children[p]}
<1>1. IsFiniteSet(S) /\ Cardinality(S) = 1
  BY FS_Subset DEF IsTree, OneParentEach, NonRoot
<1>2. PICK p : S = {p}
  <2> HIDE DEF S
  <2> QED  BY <1>1, FS_Singleton
<1>3. p \in c.nodes /\ n \in c.children[p]
  BY <1>2
<1>4. Parent(c, n) \in c.nodes /\ n \in c.children[Parent(c, n)]
  BY <1>3 DEF Parent
<1>5. \A q \in c.nodes : n \in c.children[q] => q = Parent(c, n)
  BY <1>2, <1>4
<1> QED  BY <1>4, <1>5 DEF ParentIs

LEMMA RootHasNoParent ==
    ASSUME NEW c, IsTree(c), IsFiniteSet(c.nodes), NEW p \in c.nodes
    PROVE  c.root \notin c.children[p]
<1> DEFINE S == {q \in c.nodes : c.root \in c.children[q]}
<1>1. IsFiniteSet(S) /\ Cardinality(S) = 0
  BY FS_Subset DEF IsTree, OneParentEach
<1>2. S = {}
  <2> HIDE DEF S
  <2> QED  BY <1>1, FS_EmptySet
<1> QED  BY <1>2

Depths(c, d) ==
    d[c.root] = 0 /\ \A n \in NonRoot(c) : d[n] = 1 + d[Parent(c, n)]

\* The number of steps from the root to a node is one.
LEMMA LevelsExist ==
    ASSUME NEW c, IsTree(c), IsFiniteSet(c.nodes)
    PROVE  \E d \in [c.nodes -> Nat] : Depths(c, d)
<1>1. PICK r \in [Nat -> SUBSET c.nodes] :
        /\ r[0] = {c.root}
        /\ \A k \in Nat \ {0} : r[k] = r[k - 1] \cup ChildrenOf(c, r[k - 1])
        /\ Reached(c) = r[Cardinality(c.nodes)]
  BY ReachedUnfolds DEF IsTree
<1> DEFINE times(n) == {k \in Nat : n \in r[k]}
           d == [n \in c.nodes |-> Min(times(n))]
<1>2. ASSUME NEW n \in c.nodes
      PROVE  d[n] \in Nat /\ n \in r[d[n]] /\ \A k \in Nat : n \in r[k] => d[n] <= k
  <2>1. Cardinality(c.nodes) \in times(n)
    BY <1>1, FS_CardinalityType DEF IsTree, EveryNodeIsReached
  <2>2. Min(times(n)) \in times(n) /\ \A y \in times(n) : Min(times(n)) <= y
    <3> times(n) \subseteq Nat  OBVIOUS
    <3> HIDE DEF times
    <3> QED  BY <2>1, FirstExists
  <2>3. d[n] = Min(times(n))
    OBVIOUS
  <2> HIDE DEF d
  <2>4. d[n] \in times(n) /\ \A y \in times(n) : d[n] <= y
    BY <2>2, <2>3
  <2> QED  BY <2>4
<1>3. d \in [c.nodes -> Nat]
  BY <1>2
<1> HIDE DEF d
<1>4. d[c.root] = 0
  <2>1. c.root \in c.nodes /\ c.root \in r[0]
    BY <1>1 DEF IsTree
  <2> QED  BY <1>2, <2>1
<1>5. ASSUME NEW n \in NonRoot(c)  PROVE d[n] = 1 + d[Parent(c, n)]
  <2> DEFINE p == Parent(c, n)
  <2>1. ParentIs(c, n, p)
    BY ParentIsOne
  <2> HIDE DEF p
  <2>2. n \in c.nodes /\ n # c.root /\ p \in c.nodes
    BY <2>1 DEF NonRoot, ParentIs
  <2>3. d[n] \in Nat \ {0} /\ n \in r[d[n]] /\ d[p] \in Nat /\ p \in r[d[p]]
    <3>1. d[n] # 0
      BY <1>1, <1>2, <2>2
    <3> QED  BY <1>2, <2>2, <3>1
  <2>4. d[n] <= d[p] + 1
    <3>1. d[p] + 1 \in Nat \ {0} /\ (d[p] + 1) - 1 = d[p]
      BY <2>3
    <3>2. n \in r[d[p] + 1]
      BY <1>1, <2>1, <2>3, <3>1 DEF ChildrenOf, ParentIs
    <3> QED  BY <1>2, <2>2, <3>1, <3>2
  <2>5. d[p] <= d[n] - 1
    <3>1. d[n] - 1 \in Nat /\ ~(d[n] <= d[n] - 1)
      BY <2>3
    <3>2. n \notin r[d[n] - 1]
      BY <1>2, <2>2, <3>1
    <3>3. n \in ChildrenOf(c, r[d[n] - 1])
      BY <1>1, <2>3, <3>2
    <3>4. PICK q \in r[d[n] - 1] : n \in c.children[q]
      BY <3>3 DEF ChildrenOf
    <3>5. q = p
      BY <1>1, <2>1, <3>1, <3>4 DEF ParentIs
    <3> QED  BY <1>2, <2>2, <3>1, <3>4, <3>5
  <2> QED  BY <2>3, <2>4, <2>5 DEF p
<1> QED  BY <1>3, <1>4, <1>5 DEF Depths

\* Depth is that number.
LEMMA DepthCounts ==
    ASSUME NEW c, IsTree(c), IsFiniteSet(c.nodes)
    PROVE  /\ \A n \in c.nodes : Depth(c)[n] \in Nat
           /\ \A n \in NonRoot(c) : Depth(c)[n] = 1 + Depth(c)[Parent(c, n)]
<1> DEFINE value(e, n) == IF n = c.root THEN 0 ELSE 1 + e[Parent(c, n)]
           D(e) == e = [n \in c.nodes |-> IF n = c.root THEN 0 ELSE 1 + e[Parent(c, n)]]
<1>1. PICK l \in [c.nodes -> Nat] : Depths(c, l)
  BY LevelsExist
<1>2. \A n \in c.nodes : l[n] = value(l, n)
  BY <1>1 DEF Depths, NonRoot
<1>3. D(l)
  <2>1. l = [n \in c.nodes |-> l[n]]
    OBVIOUS
  <2> QED  BY <1>2, <2>1
<1>4. D(Depth(c))
  <2>1. D(CHOOSE e : D(e))
    BY <1>3
  <2> QED  BY <2>1 DEF Depth
<1> DEFINE e == Depth(c)
<1>5. \A n \in c.nodes : e[n] = value(e, n)
  <2>1. e = [n \in c.nodes |-> value(e, n)]
    BY <1>4
  <2> HIDE DEF e, value, D
  <2> QED  BY <2>1
<1> HIDE DEF e, D
<1>6. \A n \in NonRoot(c) : e[n] = 1 + e[Parent(c, n)]
  BY <1>5 DEF NonRoot
<1>7. e[c.root] = 0
  BY <1>5 DEF IsTree
<1> DEFINE odd == {n \in c.nodes : e[n] \notin Nat}
           ranks == {l[n] : n \in odd}
<1>8. odd = {}
  <2> SUFFICES ASSUME odd # {}  PROVE FALSE
    OBVIOUS
  <2>1. Min(ranks) \in ranks /\ \A y \in ranks : Min(ranks) <= y
    <3> ranks \subseteq Nat /\ ranks # {}  OBVIOUS
    <3> HIDE DEF ranks
    <3> QED  BY FirstExists
  <2>2. PICK n \in odd : l[n] = Min(ranks)
    BY <2>1
  <2>3. n \in NonRoot(c)
    BY <1>7 DEF NonRoot
  <2>4. Parent(c, n) \in c.nodes
    BY <2>3, ParentIsOne DEF ParentIs
  <2>5. l[Parent(c, n)] \in Nat /\ l[n] = 1 + l[Parent(c, n)]
    BY <1>1, <2>3, <2>4 DEF Depths
  <2>6. Parent(c, n) \notin odd
    <3> SUFFICES ASSUME Parent(c, n) \in odd  PROVE FALSE
      OBVIOUS
    <3>1. l[n] <= l[Parent(c, n)]
      BY <2>1, <2>2
    <3> QED  BY <2>5, <3>1
  <2>7. e[Parent(c, n)] \in Nat
    BY <2>4, <2>6
  <2> QED  BY <1>6, <2>3, <2>7
<1> QED  BY <1>6, <1>8 DEF e

-----------------------------------------------------------------------------
(* The order of the loop in prune_config                                   *)

\* What configurations are, as the studies have them.
TreeShaped(c) ==
    /\ IsTree(c) /\ IsFiniteSet(c.nodes) /\ c.nodes \subseteq Nat
    /\ {"root", "nodes", "children", "instruments", "proxy"} \subseteq DOMAIN c
    /\ c.children \in [c.nodes -> SUBSET c.nodes]
    /\ c.instruments \in [c.nodes -> SUBSET Names]
    /\ c.proxy \in [c.nodes -> Names \cup {None}]

\* The local definitions of PruneConfig.
Earlier(c, m, n) ==
    Depth(c)[m] < Depth(c)[n] \/ (Depth(c)[m] = Depth(c)[n] /\ m < n)
Before(c, n) == {m \in NonRoot(c) : Earlier(c, m, n)}
Kth(c, k) == CHOOSE n \in NonRoot(c) : Cardinality(Before(c, n)) = k - 1
Last(c) == Cardinality(NonRoot(c))
Start(c) ==
    [children    |-> c.children,
     instruments |-> c.instruments,
     parent      |-> [n \in NonRoot(c) |-> Parent(c, n)],
     removed     |-> {},
     cut         |-> {}]
IsContraction(c, verdict, s) ==
    s = [k \in 0..Last(c) |->
            IF k = 0 THEN Start(c) ELSE PruneNode(c, verdict, s[k - 1], Kth(c, k))]
Contracted(c, end) ==
    [c EXCEPT !.nodes = @ \ end.removed,
              !.children = end.children,
              !.instruments = end.instruments]

LEMMA PruneConfigIsTheLoop ==
    ASSUME NEW c, NEW verdict
    PROVE  PruneConfig(c, verdict)
             = Contracted(c, (CHOOSE s : IsContraction(c, verdict, s))[Last(c)])
BY DEF PruneConfig, Contracted, IsContraction, Last, Start, Kth, Before, Earlier

\* The nodes that come first.
Done(c, k) == {n \in NonRoot(c) : Cardinality(Before(c, n)) < k}

LEMMA OrderIsTotal ==
    ASSUME NEW c, TreeShaped(c), NEW m \in NonRoot(c), NEW n \in NonRoot(c)
    PROVE  /\ Earlier(c, m, n) \/ Earlier(c, n, m) \/ m = n
           /\ ~Earlier(c, n, n)
           /\ \A l \in NonRoot(c) : Earlier(c, l, m) /\ Earlier(c, m, n) => Earlier(c, l, n)
<1>1. \A x \in NonRoot(c) : x \in Nat /\ Depth(c)[x] \in Nat
  BY DepthCounts DEF TreeShaped, NonRoot
<1>2. Earlier(c, m, n) \/ Earlier(c, n, m) \/ m = n
  BY <1>1 DEF Earlier
<1>3. ~Earlier(c, n, n)
  BY <1>1 DEF Earlier
<1>4. ASSUME NEW l \in NonRoot(c), Earlier(c, l, m), Earlier(c, m, n)  PROVE Earlier(c, l, n)
  BY <1>1, <1>4 DEF Earlier
<1> QED  BY <1>2, <1>3, <1>4

LEMMA BeforeIsCounted ==
    ASSUME NEW c, TreeShaped(c), NEW n \in NonRoot(c)
    PROVE  /\ IsFiniteSet(NonRoot(c)) /\ Last(c) \in Nat
           /\ Cardinality(Before(c, n)) \in 0..(Last(c) - 1)
           /\ \A m \in NonRoot(c) :
                Earlier(c, m, n) <=> Cardinality(Before(c, m)) < Cardinality(Before(c, n))
<1>1. IsFiniteSet(NonRoot(c)) /\ Last(c) \in Nat
  BY FS_Subset, FS_CardinalityType DEF TreeShaped, NonRoot, Last
<1>2. ASSUME NEW x \in NonRoot(c)
      PROVE  IsFiniteSet(Before(c, x)) /\ Cardinality(Before(c, x)) \in Nat
  BY <1>1, FS_Subset, FS_CardinalityType DEF Before
<1>3. ASSUME NEW x \in NonRoot(c), NEW y \in NonRoot(c), Earlier(c, x, y)
      PROVE  Cardinality(Before(c, x)) < Cardinality(Before(c, y))
  <2>1. Before(c, x) \subseteq Before(c, y)
    BY <1>3, OrderIsTotal DEF Before
  <2>2. x \in Before(c, y) /\ x \notin Before(c, x)
    BY <1>3, OrderIsTotal DEF Before
  <2>3. Cardinality(Before(c, x)) <= Cardinality(Before(c, y))
        /\ Cardinality(Before(c, x)) # Cardinality(Before(c, y))
    BY <1>2, <2>1, <2>2, FS_Subset
  <2> QED  BY <1>2, <2>3
<1>4. Cardinality(Before(c, n)) \in 0..(Last(c) - 1)
  <2>1. Before(c, n) \subseteq NonRoot(c) /\ n \notin Before(c, n)
    BY OrderIsTotal DEF Before
  <2>2. Cardinality(Before(c, n)) <= Last(c) /\ Cardinality(Before(c, n)) # Last(c)
    BY <1>1, <2>1, FS_Subset DEF Last
  <2> QED  BY <1>1, <1>2, <2>2
<1>5. ASSUME NEW m \in NonRoot(c), Cardinality(Before(c, m)) < Cardinality(Before(c, n))
      PROVE  Earlier(c, m, n)
  <2>1. m # n /\ ~Earlier(c, n, m)
    BY <1>2, <1>3, <1>5
  <2> QED  BY <2>1, OrderIsTotal
<1> QED  BY <1>1, <1>3, <1>4, <1>5

\* The loop takes every node once, those before it first.
LEMMA KthIsNext ==
    ASSUME NEW c, TreeShaped(c), NEW k \in 1..Last(c)
    PROVE  /\ Kth(c, k) \in NonRoot(c) \ Done(c, k - 1)
           /\ Done(c, k) = Done(c, k - 1) \cup {Kth(c, k)}
           /\ Before(c, Kth(c, k)) = Done(c, k - 1)
<1> DEFINE S == NonRoot(c)
           T == 0..(Last(c) - 1)
           place == [n \in S |-> Cardinality(Before(c, n))]
<1>1. Last(c) \in Nat /\ IsFiniteSet(S)
  BY FS_Subset, FS_CardinalityType DEF TreeShaped, NonRoot, Last
<1>2. \A n \in S : place[n] \in T /\ place[n] = Cardinality(Before(c, n))
  BY BeforeIsCounted
<1>3. \A m, n \in S : place[m] = place[n] => m = n
  <2>1. ASSUME NEW m \in S, NEW n \in S, place[m] = place[n]  PROVE m = n
    <3>1. ~Earlier(c, m, n) /\ ~Earlier(c, n, m)
      BY <1>2, <2>1, BeforeIsCounted
    <3> QED  BY <3>1, OrderIsTotal
  <2> QED  BY <2>1
<1>4. place \in Injection(S, T)
  <2> HIDE DEF T
  <2> QED  BY <1>2, <1>3 DEF Injection, IsInjective
<1>5. IsFiniteSet(T) /\ Cardinality(T) = Last(c)
  <2>1. 0 \in Int /\ Last(c) - 1 \in Int
    BY <1>1
  <2>2. IsFiniteSet(T) /\ Cardinality(T) = IF 0 > Last(c) - 1 THEN 0 ELSE (Last(c) - 1) - 0 + 1
    BY <2>1, FS_Interval
  <2> QED  BY <1>1, <2>2
<1>6. place \in Surjection(S, T)
  <2> HIDE DEF S, T, place
  <2> QED  BY <1>4, <1>5, FS_Injection DEF Last, S
<1>7. PICK m \in S : place[m] = k - 1
  <2>1. k - 1 \in T
    BY <1>1
  <2> HIDE DEF S, T, place
  <2> QED  BY <1>6, <2>1 DEF Surjection
<1>8. Kth(c, k) \in S /\ Cardinality(Before(c, Kth(c, k))) = k - 1
  BY <1>2, <1>7 DEF Kth
<1> DEFINE x == Kth(c, k)
<1> HIDE DEF x
<1>9. x \in S /\ place[x] = k - 1
  BY <1>2, <1>8 DEF x
<1>10. Done(c, k) = Done(c, k - 1) \cup {x} /\ x \notin Done(c, k - 1)
  <2>1. ASSUME NEW n \in S
        PROVE  n \in Done(c, k) <=> n \in Done(c, k - 1) \/ n = x
    <3>1. place[n] \in Nat /\ (place[n] < k <=> place[n] < k - 1 \/ place[n] = k - 1)
      BY <1>1, <1>2
    <3> QED  BY <1>2, <1>3, <1>9, <3>1 DEF Done
  <2>2. x \notin Done(c, k - 1)
    BY <1>1, <1>2, <1>9 DEF Done
  <2>3. Done(c, k) \subseteq S /\ Done(c, k - 1) \subseteq S
    BY DEF Done
  <2> QED  BY <1>9, <2>1, <2>2, <2>3
<1>11. Before(c, x) = Done(c, k - 1)
  <2>1. ASSUME NEW n \in S  PROVE Earlier(c, n, x) <=> Cardinality(Before(c, n)) < k - 1
    BY <1>2, <1>9, BeforeIsCounted
  <2> QED  BY <2>1 DEF Before, Done
<1> QED  BY <1>9, <1>10, <1>11 DEF x

LEMMA ParentComesBefore ==
    ASSUME NEW c, TreeShaped(c), NEW n \in NonRoot(c)
    PROVE  /\ ParentIs(c, n, Parent(c, n))
           /\ Parent(c, n) = c.root \/ Parent(c, n) \in Before(c, n)
<1>1. ParentIs(c, n, Parent(c, n))
  BY ParentIsOne DEF TreeShaped
<1>2. Depth(c)[n] = 1 + Depth(c)[Parent(c, n)] /\ Depth(c)[Parent(c, n)] \in Nat
  BY <1>1, DepthCounts DEF TreeShaped, ParentIs
<1> QED  BY <1>1, <1>2 DEF Before, Earlier, NonRoot, ParentIs

LEMMA DoneEnds ==
    ASSUME NEW c, TreeShaped(c)
    PROVE  Done(c, 0) = {} /\ Done(c, Last(c)) = NonRoot(c) /\ Last(c) \in Nat
<1>1. Last(c) \in Nat
  BY FS_Subset, FS_CardinalityType DEF TreeShaped, NonRoot, Last
<1>2. ASSUME NEW n \in NonRoot(c)
      PROVE  Cardinality(Before(c, n)) < Last(c) /\ ~(Cardinality(Before(c, n)) < 0)
  BY <1>1, BeforeIsCounted
<1> QED  BY <1>1, <1>2 DEF Done

-----------------------------------------------------------------------------
(* The loop of prune_config                                                *)

\* All that a tree is exposed to, directly or by proxy.
Exposures(c) == TerminalInstruments(c) \cup Proxies(c)

States(c) ==
    [children    : [c.nodes -> SUBSET c.nodes],
     instruments : [c.nodes -> SUBSET Exposures(c)],
     parent      : [NonRoot(c) -> c.nodes],
     removed     : SUBSET NonRoot(c),
     cut         : SUBSET NonRoot(c)]

IsPruned(c, verdict, n) == n # c.root /\ verdict[n] = "prune"

\* Dropped as a position of its own parent, rather than with it.
Promoted(c, verdict, s, n) == n \in s.removed \ s.cut /\ ~IsPruned(c, verdict, Parent(c, n))

\* Nothing was done yet to the nodes to come, and cut and dropped nodes were done.
OnlyDone(c, s, D) ==
    /\ s.cut \subseteq s.removed /\ s.removed \subseteq D
    /\ \A n \in NonRoot(c) \ D : s.parent[n] = Parent(c, n)

\* What the verdict has to do with being dropped.
DroppedForAReason(c, verdict, s, D) ==
    /\ \A n \in D : IsPruned(c, verdict, n) => n \in s.removed
    /\ \A n \in s.removed \ s.cut : IsPruned(c, verdict, n)
    /\ \A n \in s.cut : Parent(c, n) \in s.removed

\* A lifted node is kept, and its parent was pruned.
LiftedOnce(c, verdict, s) ==
    \A n \in NonRoot(c) : s.parent[n] # Parent(c, n) =>
        /\ ~IsPruned(c, verdict, n) /\ n \notin s.removed
        /\ IsPruned(c, verdict, Parent(c, n))
        /\ s.parent[n] = Parent(c, Parent(c, n))

\* Children are where the parents say, but for those that became positions.
ChildrenFollow(c, verdict, s) ==
    \A p \in c.nodes :
        /\ c.root \notin s.children[p]
        /\ \A n \in NonRoot(c) :
             n \in s.children[p] <=> s.parent[n] = p /\ ~Promoted(c, verdict, s, n)

KeptHangsOnKept(s, D) == \A n \in D \ s.removed : s.parent[n] \notin s.removed

PromotedIsHeld(c, verdict, s) ==
    \A n \in NonRoot(c) : Promoted(c, verdict, s, n) =>
        /\ Parent(c, n) \notin s.removed
        /\ c.proxy[n] \in s.instruments[Parent(c, n)]

LoopInv(c, verdict, s, D) ==
    /\ s \in States(c)
    /\ OnlyDone(c, s, D)
    /\ DroppedForAReason(c, verdict, s, D)
    /\ LiftedOnce(c, verdict, s)
    /\ ChildrenFollow(c, verdict, s)
    /\ KeptHangsOnKept(s, D)
    /\ PromotedIsHeld(c, verdict, s)

\* Where the loop stands: the nodes that were taken, and the next.
Standing(c, D, n) ==
    /\ D \subseteq NonRoot(c) /\ n \in NonRoot(c) \ D
    /\ \A m \in D \cup {n} : Parent(c, m) = c.root \/ Parent(c, m) \in D

LEMMA LoopStarts ==
    ASSUME NEW c, TreeShaped(c), NEW verdict
    PROVE  LoopInv(c, verdict, Start(c), {})
<1> DEFINE s == Start(c)
<1>1. /\ s.children = c.children /\ s.instruments = c.instruments
      /\ s.parent = [n \in NonRoot(c) |-> Parent(c, n)] /\ s.removed = {} /\ s.cut = {}
  BY DEF Start
<1>2. \A n \in NonRoot(c) : ParentIs(c, n, Parent(c, n)) /\ s.parent[n] = Parent(c, n)
  BY <1>1, ParentComesBefore
<1>3. s \in States(c)
  <2>1. c.instruments \in [c.nodes -> SUBSET Exposures(c)]
    BY DEF TreeShaped, Exposures, TerminalInstruments
  <2> QED  BY <1>2, <2>1 DEF Start, States, ParentIs, TreeShaped
<1>4. \A p \in c.nodes : c.root \notin c.children[p]
  BY RootHasNoParent DEF TreeShaped
<1> HIDE DEF s
<1>5. OnlyDone(c, s, {}) /\ DroppedForAReason(c, verdict, s, {}) /\ LiftedOnce(c, verdict, s)
  BY <1>1, <1>2 DEF OnlyDone, DroppedForAReason, LiftedOnce
<1>6. ChildrenFollow(c, verdict, s)
  BY <1>1, <1>2, <1>4 DEF ChildrenFollow, Promoted, ParentIs
<1>7. KeptHangsOnKept(s, {}) /\ PromotedIsHeld(c, verdict, s)
  BY <1>1 DEF KeptHangsOnKept, PromotedIsHeld, Promoted
<1> QED  BY <1>3, <1>5, <1>6, <1>7 DEF LoopInv, s

\* What is known of the next node's parents.
LEMMA NextNode ==
    ASSUME NEW c, TreeShaped(c), NEW verdict, NEW s, NEW D, NEW n,
           LoopInv(c, verdict, s, D), Standing(c, D, n)
    PROVE  /\ n \notin s.removed /\ s.parent[n] = Parent(c, n)
           /\ ParentIs(c, n, Parent(c, n)) /\ Parent(c, n) # n
           /\ Parent(c, n) \in s.removed \/ ~IsPruned(c, verdict, Parent(c, n))
           /\ Parent(c, n) \in s.removed =>
                Parent(c, n) \in s.cut \/ IsPruned(c, verdict, Parent(c, n))
           /\ IsPruned(c, verdict, Parent(c, n)) =>
                /\ Parent(c, n) \in NonRoot(c) /\ Parent(c, n) \in D
                /\ s.parent[Parent(c, n)] = Parent(c, Parent(c, n))
                /\ ParentIs(c, Parent(c, n), Parent(c, Parent(c, n)))
<1>1. n \in NonRoot(c) \ D /\ s.removed \subseteq D /\ s.parent[n] = Parent(c, n)
  BY DEF LoopInv, OnlyDone, Standing
<1>2. ParentIs(c, n, Parent(c, n)) /\ (Parent(c, n) = c.root \/ Parent(c, n) \in D)
      /\ D \subseteq NonRoot(c)
  BY <1>1, ParentComesBefore DEF Standing
<1>3. Parent(c, n) # n
  BY <1>1, <1>2 DEF NonRoot
<1>4. Parent(c, n) \in s.removed \/ ~IsPruned(c, verdict, Parent(c, n))
  BY <1>2 DEF LoopInv, DroppedForAReason, IsPruned
<1>5. Parent(c, n) \in s.removed =>
        Parent(c, n) \in s.cut \/ IsPruned(c, verdict, Parent(c, n))
  BY DEF LoopInv, DroppedForAReason
<1>6. ASSUME IsPruned(c, verdict, Parent(c, n))
      PROVE  /\ Parent(c, n) \in NonRoot(c) /\ Parent(c, n) \in D
             /\ s.parent[Parent(c, n)] = Parent(c, Parent(c, n))
             /\ ParentIs(c, Parent(c, n), Parent(c, Parent(c, n)))
  <2>1. Parent(c, n) \in D /\ Parent(c, n) \in NonRoot(c)
    BY <1>2, <1>6 DEF IsPruned
  <2>2. s.parent[Parent(c, n)] = Parent(c, Parent(c, n))
    BY <1>6, <2>1 DEF LoopInv, LiftedOnce
  <2> QED  BY <2>1, <2>2, ParentComesBefore
<1> QED  BY <1>1, <1>2, <1>3, <1>4, <1>5, <1>6

\* The five ways the loop deals with a node.
LEMMA NodeIsTaken ==
    ASSUME NEW c, TreeShaped(c), NEW verdict, NEW s, NEW D, NEW n,
           LoopInv(c, verdict, s, D), Standing(c, D, n)
    PROVE  LET p == Parent(c, n)
               t == PruneNode(c, verdict, s, n)
           IN  \/ p \in s.removed /\ t = CutBranch(s, n)
               \/ p \notin s.removed /\ ~IsPruned(c, verdict, p) /\ IsPruned(c, verdict, n)
                    /\ t = Contract(c, s, n)
               \/ p \notin s.removed /\ ~IsPruned(c, verdict, n) /\ t = s
               \/ /\ IsPruned(c, verdict, p) /\ p \in D /\ ~IsPruned(c, verdict, n)
                  /\ p \in s.removed /\ s.parent[p] = Parent(c, p)
                  /\ Parent(c, p) \notin s.removed /\ Parent(c, p) \in c.nodes
                  /\ t = Lift(s, n)
               \/ p \in s.removed /\ IsPruned(c, verdict, p) /\ IsPruned(c, verdict, n)
                    /\ t = DropNode(s, n)
<1> DEFINE p == Parent(c, n)
           t == PruneNode(c, verdict, s, n)
           up == s.parent[n]
<1>1. up = p /\ s.cut \subseteq s.removed
  BY NextNode DEF LoopInv, OnlyDone
<1>2. t = CASE up \in s.cut -> CutBranch(s, n)
            [] up \notin s.cut /\ ~IsPruned(c, verdict, up) /\ IsPruned(c, verdict, n)
                 -> Contract(c, s, n)
            [] up \notin s.cut /\ ~IsPruned(c, verdict, up) /\ ~IsPruned(c, verdict, n) -> s
            [] up \notin s.cut /\ IsPruned(c, verdict, up)
                 /\ IsPruned(c, verdict, s.parent[up]) -> CutBranch(s, n)
            [] up \notin s.cut /\ IsPruned(c, verdict, up)
                 /\ ~IsPruned(c, verdict, s.parent[up]) /\ ~IsPruned(c, verdict, n) -> Lift(s, n)
            [] OTHER -> DropNode(s, n)
  BY DEF PruneNode, IsPruned
<1> HIDE DEF t, up
<1>3. CASE p \in s.cut
  <2>1. t = CutBranch(s, n)
    BY <1>1, <1>2, <1>3
  <2> QED  BY <1>1, <1>3, <2>1 DEF t
<1>4. CASE p \notin s.cut /\ ~IsPruned(c, verdict, p)
  <2>1. p \notin s.removed
    BY <1>4, NextNode
  <2>2. CASE IsPruned(c, verdict, n)
    <3>1. t = Contract(c, s, n)
      BY <1>1, <1>2, <1>4, <2>2
    <3> QED  BY <1>4, <2>1, <2>2, <3>1 DEF t
  <2>3. CASE ~IsPruned(c, verdict, n)
    <3>1. t = s
      BY <1>1, <1>2, <1>4, <2>3
    <3> QED  BY <2>1, <2>3, <3>1 DEF t
  <2> QED  BY <2>2, <2>3
<1>5. CASE p \notin s.cut /\ IsPruned(c, verdict, p)
  <2>1. /\ p \in s.removed /\ p \in D /\ p \in NonRoot(c) /\ s.parent[p] = Parent(c, p)
        /\ ParentIs(c, p, Parent(c, p))
    BY <1>5, NextNode
  <2>2. CASE IsPruned(c, verdict, s.parent[p])
    <3>1. t = CutBranch(s, n)
      BY <1>1, <1>2, <1>5, <2>2
    <3> QED  BY <2>1, <3>1 DEF t
  <2>3. CASE ~IsPruned(c, verdict, s.parent[p]) /\ ~IsPruned(c, verdict, n)
    <3>1. t = Lift(s, n)
      BY <1>1, <1>2, <1>5, <2>3
    <3>2. Promoted(c, verdict, s, p)
      BY <1>5, <2>1, <2>3 DEF Promoted
    <3>3. Parent(c, p) \notin s.removed
      BY <2>1, <3>2 DEF LoopInv, PromotedIsHeld
    <3> QED  BY <1>5, <2>1, <2>3, <3>1, <3>3 DEF t, ParentIs
  <2>4. CASE ~IsPruned(c, verdict, s.parent[p]) /\ IsPruned(c, verdict, n)
    <3>1. t = DropNode(s, n)
      BY <1>1, <1>2, <1>5, <2>4
    <3> QED  BY <1>5, <2>1, <2>4, <3>1 DEF t
  <2> QED  BY <2>2, <2>3, <2>4
<1> QED  BY <1>3, <1>4, <1>5

\* The parents that were recorded are of nodes that were taken.
LEMMA ParentsAreDone ==
    ASSUME NEW c, TreeShaped(c), NEW verdict, NEW s, NEW D, NEW n,
           LoopInv(c, verdict, s, D), Standing(c, D, n), NEW m \in D
    PROVE  Parent(c, m) # n /\ s.parent[m] # n
<1>1. D \subseteq NonRoot(c) /\ n \notin D /\ n # c.root
  BY DEF Standing, NonRoot
<1>2. \A k \in D : Parent(c, k) = c.root \/ Parent(c, k) \in D
  BY DEF Standing
<1>3. s.parent[m] = Parent(c, m)
      \/ (Parent(c, m) # c.root /\ s.parent[m] = Parent(c, Parent(c, m)))
  BY <1>1 DEF LoopInv, LiftedOnce, IsPruned
<1> QED  BY <1>1, <1>2, <1>3

LEMMA DroppingKeeps ==
    ASSUME NEW c, TreeShaped(c), NEW verdict, NEW s, NEW D, NEW n, NEW t,
           LoopInv(c, verdict, s, D), Standing(c, D, n), t \in States(c),
           t.children = s.children, t.instruments = s.instruments, t.parent = s.parent,
           t.removed = s.removed \cup {n},
           Parent(c, n) \in s.removed,
           \/ t.cut = s.cut \cup {n}
           \/ /\ t.cut = s.cut
              /\ IsPruned(c, verdict, n) /\ IsPruned(c, verdict, Parent(c, n))
    PROVE  LoopInv(c, verdict, t, D \cup {n})
<1>1. /\ n \in NonRoot(c) /\ n \notin D /\ D \subseteq NonRoot(c)
      /\ n \notin s.removed /\ s.parent[n] = Parent(c, n)
      /\ s.cut \subseteq s.removed /\ s.removed \subseteq D
  BY NextNode DEF Standing, LoopInv, OnlyDone
<1>2. OnlyDone(c, t, D \cup {n})
  BY <1>1 DEF LoopInv, OnlyDone
<1>3. DroppedForAReason(c, verdict, t, D \cup {n})
  BY <1>1 DEF LoopInv, DroppedForAReason
<1>4. LiftedOnce(c, verdict, t)
  BY <1>1 DEF LoopInv, LiftedOnce
<1>5. \A m \in NonRoot(c) : Promoted(c, verdict, t, m) <=> Promoted(c, verdict, s, m)
  BY <1>1 DEF Promoted
<1>6. ChildrenFollow(c, verdict, t)
  BY <1>5 DEF LoopInv, ChildrenFollow
<1>7. KeptHangsOnKept(t, D \cup {n})
  BY <1>1, ParentsAreDone DEF LoopInv, KeptHangsOnKept
<1>8. PromotedIsHeld(c, verdict, t)
  <2>1. ASSUME NEW m \in NonRoot(c), Promoted(c, verdict, t, m)
        PROVE  /\ Parent(c, m) \notin t.removed
               /\ c.proxy[m] \in t.instruments[Parent(c, m)]
    <3>1. Promoted(c, verdict, s, m)
      BY <1>5, <2>1
    <3>2. m \in D
      BY <1>1, <3>1 DEF Promoted
    <3>3. Parent(c, m) # n
      BY <3>2, ParentsAreDone
    <3> QED  BY <2>1, <3>1, <3>3 DEF LoopInv, PromotedIsHeld
  <2> QED  BY <2>1 DEF PromotedIsHeld
<1> QED  BY <1>2, <1>3, <1>4, <1>6, <1>7, <1>8 DEF LoopInv

LEMMA RetainingKeeps ==
    ASSUME NEW c, TreeShaped(c), NEW verdict, NEW s, NEW D, NEW n,
           LoopInv(c, verdict, s, D), Standing(c, D, n),
           Parent(c, n) \notin s.removed, ~IsPruned(c, verdict, n)
    PROVE  LoopInv(c, verdict, s, D \cup {n})
<1>1. n \notin s.removed /\ s.parent[n] = Parent(c, n)
  BY NextNode
<1>2. OnlyDone(c, s, D \cup {n})
  BY DEF LoopInv, OnlyDone
<1>3. DroppedForAReason(c, verdict, s, D \cup {n})
  BY DEF LoopInv, DroppedForAReason
<1>4. KeptHangsOnKept(s, D \cup {n})
  BY <1>1 DEF LoopInv, KeptHangsOnKept
<1> QED  BY <1>2, <1>3, <1>4 DEF LoopInv

LEMMA ContractingKeeps ==
    ASSUME NEW c, TreeShaped(c), NEW verdict, NEW s, NEW D, NEW n,
           LoopInv(c, verdict, s, D), Standing(c, D, n),
           Parent(c, n) \notin s.removed, ~IsPruned(c, verdict, Parent(c, n)),
           IsPruned(c, verdict, n)
    PROVE  LoopInv(c, verdict, Contract(c, s, n), D \cup {n})
<1> DEFINE p == Parent(c, n)
           t == Contract(c, s, n)
<1>1. /\ n \in NonRoot(c) /\ n \notin D /\ D \subseteq NonRoot(c)
      /\ n \notin s.removed /\ s.parent[n] = p
      /\ s.cut \subseteq s.removed /\ s.removed \subseteq D
      /\ p \in c.nodes /\ n \in c.children[p] /\ p # n
  BY NextNode DEF Standing, LoopInv, OnlyDone, ParentIs
<1>2. c.proxy[n] \in Exposures(c) /\ c.proxy[n] # None
  BY <1>1 DEF TreeShaped, IsTree, ChildrenHaveProxies, NonRoot, Exposures, Proxies
<1>3. s \in States(c)
  BY DEF LoopInv
<1>4. /\ t.children = [s.children EXCEPT ![p] = @ \ {n}]
      /\ t.instruments = [s.instruments EXCEPT ![p] = @ \cup ({c.proxy[n]} \ {None})]
      /\ t.parent = s.parent /\ t.removed = s.removed \cup {n} /\ t.cut = s.cut
      /\ t \in States(c)
  BY <1>1, <1>2, <1>3 DEF States, Contract, DropNode
<1> HIDE DEF t
<1>5. /\ \A q \in c.nodes : t.children[q] = IF q = p THEN s.children[q] \ {n} ELSE s.children[q]
      /\ \A q \in c.nodes : s.instruments[q] \subseteq t.instruments[q]
      /\ c.proxy[n] \in t.instruments[p]
  <2> HIDE DEF p
  <2>1. /\ s.children \in [c.nodes -> SUBSET c.nodes]
        /\ s.instruments \in [c.nodes -> SUBSET Exposures(c)]
    BY <1>3 DEF States
  <2>2. \A q \in c.nodes : t.children[q] = IF q = p THEN s.children[q] \ {n} ELSE s.children[q]
    BY <1>1, <1>4, <2>1
  <2>3. \A q \in c.nodes :
          t.instruments[q] = IF q = p THEN s.instruments[q] \cup ({c.proxy[n]} \ {None})
                                      ELSE s.instruments[q]
    BY <1>1, <1>4, <2>1
  <2> QED  BY <1>1, <1>2, <2>2, <2>3
<1>6. OnlyDone(c, t, D \cup {n})
  BY <1>1, <1>4 DEF LoopInv, OnlyDone
<1>7. DroppedForAReason(c, verdict, t, D \cup {n})
  BY <1>1, <1>4 DEF LoopInv, DroppedForAReason
<1>8. LiftedOnce(c, verdict, t)
  BY <1>1, <1>4 DEF LoopInv, LiftedOnce
<1>9. /\ \A m \in NonRoot(c) \ {n} : Promoted(c, verdict, t, m) <=> Promoted(c, verdict, s, m)
      /\ Promoted(c, verdict, t, n) /\ ~Promoted(c, verdict, s, n)
  BY <1>1, <1>4 DEF Promoted
<1>10. ChildrenFollow(c, verdict, t)
  <2>1. ASSUME NEW q \in c.nodes  PROVE c.root \notin t.children[q]
    <3>1. c.root \notin s.children[q]
      BY DEF LoopInv, ChildrenFollow
    <3>2. t.children[q] \subseteq s.children[q]
      BY <1>5
    <3> QED  BY <3>1, <3>2
  <2>2. ASSUME NEW q \in c.nodes, NEW m \in NonRoot(c)
        PROVE  m \in t.children[q] <=> t.parent[m] = q /\ ~Promoted(c, verdict, t, m)
    <3>1. m \in s.children[q] <=> s.parent[m] = q /\ ~Promoted(c, verdict, s, m)
      BY DEF LoopInv, ChildrenFollow
    <3>2. CASE m = n
      BY <1>1, <1>4, <1>5, <1>9, <3>1, <3>2
    <3>3. CASE m # n
      BY <1>4, <1>5, <1>9, <3>1, <3>3
    <3> QED  BY <3>2, <3>3
  <2> QED  BY <2>1, <2>2 DEF ChildrenFollow
<1>11. KeptHangsOnKept(t, D \cup {n})
  BY <1>1, <1>4, ParentsAreDone DEF LoopInv, KeptHangsOnKept
<1>12. PromotedIsHeld(c, verdict, t)
  <2>1. ASSUME NEW m \in NonRoot(c), Promoted(c, verdict, t, m)
        PROVE  /\ Parent(c, m) \notin t.removed
               /\ c.proxy[m] \in t.instruments[Parent(c, m)]
    <3>1. CASE m = n
      BY <1>1, <1>4, <1>5, <3>1
    <3>2. CASE m # n
      <4>1. Promoted(c, verdict, s, m)
        BY <1>9, <2>1, <3>2
      <4>2. m \in D
        BY <1>1, <4>1 DEF Promoted
      <4>3. Parent(c, m) # n /\ Parent(c, m) \in c.nodes
        BY <4>2, ParentsAreDone, ParentComesBefore DEF ParentIs
      <4> QED  BY <1>4, <1>5, <4>1, <4>3 DEF LoopInv, PromotedIsHeld
    <3> QED  BY <3>1, <3>2
  <2> QED  BY <2>1 DEF PromotedIsHeld
<1> QED  BY <1>4, <1>6, <1>7, <1>8, <1>10, <1>11, <1>12 DEF LoopInv, t

LEMMA LiftingKeeps ==
    ASSUME NEW c, TreeShaped(c), NEW verdict, NEW s, NEW D, NEW n,
           LoopInv(c, verdict, s, D), Standing(c, D, n),
           IsPruned(c, verdict, Parent(c, n)), ~IsPruned(c, verdict, n),
           s.parent[Parent(c, n)] = Parent(c, Parent(c, n)),
           Parent(c, Parent(c, n)) \notin s.removed, Parent(c, Parent(c, n)) \in c.nodes
    PROVE  LoopInv(c, verdict, Lift(s, n), D \cup {n})
<1> DEFINE p == Parent(c, n)
           g == Parent(c, p)
           t == Lift(s, n)
<1>1. /\ n \in NonRoot(c) /\ n \notin D /\ D \subseteq NonRoot(c)
      /\ n \notin s.removed /\ s.parent[n] = p
      /\ s.cut \subseteq s.removed /\ s.removed \subseteq D
      /\ p \in c.nodes /\ g \in c.nodes /\ s.parent[p] = g
      /\ n \in c.nodes
  BY NextNode DEF Standing, LoopInv, OnlyDone, ParentIs, NonRoot
<1>2. s \in States(c)
  BY DEF LoopInv
<1>3. /\ t.children = [[s.children EXCEPT ![p] = @ \ {n}] EXCEPT ![g] = @ \cup {n}]
      /\ t.instruments = s.instruments /\ t.removed = s.removed /\ t.cut = s.cut
      /\ t.parent = [s.parent EXCEPT ![n] = g]
      /\ t \in States(c)
  <2>1. /\ t.children = [[s.children EXCEPT ![p] = @ \ {n}] EXCEPT ![g] = @ \cup {n}]
        /\ t.parent = [s.parent EXCEPT ![n] = g]
        /\ t.instruments = s.instruments /\ t.removed = s.removed /\ t.cut = s.cut
        /\ t = [children |-> t.children, instruments |-> t.instruments,
                parent |-> t.parent, removed |-> t.removed, cut |-> t.cut]
    <3>1. t = [s EXCEPT !.children[p] = @ \ {n}, !.children[g] = @ \cup {n}, !.parent[n] = g]
      <4> HIDE DEF p, g
      <4> QED  BY <1>1 DEF Lift
    <3> HIDE DEF t, p, g
    <3> QED  BY <1>2, <3>1 DEF States
  <2> HIDE DEF t, p, g
  <2>2. t.children \in [c.nodes -> SUBSET c.nodes] /\ t.parent \in [NonRoot(c) -> c.nodes]
    BY <1>1, <1>2, <2>1 DEF States
  <2> QED  BY <1>2, <2>1, <2>2 DEF States
<1> HIDE DEF t
<1>4. /\ \A q \in c.nodes : t.children[q] = (IF q = p THEN s.children[q] \ {n} ELSE s.children[q])
                                            \cup (IF q = g THEN {n} ELSE {})
      /\ \A m \in NonRoot(c) \ {n} : t.parent[m] = s.parent[m]
      /\ t.parent[n] = g
  <2> HIDE DEF p, g
  <2> QED  BY <1>1, <1>2, <1>3 DEF States
<1>5. OnlyDone(c, t, D \cup {n})
  BY <1>1, <1>3, <1>4 DEF LoopInv, OnlyDone
<1>6. DroppedForAReason(c, verdict, t, D \cup {n})
  BY <1>1, <1>3 DEF LoopInv, DroppedForAReason
<1>7. LiftedOnce(c, verdict, t)
  BY <1>1, <1>3, <1>4 DEF LoopInv, LiftedOnce
<1>8. \A m \in NonRoot(c) : Promoted(c, verdict, t, m) <=> Promoted(c, verdict, s, m)
  BY <1>3 DEF Promoted
<1>9. ~Promoted(c, verdict, s, n)
  BY <1>1 DEF Promoted
<1>10. ChildrenFollow(c, verdict, t)
  <2>1. ASSUME NEW q \in c.nodes  PROVE c.root \notin t.children[q]
    <3>1. n # c.root /\ c.root \notin s.children[q]
      BY <1>1 DEF NonRoot, LoopInv, ChildrenFollow
    <3> QED  BY <1>4, <3>1
  <2>2. ASSUME NEW q \in c.nodes, NEW m \in NonRoot(c)
        PROVE  m \in t.children[q] <=> t.parent[m] = q /\ ~Promoted(c, verdict, t, m)
    <3>1. m \in s.children[q] <=> s.parent[m] = q /\ ~Promoted(c, verdict, s, m)
      BY DEF LoopInv, ChildrenFollow
    <3> HIDE DEF p, g
    <3>2. CASE m = n
      BY <1>1, <1>4, <1>8, <1>9, <3>1, <3>2
    <3>3. CASE m # n
      BY <1>4, <1>8, <3>1, <3>3
    <3> QED  BY <3>2, <3>3
  <2> QED  BY <2>1, <2>2 DEF ChildrenFollow
<1>11. KeptHangsOnKept(t, D \cup {n})
  <2>1. ASSUME NEW m \in D \ s.removed  PROVE t.parent[m] \notin s.removed
    BY <1>1, <1>4 DEF LoopInv, KeptHangsOnKept
  <2> QED  BY <1>3, <1>4, <2>1 DEF KeptHangsOnKept
<1>12. PromotedIsHeld(c, verdict, t)
  BY <1>3, <1>8 DEF LoopInv, PromotedIsHeld
<1> QED  BY <1>3, <1>5, <1>6, <1>7, <1>10, <1>11, <1>12 DEF LoopInv, t

LEMMA LoopStep ==
    ASSUME NEW c, TreeShaped(c), NEW verdict, NEW s, NEW D, NEW n,
           LoopInv(c, verdict, s, D), Standing(c, D, n)
    PROVE  LoopInv(c, verdict, PruneNode(c, verdict, s, n), D \cup {n})
<1> DEFINE p == Parent(c, n)
           t == PruneNode(c, verdict, s, n)
<1>1. s \in States(c) /\ n \in NonRoot(c)
  BY DEF LoopInv, Standing
<1>2. CASE p \in s.removed /\ t = CutBranch(s, n)
  <2>1. /\ t \in States(c) /\ t.children = s.children /\ t.instruments = s.instruments
        /\ t.parent = s.parent /\ t.removed = s.removed \cup {n} /\ t.cut = s.cut \cup {n}
    <3> HIDE DEF t
    <3> QED  BY <1>1, <1>2 DEF CutBranch, DropNode, States
  <2> HIDE DEF t
  <2>2. LoopInv(c, verdict, t, D \cup {n})
    BY <1>2, <2>1, DroppingKeeps
  <2> QED  BY <2>2 DEF t
<1>3. CASE /\ p \notin s.removed /\ ~IsPruned(c, verdict, p) /\ IsPruned(c, verdict, n)
           /\ t = Contract(c, s, n)
  BY <1>3, ContractingKeeps
<1>4. CASE p \notin s.removed /\ ~IsPruned(c, verdict, n) /\ t = s
  BY <1>4, RetainingKeeps
<1>5. CASE /\ IsPruned(c, verdict, p) /\ p \in D /\ ~IsPruned(c, verdict, n)
           /\ p \in s.removed /\ s.parent[p] = Parent(c, p)
           /\ Parent(c, p) \notin s.removed /\ Parent(c, p) \in c.nodes
           /\ t = Lift(s, n)
  BY <1>5, LiftingKeeps
<1>6. CASE /\ p \in s.removed /\ IsPruned(c, verdict, p) /\ IsPruned(c, verdict, n)
           /\ t = DropNode(s, n)
  <2>1. /\ t \in States(c) /\ t.children = s.children /\ t.instruments = s.instruments
        /\ t.parent = s.parent /\ t.removed = s.removed \cup {n} /\ t.cut = s.cut
    <3> HIDE DEF t
    <3> QED  BY <1>1, <1>6 DEF DropNode, States
  <2> HIDE DEF t
  <2>2. LoopInv(c, verdict, t, D \cup {n})
    BY <1>6, <2>1, DroppingKeeps
  <2> QED  BY <2>2 DEF t
<1> QED  BY <1>2, <1>3, <1>4, <1>5, <1>6, NodeIsTaken

LEMMA NextStands ==
    ASSUME NEW c, TreeShaped(c), NEW k \in 1..Last(c)
    PROVE  Standing(c, Done(c, k - 1), Kth(c, k))
<1>1. /\ Kth(c, k) \in NonRoot(c) \ Done(c, k - 1)
      /\ Before(c, Kth(c, k)) = Done(c, k - 1)
  BY KthIsNext
<1>2. Done(c, k - 1) \subseteq NonRoot(c)
  BY DEF Done
<1>3. ASSUME NEW m \in Done(c, k - 1) \cup {Kth(c, k)}
      PROVE  Parent(c, m) = c.root \/ Parent(c, m) \in Done(c, k - 1)
  <2>1. m \in NonRoot(c)
    BY <1>1, <1>2
  <2>2. Parent(c, m) = c.root \/ Parent(c, m) \in Before(c, m)
    BY <2>1, ParentComesBefore
  <2>3. CASE m = Kth(c, k)
    BY <1>1, <2>2, <2>3
  <2>4. CASE m \in Done(c, k - 1)
    <3>1. Earlier(c, m, Kth(c, k))
      BY <1>1, <2>4 DEF Before
    <3>2. ASSUME Parent(c, m) \in Before(c, m)
          PROVE  Parent(c, m) \in Before(c, Kth(c, k))
      <4>1. Parent(c, m) \in NonRoot(c) /\ Earlier(c, Parent(c, m), m)
        BY <3>2 DEF Before
      <4>2. Earlier(c, Parent(c, m), Kth(c, k))
        BY <1>1, <2>1, <3>1, <4>1, OrderIsTotal
      <4> QED  BY <4>1, <4>2 DEF Before
    <3> QED  BY <1>1, <2>2, <3>2
  <2> QED  BY <1>3, <2>3, <2>4
<1> QED  BY <1>1, <1>2, <1>3 DEF Standing

LEMMA LoopGoesOn ==
    ASSUME NEW c, TreeShaped(c), NEW verdict, NEW k \in 1..Last(c), NEW s,
           LoopInv(c, verdict, s, Done(c, k - 1))
    PROVE  LoopInv(c, verdict, PruneNode(c, verdict, s, Kth(c, k)), Done(c, k))
BY NextStands, KthIsNext, LoopStep

LEMMA LoopHolds ==
    ASSUME NEW c, TreeShaped(c), NEW verdict, NEW f, f[0] = Start(c),
           \A k \in 1..Last(c) :
             LoopInv(c, verdict, f[k - 1], Done(c, k - 1)) =>
               f[k] = PruneNode(c, verdict, f[k - 1], Kth(c, k))
    PROVE  \A k \in 0..Last(c) : LoopInv(c, verdict, f[k], Done(c, k))
<1> DEFINE wrong == {k \in 0..Last(c) : ~LoopInv(c, verdict, f[k], Done(c, k))}
           k == Min(wrong)
<1> SUFFICES ASSUME wrong # {}  PROVE FALSE
  OBVIOUS
<1>1. Last(c) \in Nat /\ Done(c, 0) = {}
  BY DoneEnds
<1>2. k \in wrong /\ \A y \in wrong : k <= y
  <2> wrong \subseteq Nat  BY <1>1
  <2> HIDE DEF wrong
  <2> QED  BY FirstExists
<1>3. 0 \notin wrong
  BY <1>1, LoopStarts
<1> HIDE DEF k
<1>4. k \in 1..Last(c) /\ ~LoopInv(c, verdict, f[k], Done(c, k))
  BY <1>1, <1>2, <1>3
<1>5. LoopInv(c, verdict, f[k - 1], Done(c, k - 1))
  <2>1. k - 1 \in 0..Last(c) /\ ~(k <= k - 1)
    BY <1>1, <1>4
  <2> QED  BY <1>2, <2>1
<1>6. f[k] = PruneNode(c, verdict, f[k - 1], Kth(c, k))
  BY <1>4, <1>5
<1> QED  BY <1>4, <1>5, <1>6, LoopGoesOn

\* What the loop leaves has been through every node.
LEMMA LoopEnds ==
    ASSUME NEW c, TreeShaped(c), NEW verdict
    PROVE  \E end : /\ PruneConfig(c, verdict) = Contracted(c, end)
                    /\ LoopInv(c, verdict, end, NonRoot(c))
<1> DEFINE S == States(c)
           start == Start(c)
           next(k, x) == PruneNode(c, verdict, x, Kth(c, k))
           step == [k \in Nat \ {0} |-> [x \in S |-> IF next(k, x) \in S THEN next(k, x) ELSE x]]
<1>1. Last(c) \in Nat /\ Done(c, Last(c)) = NonRoot(c)
  BY DoneEnds
<1>2. start \in S
  BY LoopStarts DEF LoopInv
<1>3. step \in [Nat \ {0} -> [S -> S]]
  <2> HIDE DEF S, next
  <2> QED  OBVIOUS
<1>4. PICK f \in [Nat -> S] : Iterates(f, start, step)
  <2> HIDE DEF S, step, start
  <2> QED  BY <1>2, <1>3, IterationExists
<1>5. f[0] = Start(c)
  BY <1>4 DEF Iterates
<1>6. ASSUME NEW k \in 1..Last(c), LoopInv(c, verdict, f[k - 1], Done(c, k - 1))
      PROVE  f[k] = PruneNode(c, verdict, f[k - 1], Kth(c, k))
  <2>1. next(k, f[k - 1]) \in S
    BY <1>6, LoopGoesOn DEF LoopInv
  <2>2. k \in Nat \ {0} /\ k - 1 \in Nat
    BY <1>1
  <2>3. f[k] = step[k][f[k - 1]] /\ f[k - 1] \in S
    <3> HIDE DEF S, step
    <3> QED  BY <1>4, <2>2 DEF Iterates
  <2>4. step[k][f[k - 1]] = next(k, f[k - 1])
    <3> HIDE DEF S, next
    <3> QED  BY <2>1, <2>2, <2>3
  <2> QED  BY <2>3, <2>4
<1>7. \A k \in 0..Last(c) : LoopInv(c, verdict, f[k], Done(c, k))
  BY <1>5, <1>6, LoopHolds
<1> DEFINE g == [k \in 0..Last(c) |-> f[k]]
<1>8. IsContraction(c, verdict, g)
  <2>1. ASSUME NEW k \in 0..Last(c)
        PROVE  g[k] = IF k = 0 THEN Start(c) ELSE PruneNode(c, verdict, g[k - 1], Kth(c, k))
    <3>1. CASE k = 0
      BY <1>5, <3>1
    <3>2. CASE k # 0
      <4>1. k \in 1..Last(c) /\ k - 1 \in 0..Last(c)
        BY <1>1, <3>2
      <4> QED  BY <1>6, <1>7, <3>2, <4>1
    <3> QED  BY <3>1, <3>2
  <2>2. g = [k \in 0..Last(c) |-> g[k]]
    OBVIOUS
  <2> HIDE DEF g
  <2> QED  BY <2>1, <2>2 DEF IsContraction
<1> DEFINE s == CHOOSE x : IsContraction(c, verdict, x)
<1>9. IsContraction(c, verdict, s)
  <2> HIDE DEF g
  <2> QED  BY <1>8
<1> HIDE DEF s
<1>10. ASSUME NEW k \in 0..Last(c)
       PROVE  s[k] = IF k = 0 THEN Start(c) ELSE PruneNode(c, verdict, s[k - 1], Kth(c, k))
  BY <1>9 DEF IsContraction
<1>11. s[0] = Start(c)
  BY <1>1, <1>10
<1>12. ASSUME NEW k \in 1..Last(c)  PROVE s[k] = PruneNode(c, verdict, s[k - 1], Kth(c, k))
  <2>1. k \in 0..Last(c) /\ k # 0
    BY <1>1
  <2> QED  BY <1>10, <2>1
<1>13. \A k \in 0..Last(c) : LoopInv(c, verdict, s[k], Done(c, k))
  BY <1>11, <1>12, LoopHolds
<1>14. LoopInv(c, verdict, s[Last(c)], NonRoot(c))
  BY <1>1, <1>13
<1> QED  BY <1>14, PruneConfigIsTheLoop DEF s

-----------------------------------------------------------------------------
(* What the loop leaves                                                    *)

LEMMA ContractedFields ==
    ASSUME NEW c, TreeShaped(c), NEW end
    PROVE  LET t == Contracted(c, end)
           IN  /\ t.nodes = c.nodes \ end.removed /\ t.root = c.root /\ t.proxy = c.proxy
               /\ t.children = end.children /\ t.instruments = end.instruments
BY DEF Contracted, TreeShaped

LEMMA DroppedHangsOnDropped ==
    ASSUME NEW c, TreeShaped(c), NEW verdict, NEW s, LoopInv(c, verdict, s, NonRoot(c)),
           NEW n \in s.removed, ~Promoted(c, verdict, s, n)
    PROVE  Parent(c, n) \in s.removed
<1>1. n \in NonRoot(c)
  BY DEF LoopInv, OnlyDone
<1>2. CASE n \in s.cut
  BY <1>2 DEF LoopInv, DroppedForAReason
<1>3. CASE n \notin s.cut
  <2>1. IsPruned(c, verdict, Parent(c, n))
    BY <1>3 DEF Promoted
  <2>2. Parent(c, n) \in NonRoot(c)
    BY <1>1, <2>1, ParentComesBefore DEF IsPruned, NonRoot, ParentIs
  <2> QED  BY <2>1, <2>2 DEF LoopInv, DroppedForAReason
<1> QED  BY <1>2, <1>3

\* A contraction holds what the tree held, or saw as a proxy.
LEMMA ContractionHolds ==
    ASSUME NEW c, TreeShaped(c), NEW verdict, NEW t, t = PruneConfig(c, verdict)
    PROVE  \A n \in t.nodes : t.instruments[n] \subseteq Exposures(c) /\ t.proxy[n] = c.proxy[n]
<1>1. PICK s : t = Contracted(c, s) /\ LoopInv(c, verdict, s, NonRoot(c))
  BY LoopEnds
<1>2. /\ t.nodes = c.nodes \ s.removed /\ t.proxy = c.proxy
      /\ t.instruments = s.instruments
  BY <1>1, ContractedFields
<1>3. s \in States(c)
  BY <1>1 DEF LoopInv
<1> QED  BY <1>2, <1>3 DEF States

\* Whatever the verdicts, the contracted configuration is a tree, and a node's parent was
\* its parent or its grandparent.
LEMMA ContractionLeavesATree ==
    ASSUME NEW c, TreeShaped(c), NEW verdict, NEW t, t = PruneConfig(c, verdict)
    PROVE  /\ IsTree(t) /\ IsFiniteSet(t.nodes)
           /\ t.root = c.root /\ t.nodes \subseteq c.nodes
           /\ \A n \in NonRoot(t) :
                \/ Parent(t, n) = Parent(c, n)
                \/ Parent(t, n) = Parent(c, Parent(c, n)) /\ Parent(c, n) # c.root
<1>1. PICK s : t = Contracted(c, s) /\ LoopInv(c, verdict, s, NonRoot(c))
  BY LoopEnds
<1>2. /\ t.nodes = c.nodes \ s.removed /\ t.root = c.root /\ t.proxy = c.proxy
      /\ t.children = s.children
  BY <1>1, ContractedFields
<1>3. /\ s \in States(c) /\ s.removed \subseteq NonRoot(c) /\ c.root \in c.nodes
      /\ IsFiniteSet(c.nodes)
  BY <1>1 DEF LoopInv, OnlyDone, TreeShaped, IsTree
<1>4. IsFiniteSet(t.nodes) /\ t.root \in t.nodes /\ NonRoot(t) = NonRoot(c) \ s.removed
      /\ t.nodes \subseteq c.nodes
  BY <1>2, <1>3, FS_Subset DEF NonRoot
<1>5. ASSUME NEW n \in NonRoot(t)
      PROVE  /\ s.parent[n] \in t.nodes /\ n \in t.children[s.parent[n]]
             /\ \A p \in t.nodes : n \in t.children[p] => p = s.parent[n]
             /\ \/ s.parent[n] = Parent(c, n)
                \/ s.parent[n] = Parent(c, Parent(c, n)) /\ Parent(c, n) # c.root
  <2>1. n \in NonRoot(c) \ s.removed /\ ~Promoted(c, verdict, s, n)
    BY <1>4 DEF Promoted
  <2>2. s.parent[n] \in c.nodes
    BY <1>3, <2>1 DEF States
  <2>3. s.parent[n] \notin s.removed
    BY <1>1, <2>1 DEF LoopInv, KeptHangsOnKept
  <2>4. \A p \in c.nodes : n \in s.children[p] <=> s.parent[n] = p
    BY <1>1, <2>1 DEF LoopInv, ChildrenFollow
  <2>5. \/ s.parent[n] = Parent(c, n)
        \/ s.parent[n] = Parent(c, Parent(c, n)) /\ Parent(c, n) # c.root
    BY <1>1, <2>1 DEF LoopInv, LiftedOnce, IsPruned
  <2> QED  BY <1>2, <2>2, <2>3, <2>4, <2>5
<1>6. ASSUME NEW p \in t.nodes, NEW n \in t.children[p]
      PROVE  n \in NonRoot(t) /\ n \in NonRoot(c)
  <2>1. p \in c.nodes /\ n \in c.nodes /\ n \in s.children[p] /\ p \notin s.removed
    BY <1>2, <1>3, <1>6 DEF States
  <2>2. n \in NonRoot(c)
    BY <1>1, <2>1 DEF LoopInv, ChildrenFollow, NonRoot
  <2>3. s.parent[n] = p /\ ~Promoted(c, verdict, s, n)
    BY <1>1, <2>1, <2>2 DEF LoopInv, ChildrenFollow
  <2>4. n \notin s.removed
    <3> SUFFICES ASSUME n \in s.removed  PROVE FALSE
      OBVIOUS
    <3>1. Parent(c, n) \in s.removed
      BY <1>1, <2>3, DroppedHangsOnDropped
    <3>2. s.parent[n] = Parent(c, n)
      BY <1>1, <2>2 DEF LoopInv, LiftedOnce
    <3> QED  BY <2>1, <2>3, <3>1, <3>2
  <2> QED  BY <1>4, <2>2, <2>4
<1>7. ChildrenAreDeclared(t)
  BY <1>4, <1>6 DEF ChildrenAreDeclared, NonRoot
<1>8. OneParentEach(t)
  <2>1. ASSUME NEW n \in NonRoot(t)
        PROVE  Cardinality({p \in t.nodes : n \in t.children[p]}) = 1
    <3>1. {p \in t.nodes : n \in t.children[p]} = {s.parent[n]}
      BY <1>5
    <3> QED  BY <3>1, FS_Singleton
  <2>2. Cardinality({p \in t.nodes : t.root \in t.children[p]}) = 0
    <3>1. {p \in t.nodes : t.root \in t.children[p]} = {}
      BY <1>6 DEF NonRoot
    <3> QED  BY <3>1, FS_EmptySet
  <2> QED  BY <2>1, <2>2 DEF OneParentEach, NonRoot
<1>9. EveryNodeIsReached(t)
  <2> DEFINE d == Depth(c)
             up == s.parent
  <2>1. \A n \in t.nodes : d[n] \in Nat
    BY <1>4, DepthCounts DEF TreeShaped
  <2>2. ASSUME NEW n \in NonRoot(t)
        PROVE  up[n] \in t.nodes /\ n \in t.children[up[n]] /\ d[up[n]] < d[n]
    <3>1. n \in NonRoot(c)
      BY <1>4
    <3>2. d[n] = 1 + d[Parent(c, n)] /\ Parent(c, n) \in c.nodes /\ d[Parent(c, n)] \in Nat
      BY <3>1, DepthCounts, ParentComesBefore DEF TreeShaped, ParentIs
    <3>3. CASE up[n] = Parent(c, n)
      BY <1>5, <3>2, <3>3
    <3>4. CASE up[n] = Parent(c, Parent(c, n)) /\ Parent(c, n) # c.root
      <4>1. Parent(c, n) \in NonRoot(c)
        BY <3>2, <3>4 DEF NonRoot
      <4>2. d[Parent(c, n)] = 1 + d[up[n]] /\ d[up[n]] \in Nat
        BY <3>4, <4>1, DepthCounts, ParentComesBefore DEF TreeShaped, ParentIs
      <4> QED  BY <1>5, <3>2, <4>2
    <3> QED  BY <1>5, <3>3, <3>4
  <2> HIDE DEF d, up
  <2> QED  BY <1>4, <1>7, <2>1, <2>2, RankedNodesAreReached
<1>10. ChildrenHaveProxies(t)
  <2>1. ASSUME NEW p \in t.nodes, NEW n \in t.children[p]  PROVE c.proxy[n] # None
    <3>1. ParentIs(c, n, Parent(c, n))
      BY <1>6, ParentComesBefore
    <3> QED  BY <3>1 DEF TreeShaped, IsTree, ChildrenHaveProxies, ParentIs
  <2> QED  BY <1>2, <2>1 DEF ChildrenHaveProxies
<1>11. ASSUME NEW n \in NonRoot(t)
       PROVE  \/ Parent(t, n) = Parent(c, n)
              \/ Parent(t, n) = Parent(c, Parent(c, n)) /\ Parent(c, n) # c.root
  <2>1. Parent(t, n) \in t.nodes /\ n \in t.children[Parent(t, n)]
    BY <1>5 DEF Parent
  <2>2. Parent(t, n) = s.parent[n]
    BY <1>5, <2>1
  <2> QED  BY <1>5, <2>2
<1>12. IsTree(t)
  BY <1>4, <1>7, <1>8, <1>9, <1>10 DEF IsTree
<1> QED  BY <1>2, <1>4, <1>11, <1>12

\* The local definition of ExposureSurvives: a node and its ancestors.
IsLine(c, line) ==
    line = [n \in c.nodes |-> {n} \cup IF n = c.root THEN {} ELSE line[Parent(c, n)]]
Line(c) == CHOOSE line : IsLine(c, line)

LEMMA LinesGoUp ==
    ASSUME NEW c, TreeShaped(c)
    PROVE  /\ \A n \in c.nodes : n \in Line(c)[n]
           /\ \A n \in NonRoot(c) : Line(c)[Parent(c, n)] \subseteq Line(c)[n]
<1> DEFINE S == [c.nodes -> SUBSET c.nodes]
           start == [n \in c.nodes |-> {}]
           longer(x) == [n \in c.nodes |-> {n} \cup IF n = c.root THEN {} ELSE x[Parent(c, n)]]
           step == [k \in Nat \ {0} |-> [x \in S |-> longer(x)]]
           d == Depth(c)
<1>1. \A n \in NonRoot(c) : Parent(c, n) \in c.nodes
  BY ParentComesBefore DEF ParentIs
<1>2. \A x \in S : longer(x) \in S
  <2> SUFFICES ASSUME NEW x \in S, NEW n \in c.nodes
               PROVE  {n} \cup (IF n = c.root THEN {} ELSE x[Parent(c, n)]) \subseteq c.nodes
    OBVIOUS
  <2> QED  BY <1>1 DEF NonRoot
<1>3. start \in S /\ step \in [Nat \ {0} -> [S -> S]]
  <2>1. start \in S  OBVIOUS
  <2> HIDE DEF S, start, longer
  <2> QED  BY <1>2, <2>1
<1>4. PICK f \in [Nat -> S] : Iterates(f, start, step)
  <2> HIDE DEF S, start, step
  <2> QED  BY <1>3, IterationExists
<1>5. ASSUME NEW k \in Nat  PROVE f[k + 1] = longer(f[k])
  <2>1. k + 1 \in Nat \ {0} /\ (k + 1) - 1 = k
    OBVIOUS
  <2>2. f[k + 1] = step[k + 1][f[k]] /\ f[k] \in S
    <3> HIDE DEF S, step
    <3> QED  BY <1>4, <2>1 DEF Iterates
  <2> HIDE DEF S, longer
  <2> QED  BY <2>1, <2>2
<1>6. /\ \A n \in c.nodes : d[n] \in Nat
      /\ \A n \in NonRoot(c) : d[n] = 1 + d[Parent(c, n)]
  BY DepthCounts DEF TreeShaped
<1> DEFINE g == [n \in c.nodes |-> f[d[n] + 1][n]]
<1> HIDE DEF d
<1>7. IsLine(c, g)
  <2>1. ASSUME NEW n \in c.nodes
        PROVE  g[n] = {n} \cup IF n = c.root THEN {} ELSE g[Parent(c, n)]
    <3>1. g[n] = longer(f[d[n]])[n]
      BY <1>5, <1>6
    <3>2. g[n] = {n} \cup IF n = c.root THEN {} ELSE f[d[n]][Parent(c, n)]
      BY <3>1
    <3>3. ASSUME n # c.root  PROVE f[d[n]][Parent(c, n)] = g[Parent(c, n)]
      <4>1. /\ n \in NonRoot(c) /\ Parent(c, n) \in c.nodes /\ d[n] = 1 + d[Parent(c, n)]
            /\ d[Parent(c, n)] \in Nat
        BY <1>1, <1>6, <3>3 DEF NonRoot
      <4>2. d[n] = d[Parent(c, n)] + 1
        BY <4>1
      <4> QED  BY <4>1, <4>2
    <3> HIDE DEF g
    <3> QED  BY <3>2, <3>3
  <2>2. g = [n \in c.nodes |-> g[n]]
    OBVIOUS
  <2> HIDE DEF g
  <2> QED  BY <2>1, <2>2 DEF IsLine
<1>8. IsLine(c, Line(c))
  <2> HIDE DEF g
  <2> QED  BY <1>7 DEF Line
<1>9. ASSUME NEW n \in c.nodes
      PROVE  Line(c)[n] = {n} \cup IF n = c.root THEN {} ELSE Line(c)[Parent(c, n)]
  <2> DEFINE line == Line(c)
  <2>1. IsLine(c, line)
    BY <1>8
  <2> HIDE DEF line
  <2>2. line[n] = {n} \cup IF n = c.root THEN {} ELSE line[Parent(c, n)]
    BY <2>1 DEF IsLine
  <2> QED  BY <2>2 DEF line
<1> QED  BY <1>9 DEF NonRoot

\* What is dropped is held in the name of the first of its line that was contracted.
LEMMA ContractionKeepsExposure ==
    ASSUME NEW c, TreeShaped(c), NEW verdict, NEW t, t = PruneConfig(c, verdict)
    PROVE  \A n \in c.nodes \ t.nodes :
             \E a \in Line(c)[n] \ {c.root}, k \in t.nodes :
                c.proxy[a] \in t.instruments[k] /\ a \notin t.nodes
<1>1. PICK s : t = Contracted(c, s) /\ LoopInv(c, verdict, s, NonRoot(c))
  BY LoopEnds
<1>2. t.nodes = c.nodes \ s.removed /\ t.instruments = s.instruments
  BY <1>1, ContractedFields
<1>3. s.removed \subseteq NonRoot(c)
  BY <1>1 DEF LoopInv, OnlyDone
<1> DEFINE HeldFor(n) == \E a \in Line(c)[n] \ {c.root}, k \in t.nodes :
                           c.proxy[a] \in t.instruments[k] /\ a \notin t.nodes
           lost == {n \in s.removed : ~HeldFor(n)}
           ranks == {Depth(c)[n] : n \in lost}
<1>4. lost = {}
  <2> SUFFICES ASSUME lost # {}  PROVE FALSE
    OBVIOUS
  <2>1. \A n \in s.removed : /\ n \in c.nodes /\ Depth(c)[n] \in Nat
                             /\ Depth(c)[n] = 1 + Depth(c)[Parent(c, n)]
                             /\ Parent(c, n) \in c.nodes /\ Depth(c)[Parent(c, n)] \in Nat
    BY <1>3, DepthCounts, ParentComesBefore DEF TreeShaped, ParentIs, NonRoot
  <2>2. Min(ranks) \in ranks /\ \A y \in ranks : Min(ranks) <= y
    <3> ranks \subseteq Nat /\ ranks # {}
      <4> HIDE DEF HeldFor
      <4> QED  BY <2>1
    <3> HIDE DEF ranks
    <3> QED  BY FirstExists
  <2>3. PICK n \in lost : Depth(c)[n] = Min(ranks)
    <3> HIDE DEF lost
    <3> QED  BY <2>2
  <2>4. n \in s.removed /\ ~HeldFor(n) /\ n \in NonRoot(c)
    BY <1>3, <2>3
  <2>5. CASE Promoted(c, verdict, s, n)
    <3>1. Parent(c, n) \in t.nodes /\ c.proxy[n] \in t.instruments[Parent(c, n)]
      BY <1>1, <1>2, <2>1, <2>4, <2>5 DEF LoopInv, PromotedIsHeld
    <3>2. n \in Line(c)[n] \ {c.root} /\ n \notin t.nodes
      BY <1>2, <2>4, LinesGoUp DEF NonRoot
    <3> QED  BY <2>4, <3>1, <3>2
  <2>6. CASE ~Promoted(c, verdict, s, n)
    <3> DEFINE p == Parent(c, n)
    <3>1. p \in s.removed
      BY <1>1, <2>4, <2>6, DroppedHangsOnDropped
    <3>2. p \notin lost
      <4> SUFFICES ASSUME p \in lost  PROVE FALSE
        OBVIOUS
      <4>1. Depth(c)[n] <= Depth(c)[p]
        <5> HIDE DEF lost
        <5> QED  BY <2>2, <2>3
      <4> QED  BY <2>1, <2>4, <4>1
    <3>3. HeldFor(p)
      BY <3>1, <3>2
    <3>4. Line(c)[p] \subseteq Line(c)[n]
      BY <2>4, LinesGoUp
    <3> HIDE DEF p
    <3>5. HeldFor(n)
      BY <3>3, <3>4
    <3> QED  BY <2>4, <3>5
  <2> QED  BY <2>5, <2>6
<1> QED  BY <1>2, <1>4

-----------------------------------------------------------------------------
(* The theorems                                                            *)

LEMMA StudiesAreTreeShaped == ASSUME NEW s \in Studies  PROVE TreeShaped(s.config)
BY StudiesAreOfTrees DEF TreeShaped, Valid

\* Whatever the verdicts of classify_node, the configuration that prune_config returns is
\* a tree of kept nodes, each below its parent or its grandparent, and the root's.
THEOREM PruningAlwaysLeavesATree == Spec => []PrunedTreeIsATree
<1>1. HeldOnFolds => PrunedTreeIsATree
  <2> SUFFICES ASSUME HeldOnFolds, NEW x \in InHand
               PROVE  /\ IsTree(Candidate(x))
                      /\ \A n \in NonRoot(Candidate(x)) :
                           \/ Parent(Candidate(x), n) = Parent(study.config, n)
                           \/ Parent(Candidate(x), n)
                                = Parent(study.config, Parent(study.config, n))
    BY DEF PrunedTreeIsATree
  <2>1. TreeShaped(study.config)
    BY StudiesAreTreeShaped DEF HeldOnFolds
  <2> QED  BY <2>1, ContractionLeavesATree DEF Candidate
<1> QED  BY <1>1, AlwaysHeldOnFolds, PTL

\* Whatever the verdicts, each node that prune_config drops has itself or an ancestor
\* whose proxy a kept node holds directly in its place.
THEOREM ExposureAlwaysSurvives == Spec => []ExposureSurvives
<1>1. HeldOnFolds => ExposureSurvives
  <2> SUFFICES ASSUME HeldOnFolds, NEW x \in InHand
               PROVE  \A n \in study.config.nodes \ Candidate(x).nodes :
                        \E a \in Line(study.config)[n] \ {study.config.root},
                           k \in Candidate(x).nodes :
                             /\ study.config.proxy[a] \in Candidate(x).instruments[k]
                             /\ a \notin Candidate(x).nodes
    BY DEF ExposureSurvives, Line, IsLine
  <2>1. TreeShaped(study.config)
    BY StudiesAreTreeShaped DEF HeldOnFolds
  <2> QED  BY <2>1, ContractionKeepsExposure DEF Candidate
<1> QED  BY <1>1, AlwaysHeldOnFolds, PTL
=============================================================================
