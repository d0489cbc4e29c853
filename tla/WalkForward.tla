----------------------------- MODULE WalkForward -----------------------------
(***************************************************************************)
(* The walk-forward backtest (v2/backtest.py, walk_forward.py,             *)
(* calendar.py): fold windows cut from one calendar, an estimate per fold, *)
(* and one ledger per arm over the holding periods.                        *)
(*                                                                         *)
(* Days are calendar days, numbered.  A period is named by its last day,   *)
(* its label, which need not be a day of trading.                          *)
(***************************************************************************)
EXTENDS Hierarchy

CONSTANTS
    Business,   \* the weekdays
    Ends,       \* per frequency, the labels of its periods
    Benchmark,  \* weights by ticker
    Studies     \* the backtests that may be asked for

FlatNode == 0   \* "__global_flat__"

ASSUME DaysAreNumbered ==
    Business \subseteq Nat /\ \A frequency \in DOMAIN Ends : Ends[frequency] \subseteq Nat
\* Every weekday is in a period.
ASSUME LabelsCoverTheDays ==
    \A frequency \in DOMAIN Ends : \A d \in Business : \E e \in Ends[frequency] :
        d <= e /\ \A x \in Ends[frequency] : d <= x => e <= x
ASSUME StudiesAreOfDays ==
    \A s \in Studies :
        /\ s.days \subseteq Business /\ IsFiniteSet(s.days) /\ s.trainSize \in Nat
        /\ {s.estimation, s.rebalance} \subseteq DOMAIN Ends
\* They are of validated configurations, and the policy of the adaptive ones is checked.
ASSUME StudiesAreOfTrees ==
    \A s \in Studies :
        /\ {"root", "nodes", "children", "instruments", "proxy", "financed"}
             \subseteq DOMAIN s.config
        /\ s.config.children \in [s.config.nodes -> SUBSET s.config.nodes]
        /\ s.config.instruments \in [s.config.nodes -> SUBSET Names]
        /\ s.config.proxy \in [s.config.nodes -> Names \cup {None}]
        /\ Valid(s.config) /\ s.config.financed \subseteq s.config.nodes
        /\ s.config.nodes \subseteq Nat \ {FlatNode} /\ IsFiniteSet(s.config.nodes)
        /\ \A n \in s.config.nodes : s.config.root <= n /\ \A k \in s.config.children[n] : n < k
        /\ s.mode \in Modes /\ s.burnIn \in Nat \ {0}

VARIABLES
    study,     \* the backtest asked for
    phase,     \* where it is, or how it ended
    folds,     \* fold_specs: [signal, train, holding]
    estimates, \* per signal, the fold's estimate
    points     \* per arm, its curve: which day was earned on which fold's target

backtestVars == <<study, phase, folds, estimates, points>>

-----------------------------------------------------------------------------
(* Calendar *)

Period(day, frequency) == Min({e \in Ends[frequency] : e >= day})

(* _resample_simple_returns: one observation per period that has a day. *)
Labels(days, frequency) == {Period(d, frequency) : d \in days}

(* _final_period_is_complete: the last observation is its period's last weekday. *)
FinalPeriodIsComplete(days, frequency) ==
    Max(days) = Max({b \in Business : b <= Period(Max(days), frequency)})

(* _rebalance_dates *)
RebalanceDates(days, frequency, partial) ==
    IF partial \/ FinalPeriodIsComplete(days, frequency)
    THEN Labels(days, frequency)
    ELSE Labels(days, frequency) \ {Max(Labels(days, frequency))}

Schedule(s) == RebalanceDates(s.days, s.rebalance, s.partial)

Observations(s) == Labels(s.days, s.estimation)

(* tail(k), of a set of numbers *)
Latest(S, k) == {x \in S : Cardinality({y \in S : y > x}) < k}

(* MUTANT: the signal date is already held. *)
HoldingFromSignal(s, signal) ==
    {d \in s.days : d >= signal /\ \A later \in Schedule(s) : later > signal => d <= later}

(* The days after the signal, up to the next one. *)
Holding(s, signal) ==
    {d \in s.days : d > signal /\ \A later \in Schedule(s) : later > signal => d <= later}

(* MUTANT: the training window runs to the day before the next signal. *)
TrainToNextSignal(s, signal) ==
    LET available == {l \in Observations(s) :
                        \A later \in Schedule(s) : later > signal => l < later}
    IN IF s.expanding THEN available ELSE Latest(available, s.trainSize)

(* The observations labelled up to the signal: all, or the last trainSize. *)
Train(s, signal) ==
    LET available == {l \in Observations(s) : l <= signal}
    IN IF s.expanding THEN available ELSE Latest(available, s.trainSize)

IsFold(s, signal) ==
    /\ s.partial \/ \E later \in Schedule(s) : later > signal
    /\ Cardinality(Train(s, signal)) >= s.trainSize
    /\ Holding(s, signal) # {}

PlannedFolds(s) ==
    {[signal |-> x, train |-> Train(s, x), holding |-> Holding(s, x)] :
        x \in {y \in Schedule(s) : IsFold(s, y)}}

-----------------------------------------------------------------------------
(* Columns and arms *)

Instruments(m) == TerminalInstruments(m) \cup Proxies(m) \cup DOMAIN Benchmark

(* _with_financing_returns *)
FinancingColumns(m) == {IF n = m.root THEN Cash ELSE CashAt(n) : n \in m.financed}

\* A ticker is named ticker:<NAME> (contracts.py:52), so no financing instrument is one.
ASSUME CashIsNoTicker ==
    \A s \in Studies : \A n \in s.config.nodes :
        CashAt(n) \in Names \ {Cash} /\ {Cash, CashAt(n)} \cap Instruments(s.config) = {}

Arm(kind) == <<kind, 0>>
NodeArm(kind, n) == <<kind, n>>
BenchmarkSleeves(e) ==
    ImplementedBenchmark(e.model, e.backward, Benchmark)

(* _targets, by arm: a diagnostic arm exists only in the folds whose       *)
(* estimate has the node's result.                                         *)
Arms(e) ==
    {Arm("B0"), Arm("FINAL")}
    \cup {NodeArm("FATHER", n) : n \in {k \in e.model.nodes : e.model.proxy[k] # None}}
    \cup {NodeArm("NODE", n) :
            n \in CASE e.mode = "flat" -> {FlatNode} \cup DOMAIN e.forward
                    [] e.mode = "forward" -> DOMAIN e.forward
                    [] e.mode = "forward_backward" -> DOMAIN e.backward}
    \cup IF e.mode # "forward_backward" THEN {}
         ELSE {Arm("FORWARD_FINAL")}
              \cup {NodeArm("FORWARD_NODE", n) : n \in DOMAIN e.forward}
              \cup (IF BenchmarkSleeves(e) = Zero THEN {} ELSE {Arm("B0_SYNTH")})

Curve(arm) == {p.day : p \in points[arm]}

-----------------------------------------------------------------------------
(* Phase 1: the windows *)

Plan ==
    /\ phase = "plan"
    /\ folds' = PlannedFolds(study)
    /\ phase' = IF folds' = {} THEN "no folds" ELSE "estimate"
    /\ UNCHANGED <<study, estimates, points, hierarchyVars>>

(* Phase 2: the estimates, one after the other, or by several processes    *)
(* that share nothing, in any order.                                       *)

NotEstimated == {f \in folds : f.signal \notin DOMAIN estimates}

EstimateFold ==
    /\ phase = "estimate"
    /\ \E f \in NotEstimated :
          /\ study.workers = 1 => \A g \in NotEstimated : f.signal <= g.signal
          /\ StartEstimate(study.config, study.mode, f.signal,
                           Instruments(study.config) \cup FinancingColumns(study.config),
                           study.detail)
    /\ UNCHANGED backtestVars

KeepEstimate ==
    /\ phase = "estimate"
    /\ pass = "done"
    /\ estimates' = With(estimates, job.window, Estimate)
    /\ phase' = IF \A f \in folds : f.signal \in DOMAIN estimates' THEN "hold" ELSE phase
    /\ EndEstimate
    /\ UNCHANGED <<study, folds, points>>

FoldFails ==
    /\ phase = "estimate"
    /\ pass = "failed"
    /\ phase' = "fold failed"
    /\ EndEstimate
    /\ UNCHANGED <<study, folds, estimates, points>>

(* Phase 3: the ledgers.  An arm earns the days of the folds that target it. *)

Held(f) == Arm("B0") \in DOMAIN points /\ \E p \in points[Arm("B0")] : p.on = f.signal

NotHeld == {f \in folds : ~ Held(f)}

Earned(f, arms) ==
    [a \in DOMAIN points \cup arms |->
        (IF a \in DOMAIN points THEN points[a] ELSE {})
        \cup {[day |-> d, on |-> f.signal] : d \in IF a \in arms THEN f.holding ELSE {}}]

OneGrid(curves) ==
    \A a, b \in DOMAIN curves : {p.day : p \in curves[a]} = {p.day : p \in curves[b]}

HoldFold ==
    /\ phase = "hold"
    /\ \E f \in NotHeld :
          /\ \A g \in NotHeld : f.signal <= g.signal
          /\ points' = Earned(f, Arms(estimates[f.signal]))
          /\ phase' = IF NotHeld # {f} THEN phase
                      ELSE IF OneGrid(points') THEN "report" ELSE "no common grid"
    /\ UNCHANGED <<study, folds, estimates, hierarchyVars>>

-----------------------------------------------------------------------------

BacktestInit ==
    /\ EstimateInit
    /\ study \in Studies
    /\ phase = "plan"
    /\ folds = {}
    /\ estimates = Empty
    /\ points = Empty

BacktestStep ==
    \/ Plan
    \/ EstimateFold
    \/ SolveStep /\ UNCHANGED backtestVars
    \/ KeepEstimate
    \/ FoldFails
    \/ HoldFold
=============================================================================
