----------------------------- MODULE LocalSolver -----------------------------
(***************************************************************************)
(* V2LocalOptimizer.solve (v2/solver.py): one node's allocation, solved    *)
(* without financing or once per financing regime, each regime by hrp, by  *)
(* a convex route (LP, QP, SOCP) or by the search, with the staged         *)
(* fallback where the constraints' policies allow one.                     *)
(*                                                                         *)
(* The numerics are abstracted to a finite set of portfolios.  A portfolio *)
(* is what the solver measures of it: risk (from the shrunk covariance,    *)
(* which the objectives use), vol (realized, which targets and caps use),  *)
(* tev, gain (expected excess return), and its numerical error: a rough    *)
(* portfolio is outside its bounds, and the volatility of one that is over *)
(* is above its level, by more than the 1e-6 of the final audit.  Only the *)
(* search and the fallback are audited; hrp has a looser check of its own, *)
(* and the convex routes do not look at the bounds again.                  *)
(*                                                                         *)
(* The LP and the QP give up unless their solver reports the optimum.  The *)
(* SOCP also takes an inaccurate optimum, which may be any portfolio that  *)
(* passes the checks after it.  SLSQP finds any feasible portfolio or      *)
(* none: it stops at local optima, and its starts are finitely many.  Only *)
(* the tracking error is convex over a convex set, so what minimizes it is *)
(* the minimum.                                                            *)
(*                                                                         *)
(* DeclaredOnly, Unchecked, EitherPolicy, AnyFailureEnds, DropsTheWrong,   *)
(* RelaxesAgain and StepMistyped are no part of the model: each is the bug *)
(* that the definition after it excludes, for trying the properties        *)
(* against.                                                                *)
(***************************************************************************)
EXTENDS Integers, Sequences, SequencesExt, FiniteSetsExt

CONSTANTS
    Portfolios,
    Settings,   \* the solves that are asked for: constraints and reference series
    Universes,  \* by regime, the portfolios within the bounds, the rough ones included
    None, Raised

Levels == Nat
Regimes == {"none", "lend", "borrow"}
Policies == {"hard_fail", "nearest_feasible"}
Objectives == {"min_risk", "max_return", "max_ratio", "max_utility", "hrp"}
References == {"none", "manual", "relative"}

Setting ==
    [objective : Objectives,
     supported : BOOLEAN,       \* estimators, tau, risk aversion, enough rows
     mode : {"exact", "cap"},
     target : Levels \cup {None}, targetRef : References,
     cap : Levels \cup {None}, capRef : References,
     limit : Levels \cup {None},            \* max_tracking_error
     tevPolicy : Policies, volPolicy : Policies,
     cash : BOOLEAN, leverage : BOOLEAN, spread : BOOLEAN,
     mean : {"auto", "equilibrium", "statistical"},
     reference : BOOLEAN,                   \* a full mean reference is given
     views : {"none", "fit", "foreign", "cash"},
     targetSeries : Levels \cup {None},     \* volatility of target_reference_series
     capSeries : Levels \cup {None},        \* and of cap_reference_series
     tracking : {"none", "whole", "gaps"}]  \* the tracking reference series

\* What constraint_stage_results lists, and what a solve returns beside its weights.
Stages ==
    [stage : {"tracking_error", "volatility", "objective"},
     status : {"within_limit", "matched", "nearest_feasible", "optimized",
               "optimized_tev_priority", "optimized_volatility_priority",
               "nearest_feasible_witness"},
     achieved : Levels \cup {None}]

Strategies == {"hrp", "lp", "qp", "socp", "search", "projection"}
Candidate ==
    [portfolio : Portfolios, strategy : Strategies, regime : Regimes, stages : Seq(Stages),
     score : Int \X Int,
     targetStatus : {"not_requested", "matched", "nearest_feasible"},
     tevStatus : {"not_requested", "within_limit", "nearest_feasible"},
     claim : BOOLEAN]

ASSUME PortfoliosAreMeasured ==
    Portfolios \subseteq [risk : Nat \ {0}, vol : Nat \ {0}, tev : Nat, gain : Nat,
                          rough : BOOLEAN, over : BOOLEAN]
ASSUME NoneIsNoPortfolio == None \notin Portfolios
ASSUME NoneIsNoLevel == None \notin Levels /\ None \notin Regimes
ASSUME NoAnswerIsNoCandidate == None \notin Candidate /\ Raised \notin Candidate
ASSUME SettingsAreSettings == Settings \subseteq Setting
\* A number comes with a reference, "manual" if the configuration names none.
ASSUME HrpNumbersAreReferenced ==
    \A s \in Settings : s.objective = "hrp" =>
        /\ s.targetRef = "none" => s.target = None
        /\ s.capRef = "none" => s.cap = None
ASSUME UniversesAreBounds == Universes \subseteq [Regimes -> SUBSET Portfolios]

VARIABLES
    asked,      \* the constraints as solve() received them
    setting,    \* the same, after _normalize_direct_constraints
    universe,
    pc,
    regime,     \* the regime being solved
    stages,     \* stage_results of the fallback
    bound,      \* the tracking-error bound its first stage fixed
    witness,    \* its volatility witness, dev_weights
    found,      \* what the search or the fallback ended with, before the audit
    candidates, failures,   \* the regimes solved, and the regimes that raised
    outcome     \* the candidate returned, Raised, or None

vars == <<asked, setting, universe, pc, regime, stages, bound, witness, found,
          candidates, failures, outcome>>
solving == <<asked, setting, universe, regime, candidates, failures, outcome>>

Steps == {"begin", "regime", "route", "search", "tracking_error", "volatility",
          "objective", "tev_only", "vol_only", "witness", "audit", "choose", "done"}

Init ==
    /\ asked \in Settings /\ setting = asked
    /\ universe \in Universes
    /\ pc = "begin" /\ regime = "none"
    /\ stages = <<>> /\ bound = None /\ witness = None /\ found = None
    /\ candidates = <<>> /\ failures = {} /\ outcome = None

-----------------------------------------------------------------------------
(* What is asked                                                           *)

Financed(s) == s.cash \/ s.leverage \/ s.spread

\* An at-most target is folded into the cap, when it is declared as a number.
Normalize(s) ==
    IF s.mode = "cap" /\ s.target # None
    THEN [s EXCEPT !.cap = s.target, !.capRef = s.targetRef,
                   !.target = None, !.targetRef = "none"]
    ELSE s

RefusedAtOnce(s) ==
    \/ ~s.supported
    \/ s.mode = "cap" /\ s.target # None /\ s.cap # None
    \/ Financed(s) /\ \/ s.objective = "hrp"
                      \/ s.spread /\ ~s.cash /\ ~s.leverage
                      \/ s.views = "cash"

\* classify: the solver does not take a number for both.
Unclassifiable(s) == s.target # None /\ s.cap # None

\* 'auto' is an equilibrium only with a full reference, no financing and an
\* objective that does not reconstruct it.
ResolvedMean(s) ==
    IF s.mean # "auto" THEN s.mean
    ELSE IF s.reference /\ ~Financed(s) /\ s.objective # "max_utility"
         THEN "equilibrium" ELSE "statistical"

\* Why a regime raises before it is solved: its mean, its views, its bounds, and
\* the reference series of its constraints.
MeanRefused(s, r) == ResolvedMean(s) = "equilibrium" /\ (r # "none" \/ ~s.reference)
ViewsRefused(s) == s.views \in {"foreign", "cash"}
BoundsRefused(r) == universe[r] = {}
SeriesRefused(s) ==
    \/ s.tracking = "gaps"
    \/ s.targetRef = "relative" /\ s.targetSeries = None
    \/ s.capRef = "relative" /\ s.capSeries = None

RefusedInRegime(s, r) ==
    MeanRefused(s, r) \/ ViewsRefused(s) \/ BoundsRefused(r) \/ SeriesRefused(s)

HrpRefused(s) ==
    \/ s.targetRef # "none" \/ s.capRef # "none" \/ s.limit # None
    \/ s.mean # "auto" \/ s.views # "none"
    \/ BoundsRefused("none")

Resolve(reference, value, series) == IF reference = "relative" THEN series ELSE value
Target == Resolve(setting.targetRef, setting.target, setting.targetSeries)
Cap == Resolve(setting.capRef, setting.cap, setting.capSeries)
Limit == setting.limit

-----------------------------------------------------------------------------
(* Objectives, which are compared without division                         *)

\* A score is a fraction.
Beats(a, b) == a[1] * b[2] > b[1] * a[2]
Top == 100      \* above every risk, to score less risk as more

ScoreOf(objective, p, risk) ==
    CASE objective \in {"max_return", "max_return_at_target"} -> <<Top + p.gain, 1>>
      [] objective = "max_ratio" -> <<p.gain, risk>>
      [] objective = "max_utility" -> <<Top + p.gain - risk, 1>>
      [] OTHER -> <<Top - risk, 1>>

EffectiveObjective == IF Target # None THEN "max_return_at_target" ELSE setting.objective

\* loss, negated: what a solve maximizes ...
Economic(p) == ScoreOf(EffectiveObjective, p, p.risk)
\* ... and objective_value, negated for risk: what the regimes are compared by.
Reported(p) ==
    ScoreOf(EffectiveObjective, p,
            IF Target # None \/ Cap # None THEN p.vol ELSE p.risk)

-----------------------------------------------------------------------------
(* Constraints                                                             *)

\* The search's tolerance, 2e-6, and the tighter one of the checks after a solve.
WithinCap(p) == Cap # None => p.vol <= Cap
KeepsCap(p) == WithinCap(p) /\ (p.vol = Cap => ~p.over)
WithinLimit(p) == Limit # None => p.tev <= Limit
AtTarget(p) == Target # None => p.vol = Target

\* The budget, the bounds and the cap: hard_constraints, relaxed by nothing.
Hard == {p \in universe[regime] : WithinCap(p)}
Feasible == {p \in Hard : WithinLimit(p) /\ AtTarget(p)}
Exact(S) == {p \in S : ~p.rough}
\* The optimum within the bounds, as exact as the numbers are.
Best(S) == {p \in S : \A q \in Exact(S) : ~Beats(Economic(q), Economic(p))}

-----------------------------------------------------------------------------
(* Regimes                                                                 *)

Goto(step) == pc' = step

\* V2OptimizationError inside a regime: without financing it is the answer, with
\* financing the other regime may still succeed.
AnyFailureEnds == outcome' = Raised /\ Goto("done")
RaiseInRegime ==
    IF regime = "none" THEN outcome' = Raised /\ Goto("done")
    ELSE Goto("choose") /\ UNCHANGED outcome

Raise ==
    /\ RaiseInRegime
    /\ failures' = failures \cup {regime}
    /\ UNCHANGED <<asked, setting, universe, regime, stages, bound, witness, found,
                   candidates>>

Status(met, requested, good) ==
    IF requested = None THEN "not_requested" ELSE IF met THEN good ELSE "nearest_feasible"

\* The V2Audit that is returned beside the weights; hrp's is about nothing but risk.
Audited(p, strategy) ==
    [portfolio |-> p, strategy |-> strategy, regime |-> regime, stages |-> stages,
     score |-> Reported(p),
     targetStatus |-> Status(AtTarget(p), Target, "matched"),
     tevStatus |-> Status(WithinLimit(p), Limit, "within_limit"),
     claim |-> strategy \in {"lp", "qp", "socp"}]

\* _solve_core returns.
Answer(p, strategy) ==
    /\ candidates' = Append(candidates, Audited(p, strategy))
    /\ Goto("choose")
    /\ UNCHANGED <<asked, setting, universe, regime, stages, bound, witness, found,
                   failures, outcome>>

Begin ==
    /\ pc = "begin"
    /\ IF RefusedAtOnce(asked)
       THEN outcome' = Raised /\ Goto("done") /\ UNCHANGED <<setting, regime>>
       ELSE /\ setting' = Normalize(asked)
            /\ regime' = IF Financed(asked) THEN "lend" ELSE "none"
            /\ Goto("regime") /\ UNCHANGED outcome
    /\ UNCHANGED <<asked, universe, stages, bound, witness, found, candidates, failures>>

\* classify's error is no V2OptimizationError: it ends the solve.
Misclassify ==
    /\ pc = "regime" /\ Unclassifiable(setting)
    /\ outcome' = Raised /\ Goto("done")
    /\ UNCHANGED <<asked, setting, universe, regime, stages, bound, witness, found,
                   candidates, failures>>

Refuse ==
    /\ pc = "regime" /\ ~Unclassifiable(setting)
    /\ IF setting.objective = "hrp" THEN HrpRefused(setting)
       ELSE RefusedInRegime(setting, regime)
    /\ Raise

\* Its own check, like the search's, leaves the rough in; what fails it is raised.
SolveHrp ==
    /\ pc = "regime" /\ ~Unclassifiable(setting)
    /\ setting.objective = "hrp" /\ ~HrpRefused(setting)
    /\ \/ \E p \in universe["none"] : Answer(p, "hrp")
       \/ Raise

Prepare ==
    /\ pc = "regime" /\ ~Unclassifiable(setting)
    /\ setting.objective # "hrp" /\ ~RefusedInRegime(setting, regime)
    /\ Goto("route")
    /\ stages' = <<>> /\ bound' = None /\ witness' = None /\ found' = None
    /\ UNCHANGED solving

-----------------------------------------------------------------------------
(* Routes                                                                  *)

\* The convex routes are chosen by the resolved constraints, never by the declared
\* ones: a relative target is declared without a number.
DeclaredOnly ==
    IF regime # "none" THEN "search"
    ELSE IF <<setting.target, setting.cap, setting.limit>> = <<None, None, None>>
         THEN CASE setting.objective = "max_return" -> "lp"
                [] setting.objective \in {"min_risk", "max_utility"} -> "qp"
                [] OTHER -> "search"
    ELSE IF setting.objective = "max_return" /\ setting.target = None THEN "socp"
    ELSE "search"
Route ==
    IF regime # "none" THEN "search"
    ELSE IF <<Target, Cap, Limit>> = <<None, None, None>>
         THEN CASE setting.objective = "max_return" -> "lp"
                [] setting.objective \in {"min_risk", "max_utility"} -> "qp"
                [] OTHER -> "search"
    ELSE IF setting.objective = "max_return" /\ Target = None THEN "socp"
    ELSE "search"

SolveConvex(route, S) ==
    /\ pc = "route" /\ Route = route
    /\ \E p \in S : Answer(p, route)

\* The linear and the quadratic program know nothing but the bounds.
SolveLp == SolveConvex("lp", Best(universe[regime]))
SolveQp == SolveConvex("qp", Best(universe[regime]))

\* OPTIMAL or OPTIMAL_INACCURATE: what is left of it is that the cap and the limit are
\* checked again, if the series to measure the limit against is there.
Unchecked == {p \in universe[regime] : Limit # None => setting.tracking = "whole"}
ConeSet ==
    {p \in universe[regime] :
        KeepsCap(p) /\ WithinLimit(p) /\ (Limit # None => setting.tracking = "whole")}
SolveSocp == SolveConvex("socp", ConeSet)

\* No convex route applies, or its solver is missing, fails or finds nothing.
FallToSearch ==
    /\ pc = "route"
    /\ Goto("search")
    /\ UNCHANGED <<solving, stages, bound, witness, found>>

LimitWithoutReference ==
    /\ pc = "search" /\ Limit # None /\ setting.tracking = "none"
    /\ Raise

\* Multi-start SLSQP, warm-started or not: the best accepted result.
SearchSucceeds ==
    /\ pc = "search" /\ (Limit # None => setting.tracking # "none")
    /\ \E p \in Feasible : found' = [portfolio |-> p, strategy |-> "search"]
    /\ Goto("audit")
    /\ UNCHANGED <<solving, stages, bound, witness>>

SearchFails ==
    /\ pc = "search" /\ (Limit # None => setting.tracking # "none")
    /\ IF Target = None /\ Limit = None THEN Raise
       ELSE /\ Goto(IF Limit # None THEN "tracking_error" ELSE "volatility")
            /\ UNCHANGED <<solving, stages, bound, witness, found>>

-----------------------------------------------------------------------------
(* The staged fallback: tracking error, volatility, objective              *)

Stage(name, status, achieved) == [stage |-> name, status |-> status, achieved |-> achieved]

WithinBound(p) == bound # None => p.tev <= bound
\* The volatility that stage B pins: its witness's, which is the target if it can be.
InBand(p) == witness # None => p.vol = witness.vol

StepMistyped == IF Target # None THEN "volatility" ELSE "stage_c"
AfterTracking == IF Target # None THEN "volatility" ELSE "objective"

\* _minimize_metric of the tracking error.
Closest(S) == {p \in S : \A q \in S : p.tev <= q.tev}

ProjectTracking ==
    /\ pc = "tracking_error"
    /\ \E p \in Closest(Hard) :
            \/ /\ p.tev <= Limit
               /\ bound' = Limit
               /\ stages' = Append(stages, Stage("tracking_error", "within_limit", p.tev))
            \/ /\ p.tev > Limit /\ setting.tevPolicy = "nearest_feasible"
               /\ bound' = p.tev
               /\ stages' = Append(stages, Stage("tracking_error", "nearest_feasible", p.tev))
    /\ Goto(AfterTracking)
    /\ UNCHANGED <<solving, witness, found>>

\* No start converges, or the limit cannot be met and must be.
TrackingFails ==
    /\ pc = "tracking_error"
    /\ Raise

ProjectVolatility ==
    /\ pc = "volatility"
    /\ \E p \in {q \in Hard : WithinBound(q)} :
         /\ p.vol = Target \/ setting.volPolicy = "nearest_feasible"
         /\ witness' = p
         /\ stages' = Append(stages,
              Stage("volatility",
                    IF p.vol = Target THEN "matched" ELSE "nearest_feasible", p.vol))
    /\ Goto("objective")
    /\ UNCHANGED <<solving, bound, found>>

VolatilityFails ==
    /\ pc = "volatility"
    /\ Raise

BothRelaxable ==
    /\ Limit # None /\ Target # None
    /\ setting.tevPolicy = "nearest_feasible" /\ setting.volPolicy = "nearest_feasible"
EitherPolicy == "nearest_feasible" \in {setting.tevPolicy, setting.volPolicy}
MayRelax == BothRelaxable

Settle(S, status) ==
    /\ \E p \in S : found' = [portfolio |-> p, strategy |-> "projection"]
    /\ stages' = Append(stages, Stage("objective", status, None))
    /\ Goto("audit")
    /\ UNCHANGED <<solving, bound, witness>>

Abandon(step) ==
    /\ Goto(step)
    /\ UNCHANGED <<solving, stages, bound, witness, found>>

OptimizeObjective ==
    /\ pc = "objective"
    /\ \/ Settle({p \in Hard : WithinBound(p) /\ InBand(p)}, "optimized")
       \/ Abandon(IF MayRelax THEN "tev_only" ELSE "witness")

\* One of the two bounds is dropped, the volatility's first.
DropsTheWrong == {p \in Hard : InBand(p)}
KeepingTracking == {p \in Hard : WithinBound(p)}
KeepingVolatility == {p \in Hard : InBand(p)}

OptimizeWithinTracking ==
    /\ pc = "tev_only"
    /\ \/ Settle(KeepingTracking, "optimized_tev_priority")
       \/ Abandon("vol_only")

RelaxesAgain ==
    /\ pc = "vol_only"
    /\ \/ Settle(KeepingVolatility, "optimized_volatility_priority")
       \/ Abandon("tev_only")
OptimizeInBand ==
    /\ pc = "vol_only"
    /\ \/ Settle(KeepingVolatility, "optimized_volatility_priority")
       \/ Abandon("witness")

ReturnWitness ==
    /\ pc = "witness"
    /\ IF witness # None /\ setting.volPolicy = "nearest_feasible"
       THEN Settle({witness}, "nearest_feasible_witness")
       ELSE Raise

-----------------------------------------------------------------------------
(* The answer                                                              *)

\* _audit_hard_constraints, on the weights after zeroing and renormalization.
PassesAudit(p) == ~p.rough /\ KeepsCap(p)

NextRegime == IF regime = "lend" /\ setting.leverage THEN "borrow" ELSE None

Accept ==
    /\ pc = "audit" /\ PassesAudit(found.portfolio)
    /\ Answer(found.portfolio, found.strategy)

Reject ==
    /\ pc = "audit" /\ ~PassesAudit(found.portfolio)
    /\ Raise

SolveNextRegime ==
    /\ pc = "choose" /\ NextRegime # None
    /\ regime' = NextRegime
    /\ Goto("regime")
    /\ UNCHANGED <<asked, setting, universe, stages, bound, witness, found, candidates,
                   failures, outcome>>

\* max(candidates, key=economic_score): the first of the best.
IsChosen(i) ==
    /\ \A j \in DOMAIN candidates : ~Beats(candidates[j].score, candidates[i].score)
    /\ \A j \in 1..(i - 1) : Beats(candidates[i].score, candidates[j].score)

Choose ==
    /\ pc = "choose" /\ NextRegime = None
    /\ \/ candidates = <<>> /\ outcome' = Raised
       \/ \E i \in DOMAIN candidates : IsChosen(i) /\ outcome' = candidates[i]
    /\ Goto("done")
    /\ UNCHANGED <<asked, setting, universe, regime, stages, bound, witness, found,
                   candidates, failures>>

Next ==
    \/ Begin \/ Misclassify \/ Refuse \/ SolveHrp \/ Prepare
    \/ SolveLp \/ SolveQp \/ SolveSocp \/ FallToSearch
    \/ LimitWithoutReference \/ SearchSucceeds \/ SearchFails
    \/ ProjectTracking \/ TrackingFails \/ ProjectVolatility \/ VolatilityFails
    \/ OptimizeObjective \/ OptimizeWithinTracking \/ OptimizeInBand \/ ReturnWitness
    \/ Accept \/ Reject \/ SolveNextRegime \/ Choose

\* One call runs to its end: nothing in it waits.
Fairness == WF_vars(Next)

Spec == Init /\ [][Next]_vars /\ Fairness

-----------------------------------------------------------------------------
(* Properties                                                              *)

\* Every variable holds what the local of its name holds.
TypeOK ==
    /\ asked \in Setting /\ setting \in Setting
    /\ pc \in Steps /\ regime \in Regimes
    /\ \A i \in DOMAIN stages : stages[i] \in Stages
    /\ bound \in Levels \cup {None} /\ witness \in Portfolios \cup {None}
    /\ found = None \/ found.portfolio \in Portfolios
    /\ Len(candidates) <= 2 /\ failures \subseteq Regimes
    /\ outcome \in {None, Raised} \cup ToSet(candidates)

Returned == outcome \notin {None, Raised}
Weights == outcome.portfolio

\* Whatever route found the portfolio, and whichever stages were relaxed on the way,
\* it keeps the volatility cap as resolved; and what the search or the fallback found
\* is within its bounds, by the tolerance of the audit.
HardConstraintsHold ==
    Returned =>
        /\ Weights \in universe[outcome.regime] /\ KeepsCap(Weights)
        /\ Weights.rough => outcome.strategy \in {"hrp", "lp", "qp", "socp"}

\* A limit or target whose policy is hard_fail is kept by every portfolio returned,
\* even when the other one is projected and both bounds cannot be had together.
HardFailIsHard ==
    Returned =>
        /\ setting.tevPolicy = "hard_fail" => WithinLimit(Weights)
        /\ setting.volPolicy = "hard_fail" => AtTarget(Weights)

\* Nothing within the bounds and the resolved constraints, the relative ones included,
\* is better.
Unbeaten ==
    \A q \in Exact(universe[outcome.regime]) :
        KeepsCap(q) /\ WithinLimit(q) /\ AtTarget(q) => ~Beats(Economic(q), Economic(Weights))

\* global_optimality_claim is about the problem that was asked: no constraint, relative
\* or declared, was left out of it.  The linear and the quadratic program's is true; the
\* cone program's need not be, because it is made of an inaccurate optimum too.
ClaimsAnswerTheQuestion ==
    Returned /\ outcome.claim =>
        /\ KeepsCap(Weights) /\ WithinLimit(Weights) /\ AtTarget(Weights)
        /\ outcome.strategy # "socp" => Unbeaten

\* What constraint_stage_results says about a projected portfolio is true of it:
\* it keeps each bound that was resolved, except the one its last stage names as
\* dropped, and nothing is called nearest that was not allowed to be.
AchievedIn(log, name) ==
    LET i == CHOOSE j \in DOMAIN log : log[j].stage = name IN log[i].achieved
Ran(log, name) == \E j \in DOMAIN log : log[j].stage = name
StagesTellTheResult ==
    Returned /\ outcome.strategy = "projection" =>
        LET log == outcome.stages
            last == log[Len(log)]
        IN  /\ last.stage = "objective"
            /\ Ran(log, "tracking_error") <=> Limit # None
            /\ Ran(log, "volatility") <=> Target # None
            /\ Limit # None /\ last.status # "optimized_volatility_priority" =>
                 Weights.tev <= Max({Limit, AchievedIn(log, "tracking_error")})
            /\ Target # None /\ last.status # "optimized_tev_priority" =>
                 Weights.vol = AchievedIn(log, "volatility")
            /\ \A i \in DOMAIN log : log[i].status = "nearest_feasible" =>
                 "nearest_feasible" =
                   IF log[i].stage = "volatility" THEN setting.volPolicy
                   ELSE setting.tevPolicy

\* The regimes are independent: the failure of one never discards the other's
\* portfolio, both are tried where borrowing is allowed, and of two portfolios the
\* better one is returned.
RegimesAreIndependent ==
    pc = "done" /\ regime # "none" /\ ~Unclassifiable(setting) /\ ~RefusedAtOnce(asked) =>
        /\ failures \cup {candidates[i].regime : i \in DOMAIN candidates} =
             IF setting.leverage THEN {"lend", "borrow"} ELSE {"lend"}
        /\ candidates # <<>> =>
             Returned /\ \A i \in DOMAIN candidates : ~Beats(candidates[i].score, outcome.score)

\* Every solve ends, with weights or with an error.
Terminates == <>(pc = "done")

-----------------------------------------------------------------------------
(* A claim of the repository that the code does not keep                   *)

\* In cap mode the volatility is only bounded from above: no portfolio is held to
\* a target, matched or projected to one.
CapModeOnlyBounds ==
    asked.mode = "cap" /\ Returned => outcome.targetStatus = "not_requested"
=============================================================================
