------------------------- MODULE LocalSolverProofs -------------------------
(***************************************************************************)
(* What a local solve returns keeps what must be kept, and what it says of *)
(* it is true, for every set of portfolios, every configuration and every  *)
(* bounds.                                                                 *)
(***************************************************************************)
EXTENDS LocalSolver, TLAPS

\* What a policy of hard_fail asks of a portfolio.
Kept(p) ==
    /\ setting.tevPolicy = "hard_fail" => WithinLimit(p)
    /\ setting.volPolicy = "hard_fail" => AtTarget(p)

\* A portfolio answers the question when it keeps whatever was asked, hard or not.
Answers(p) == KeepsCap(p) /\ WithinLimit(p) /\ AtTarget(p)

\* The routes that are not audited.
Unaudited == {"hrp", "lp", "qp", "socp"}

Sound(c) ==
    /\ c.portfolio \in universe[c.regime]
    /\ KeepsCap(c.portfolio) /\ Kept(c.portfolio)
    /\ c.portfolio.rough => c.strategy \in Unaudited

Staged == {"objective", "tev_only", "vol_only", "witness"}

IsASequence == \E S : candidates \in Seq(S)

Places == universe \in Universes /\ regime \in Regimes

\* Only an unfinanced hrp is solved, and only without a target or a cap.
HrpIsPlain ==
    setting.objective = "hrp" =>
        /\ regime = "none"
        /\ setting.targetRef = "none" => setting.target = None
        /\ setting.capRef = "none" => setting.cap = None

\* The search and the fallback end with a portfolio of their regime that keeps what
\* must be kept.
FoundIsKept == pc = "audit" => found.portfolio \in universe[regime] /\ Kept(found.portfolio)

\* The first stage's bound is the limit, if the limit must be met ...
BoundIsLimit ==
    pc \in Staged \cup {"volatility"} /\ setting.tevPolicy = "hard_fail" /\ Limit # None =>
        bound = Limit

\* ... and the second stage's witness keeps the target, if that must be met.
WitnessIsKept ==
    pc \in Staged =>
        /\ witness # None => witness \in universe[regime]
        /\ witness # None /\ setting.tevPolicy = "hard_fail" => WithinLimit(witness)
        /\ setting.volPolicy = "hard_fail" /\ Target # None =>
             witness # None /\ witness.vol = Target

\* There is none before the second stage: a regime starts afresh.
Early == {"route", "search", "tracking_error", "volatility"}
NoWitnessYet == pc \in Early => witness = None

RelaxedOnlyIfBothMay == pc \in {"tev_only", "vol_only"} => BothRelaxable

CandidatesAreSound == \A i \in DOMAIN candidates : Sound(candidates[i])

OutcomeIsSound == Returned => Sound(outcome)

NothingYet == pc = "begin" => candidates = <<>> /\ outcome = None /\ asked \in Settings

SolveInv ==
    /\ Places /\ IsASequence /\ HrpIsPlain /\ FoundIsKept /\ BoundIsLimit /\ WitnessIsKept
    /\ NoWitnessYet /\ RelaxedOnlyIfBothMay /\ CandidatesAreSound /\ OutcomeIsSound
    /\ NothingYet

-----------------------------------------------------------------------------
LEMMA SolveInit == Init => SolveInv
<1> SUFFICES ASSUME Init PROVE SolveInv
  OBVIOUS
<1>1. /\ asked \in Settings /\ setting = asked /\ pc = "begin" /\ regime = "none"
      /\ candidates = <<>> /\ outcome = None
  BY DEF Init
<1>2. IsASequence
  BY <1>1 DEF IsASequence
<1>3. Places /\ HrpIsPlain
  BY <1>1, HrpNumbersAreReferenced DEF Init, Places, Regimes, HrpIsPlain
<1> QED
  BY <1>1, <1>2, <1>3
     DEF SolveInv, FoundIsKept, BoundIsLimit, WitnessIsKept, NoWitnessYet, Early,
         RelaxedOnlyIfBothMay, Staged, CandidatesAreSound, OutcomeIsSound, Returned, NothingYet

\* What the constraints mean depends on the setting and the universe alone.
Constant == UNCHANGED <<setting, universe>>

LEMMA SameMeaning ==
    ASSUME Constant
    PROVE  /\ Target' = Target /\ Cap' = Cap /\ Limit' = Limit
           /\ \A c : Sound(c)' <=> Sound(c)
           /\ \A p : /\ Kept(p)' <=> Kept(p)
                     /\ WithinLimit(p)' <=> WithinLimit(p)
           /\ BothRelaxable' <=> BothRelaxable
BY DEF Constant, Target, Cap, Limit, Resolve, Sound, Kept, WithinLimit, WithinCap, KeepsCap,
       AtTarget, BothRelaxable

\* Steps that leave the candidates and the answer alone, except to give up.
LEMMA AnswersStay ==
    ASSUME SolveInv, Constant, UNCHANGED candidates,
           outcome' \in {outcome, Raised}, pc' # "begin", regime' = regime
    PROVE  /\ Places' /\ IsASequence' /\ HrpIsPlain' /\ CandidatesAreSound'
           /\ OutcomeIsSound' /\ NothingYet'
<1>1. IsASequence' /\ CandidatesAreSound'
  BY SameMeaning DEF SolveInv, IsASequence, CandidatesAreSound
<1>2. Places' /\ HrpIsPlain' /\ NothingYet'
  BY DEF SolveInv, Constant, Places, HrpIsPlain, NothingYet
<1>3. OutcomeIsSound'
  BY SameMeaning DEF SolveInv, OutcomeIsSound, Returned
<1> QED  BY <1>1, <1>2, <1>3

\* ... which are all there is to show of a step to a label where nothing is pending.
LEMMA NothingPending ==
    ASSUME SolveInv, Constant, UNCHANGED candidates,
           outcome' \in {outcome, Raised}, regime' = regime,
           pc' \in {"done", "choose", "route", "search", "tracking_error"},
           pc' \in Early => witness' = None
    PROVE  SolveInv'
BY AnswersStay
   DEF SolveInv, FoundIsKept, BoundIsLimit, WitnessIsKept, NoWitnessYet, Early,
         RelaxedOnlyIfBothMay, Staged

LEMMA RaiseIsSafe ==
    ASSUME SolveInv, Raise
    PROVE  SolveInv'
<1>1. /\ UNCHANGED <<setting, universe, candidates, regime>>
      /\ outcome' \in {outcome, Raised} /\ pc' \in {"done", "choose"}
  BY DEF Raise, RaiseInRegime, Goto
<1> QED  BY <1>1, NothingPending DEF Constant, Early

\* A step to the audit, with a portfolio that keeps what must be kept.
LEMMA ToAudit ==
    ASSUME SolveInv, UNCHANGED solving, pc' = "audit",
           found'.portfolio \in universe[regime], Kept(found'.portfolio)
    PROVE  SolveInv'
<1>1. Constant /\ UNCHANGED <<candidates, outcome, regime>>
  BY DEF solving, Constant
<1>2. FoundIsKept'
  <2>1. Kept(found.portfolio)' <=> Kept(found'.portfolio)
    BY <1>1 DEF Constant, Kept, WithinLimit, AtTarget, Target, Limit, Resolve
  <2> QED  BY <1>1, <2>1 DEF FoundIsKept, Constant
<1> QED
  BY <1>1, <1>2, AnswersStay
     DEF SolveInv, BoundIsLimit, WitnessIsKept, NoWitnessYet, Early,
         RelaxedOnlyIfBothMay, Staged

\* A step between the stages.
LEMMA ToStage ==
    ASSUME SolveInv, UNCHANGED solving,
           BoundIsLimit', WitnessIsKept', NoWitnessYet', RelaxedOnlyIfBothMay',
           pc' \in Staged \cup {"volatility"}
    PROVE  SolveInv'
<1>1. Constant /\ UNCHANGED <<candidates, outcome, regime>>
  BY DEF solving, Constant
<1> QED  BY <1>1, AnswersStay DEF SolveInv, FoundIsKept, Staged

-----------------------------------------------------------------------------
(* The actions                                                             *)

LEMMA NormalizedHrp ==
    ASSUME NEW s \in Settings, s.objective = "hrp"
    PROVE  /\ Normalize(s).objective = "hrp"
           /\ Normalize(s).targetRef = "none" => Normalize(s).target = None
           /\ Normalize(s).capRef = "none" => Normalize(s).cap = None
<1>1. /\ s \in Setting
      /\ s.targetRef = "none" => s.target = None
      /\ s.capRef = "none" => s.cap = None
  BY HrpNumbersAreReferenced, SettingsAreSettings
<1> QED  BY <1>1 DEF Normalize, Setting

LEMMA NormalizeKeepsObjective ==
    ASSUME NEW s \in Settings
    PROVE  Normalize(s).objective = s.objective
BY SettingsAreSettings DEF Normalize, Setting

LEMMA BeginIsSafe ==
    ASSUME SolveInv, Begin
    PROVE  SolveInv'
<1>1. candidates = <<>> /\ outcome = None /\ asked \in Settings /\ UNCHANGED candidates
  BY DEF Begin, SolveInv, NothingYet
<1>2. pc' \in {"done", "regime"} /\ outcome' \in {None, Raised}
  BY <1>1 DEF Begin, Goto
<1>3. HrpIsPlain'
  <2>1. CASE RefusedAtOnce(asked)
    BY <2>1 DEF Begin, SolveInv, HrpIsPlain
  <2>2. CASE ~RefusedAtOnce(asked)
    <3>1. setting' = Normalize(asked) /\ regime' = IF Financed(asked) THEN "lend" ELSE "none"
      BY <2>2 DEF Begin
    <3>2. asked.objective = "hrp" => regime' = "none"
      BY <2>2, <3>1 DEF RefusedAtOnce
    <3>3. setting'.objective = asked.objective
      BY <1>1, <3>1, NormalizeKeepsObjective
    <3> QED  BY <1>1, <3>1, <3>2, <3>3, NormalizedHrp DEF HrpIsPlain
  <2> QED  BY <2>1, <2>2
<1>4. Places'
  BY DEF Begin, SolveInv, Places, Regimes
<1>5. IsASequence' /\ CandidatesAreSound' /\ OutcomeIsSound' /\ NothingYet'
  BY <1>1, <1>2 DEF SolveInv, IsASequence, CandidatesAreSound, OutcomeIsSound, Returned, NothingYet
<1> QED
  BY <1>2, <1>3, <1>4, <1>5
     DEF SolveInv, FoundIsKept, BoundIsLimit, WitnessIsKept, NoWitnessYet, Early,
         RelaxedOnlyIfBothMay, Staged

\* Steps that raise, and steps that only move on.
LEMMA QuietIsSafe ==
    ASSUME SolveInv,
           \/ Misclassify \/ Refuse \/ Prepare \/ FallToSearch \/ LimitWithoutReference
           \/ TrackingFails \/ VolatilityFails \/ Reject
    PROVE  SolveInv'
<1>1. CASE Refuse \/ LimitWithoutReference \/ TrackingFails \/ VolatilityFails \/ Reject
  BY <1>1, RaiseIsSafe
     DEF Refuse, LimitWithoutReference, TrackingFails, VolatilityFails, Reject
<1>2. CASE Misclassify \/ Prepare \/ FallToSearch
  <2>1. /\ Constant /\ UNCHANGED candidates /\ regime' = regime
        /\ outcome' \in {outcome, Raised} /\ pc' \in {"done", "route", "search"}
    BY <1>2 DEF Misclassify, Prepare, FallToSearch, Goto, solving, Constant
  <2>2. pc' \in Early => witness' = None
    BY <1>2 DEF Misclassify, Prepare, FallToSearch, Goto, SolveInv, NoWitnessYet, Early
  <2> QED  BY <2>1, <2>2, NothingPending
<1> QED  BY <1>1, <1>2

\* What _solve_core returns is a candidate: it needs to be of its regime, to keep the
\* cap and what must be kept, and to be within its bounds if it was audited.
LEMMA AnswerIsSafe ==
    ASSUME SolveInv, pc # "begin", NEW p \in universe[regime], NEW strategy,
           KeepsCap(p), Kept(p), p.rough => strategy \in Unaudited, Answer(p, strategy)
    PROVE  SolveInv'
<1> DEFINE new == Audited(p, strategy)
<1>1. /\ Constant /\ UNCHANGED <<regime, outcome>> /\ pc' = "choose"
      /\ candidates' = Append(candidates, new)
  BY DEF Answer, Goto, Constant
<1>2. Sound(new)
  <2>1. new.portfolio = p /\ new.regime = regime /\ new.strategy = strategy
    BY DEF Audited
  <2> QED  BY <2>1 DEF Sound
<1> HIDE DEF new
<1>3. PICK S : candidates \in Seq(S)
  BY DEF SolveInv, IsASequence
<1>4. /\ candidates' \in Seq(S \cup {new})
      /\ \A i \in DOMAIN candidates' : candidates'[i] = new \/
              (i \in DOMAIN candidates /\ candidates'[i] = candidates[i])
  <2>1. candidates \in Seq(S \cup {new})
    BY <1>3
  <2> QED  BY <1>1, <2>1
<1>5. CandidatesAreSound'
  BY <1>1, <1>2, <1>4, SameMeaning DEF SolveInv, CandidatesAreSound
<1>6. IsASequence'
  BY <1>4 DEF IsASequence
<1>7. Places' /\ HrpIsPlain' /\ OutcomeIsSound' /\ NothingYet'
  BY <1>1, SameMeaning
     DEF SolveInv, Constant, Places, HrpIsPlain, OutcomeIsSound, Returned, NothingYet
<1> QED
  BY <1>1, <1>5, <1>6, <1>7
     DEF SolveInv, FoundIsKept, BoundIsLimit, WitnessIsKept, NoWitnessYet, Early,
         RelaxedOnlyIfBothMay, Staged

LEMMA HrpIsSafe ==
    ASSUME SolveInv, SolveHrp
    PROVE  SolveInv'
<1>1. CASE Raise
  BY <1>1, RaiseIsSafe
<1>2. ASSUME NEW p \in universe["none"], Answer(p, "hrp")
      PROVE  SolveInv'
  <2>1. /\ setting.objective = "hrp" /\ regime = "none" /\ pc # "begin"
        /\ setting.targetRef = "none" /\ setting.target = None /\ setting.limit = None
        /\ setting.capRef = "none" /\ setting.cap = None
    BY DEF SolveHrp, HrpRefused, SolveInv, HrpIsPlain
  <2>2. Target = None /\ Cap = None /\ Limit = None
    BY <2>1 DEF Limit, Target, Cap, Resolve
  <2>3. Kept(p) /\ WithinCap(p)
    BY <2>2 DEF Kept, WithinLimit, AtTarget, WithinCap
  <2>4. p.vol # None
    BY <2>1, UniversesAreBounds, PortfoliosAreMeasured, NoneIsNoLevel
       DEF SolveInv, Places, Levels, Regimes
  <2>5. KeepsCap(p) /\ p \in universe[regime] /\ "hrp" \in Unaudited
    BY <2>1, <2>2, <2>3, <2>4 DEF KeepsCap, Unaudited
  <2> QED  BY <1>2, <2>1, <2>3, <2>5, AnswerIsSafe
<1> QED  BY <1>1, <1>2 DEF SolveHrp

\* The convex routes are taken where nothing else is asked, or the cone knows it.
LEMMA RoutesKeep ==
    ASSUME SolveInv, NEW p \in universe[regime]
    PROVE  /\ Route \in {"lp", "qp"} => Answers(p)
           /\ Route = "socp" /\ p \in ConeSet => Answers(p)
<1>1. Route \in {"lp", "qp"} => Target = None /\ Limit = None /\ Cap = None
  BY DEF Route
<1>2. Route = "socp" => Target = None
  BY DEF Route
<1>3. p.vol # None
  BY UniversesAreBounds, PortfoliosAreMeasured, NoneIsNoLevel DEF SolveInv, Places, Levels
<1>4. Route \in {"lp", "qp"} => Answers(p)
  BY <1>1, <1>3 DEF Answers, WithinLimit, AtTarget, KeepsCap, WithinCap
<1>5. Route = "socp" /\ p \in ConeSet => Answers(p)
  BY <1>2 DEF Answers, AtTarget, ConeSet
<1> QED  BY <1>4, <1>5

LEMMA ConvexIsSafe ==
    ASSUME SolveInv, NEW S \in SUBSET universe[regime], NEW route \in {"lp", "qp", "socp"},
           SolveConvex(route, S),
           \A p \in S : Route = route => Answers(p)
    PROVE  SolveInv'
<1>1. PICK p \in S : Answer(p, route)
  BY DEF SolveConvex
<1>2. Kept(p) /\ KeepsCap(p) /\ p \in universe[regime] /\ pc # "begin"
  BY DEF SolveConvex, Answers, Kept
<1>3. route \in Unaudited
  BY DEF Unaudited
<1> QED  BY <1>1, <1>2, <1>3, AnswerIsSafe

LEMMA RouteIsSafe ==
    ASSUME SolveInv, SolveLp \/ SolveQp \/ SolveSocp
    PROVE  SolveInv'
<1>1. Best(universe[regime]) \in SUBSET universe[regime]
  BY DEF Best
<1>2. CASE SolveLp
  BY <1>1, <1>2, RoutesKeep, ConvexIsSafe DEF SolveLp
<1>3. CASE SolveQp
  BY <1>1, <1>3, RoutesKeep, ConvexIsSafe DEF SolveQp
<1>4. CASE SolveSocp
  <2>1. ConeSet \in SUBSET universe[regime]
    BY DEF ConeSet
  <2> QED  BY <1>4, <2>1, RoutesKeep, ConvexIsSafe DEF SolveSocp
<1> QED  BY <1>2, <1>3, <1>4

LEMMA SearchIsSafe ==
    ASSUME SolveInv, SearchSucceeds \/ SearchFails
    PROVE  SolveInv'
<1>1. CASE SearchSucceeds
  <2>1. PICK p \in Feasible : found' = [portfolio |-> p, strategy |-> "search"]
    BY <1>1 DEF SearchSucceeds
  <2>2. p \in universe[regime] /\ Kept(p)
    BY DEF Feasible, Hard, Kept
  <2> QED  BY <1>1, <2>1, <2>2, ToAudit DEF SearchSucceeds, Goto
<1>2. CASE SearchFails
  <2>1. CASE Target = None /\ Limit = None
    BY <1>2, <2>1, RaiseIsSafe DEF SearchFails
  <2>2. CASE Limit # None
    <3>1. Constant /\ UNCHANGED <<candidates, regime, outcome>> /\ pc' = "tracking_error"
      BY <1>2, <2>2 DEF SearchFails, Goto, solving, Constant
    <3>2. witness' = None
      BY <1>2, <2>2 DEF SearchFails, SolveInv, NoWitnessYet, Early
    <3> QED  BY <3>1, <3>2, NothingPending
  <2>3. CASE Target # None /\ Limit = None
    <3>1. UNCHANGED solving /\ pc' = "volatility"
      BY <1>2, <2>3 DEF SearchFails, Goto
    <3>2. Limit' = Limit
      BY <3>1 DEF solving, Limit
    <3>3. witness' = None
      BY <1>2, <2>3 DEF SearchFails, SolveInv, NoWitnessYet, Early
    <3>4. BoundIsLimit' /\ WitnessIsKept' /\ NoWitnessYet' /\ RelaxedOnlyIfBothMay'
      BY <2>3, <3>1, <3>2, <3>3
         DEF BoundIsLimit, WitnessIsKept, NoWitnessYet, Early,
         RelaxedOnlyIfBothMay, Staged
    <3> QED  BY <3>1, <3>4, ToStage
  <2> QED  BY <2>1, <2>2, <2>3
<1> QED  BY <1>1, <1>2

LEMMA TrackingIsSafe ==
    ASSUME SolveInv, ProjectTracking
    PROVE  SolveInv'
<1>1. /\ UNCHANGED solving /\ witness' = None /\ witness = None
      /\ pc' = AfterTracking
      /\ bound' = Limit \/ setting.tevPolicy = "nearest_feasible"
  BY DEF ProjectTracking, Goto, SolveInv, NoWitnessYet, Early
<1>2. Limit' = Limit /\ Target' = Target /\ setting' = setting
  BY <1>1 DEF solving, Limit, Target, Resolve
<1>3. pc' = IF Target # None THEN "volatility" ELSE "objective"
  BY <1>1 DEF AfterTracking
<1>4. BoundIsLimit' /\ WitnessIsKept' /\ NoWitnessYet' /\ RelaxedOnlyIfBothMay'
  BY <1>1, <1>2, <1>3
     DEF BoundIsLimit, WitnessIsKept, NoWitnessYet, Early,
         RelaxedOnlyIfBothMay, Staged
<1> QED  BY <1>1, <1>3, <1>4, ToStage DEF Staged

LEMMA VolatilityIsSafe ==
    ASSUME SolveInv, ProjectVolatility
    PROVE  SolveInv'
<1>1. PICK p \in Hard :
        /\ WithinBound(p) /\ witness' = p
        /\ p.vol = Target \/ setting.volPolicy = "nearest_feasible"
  BY DEF ProjectVolatility
<1>2. UNCHANGED <<solving, bound>> /\ pc = "volatility" /\ pc' = "objective"
  BY DEF ProjectVolatility, Goto
<1>3. Constant /\ regime' = regime
  BY <1>2 DEF solving, Constant
<1>4. BoundIsLimit'
  BY <1>2, <1>3, SameMeaning DEF SolveInv, BoundIsLimit, Staged, Constant
<1>5. WitnessIsKept'
  <2>1. setting.tevPolicy = "hard_fail" => WithinLimit(p)
    BY <1>1, <1>2 DEF SolveInv, BoundIsLimit, WithinBound, WithinLimit
  <2>2. p \in universe[regime] /\ p # None
    BY UniversesAreBounds, NoneIsNoPortfolio DEF Hard, SolveInv, Places
  <2>3. setting.volPolicy = "hard_fail" => p.vol = Target
    BY <1>1
  <2>4. WithinLimit(p)' <=> WithinLimit(p)
    BY <1>3, SameMeaning
  <2>5. WithinLimit(witness)' <=> WithinLimit(p)'
    BY <1>1 DEF WithinLimit
  <2> QED  BY <1>1, <1>3, <2>1, <2>2, <2>3, <2>4, <2>5, SameMeaning DEF WitnessIsKept, Constant
<1>6. NoWitnessYet' /\ RelaxedOnlyIfBothMay'
  BY <1>2 DEF NoWitnessYet, Early, RelaxedOnlyIfBothMay
<1> QED  BY <1>2, <1>4, <1>5, <1>6, ToStage DEF Staged

\* A solve within the bound and the band keeps what must be kept.
LEMMA SettleIsSafe ==
    ASSUME SolveInv, NEW S \in SUBSET universe[regime], NEW status, Settle(S, status),
           \A p \in S : Kept(p)
    PROVE  SolveInv'
<1>1. PICK p \in S : found' = [portfolio |-> p, strategy |-> "projection"]
  BY DEF Settle
<1> QED  BY <1>1, ToAudit DEF Settle, Goto

LEMMA AbandonIsSafe ==
    ASSUME SolveInv, pc \in Staged, NEW step, Abandon(step), step \in Staged,
           step \in {"tev_only", "vol_only"} => BothRelaxable
    PROVE  SolveInv'
<1>1. UNCHANGED <<solving, bound, witness>> /\ pc' = step
  BY DEF Abandon, Goto
<1>2. Constant /\ regime' = regime
  BY <1>1 DEF solving, Constant
<1>3. BoundIsLimit'
  BY <1>1, <1>2, SameMeaning DEF SolveInv, BoundIsLimit, Constant
<1>4. WitnessIsKept'
  BY <1>1, <1>2, SameMeaning DEF SolveInv, WitnessIsKept, Constant, WithinLimit
<1>5. NoWitnessYet' /\ RelaxedOnlyIfBothMay'
  BY <1>1, <1>2, SameMeaning DEF NoWitnessYet, Early, Staged, RelaxedOnlyIfBothMay
<1> QED  BY <1>1, <1>3, <1>4, <1>5, ToStage

LEMMA WithinBoundsIsKept ==
    ASSUME SolveInv, pc \in Staged, NEW p, WithinBound(p), InBand(p)
    PROVE  Kept(p)
BY DEF SolveInv, BoundIsLimit, WitnessIsKept, WithinBound, InBand, Kept, WithinLimit, AtTarget

LEMMA ObjectiveIsSafe ==
    ASSUME SolveInv, OptimizeObjective
    PROVE  SolveInv'
<1>1. pc \in Staged
  BY DEF OptimizeObjective, Staged
<1>2. CASE Settle({p \in Hard : WithinBound(p) /\ InBand(p)}, "optimized")
  BY <1>1, <1>2, WithinBoundsIsKept, SettleIsSafe DEF Hard
<1>3. CASE Abandon(IF MayRelax THEN "tev_only" ELSE "witness")
  BY <1>1, <1>3, AbandonIsSafe DEF MayRelax, Staged
<1> QED  BY <1>2, <1>3 DEF OptimizeObjective

\* With both policies nearest_feasible nothing must be kept but the bounds and the cap.
LEMMA RelaxedIsSafe ==
    ASSUME SolveInv, OptimizeWithinTracking \/ OptimizeInBand
    PROVE  SolveInv'
<1>1. pc \in Staged /\ BothRelaxable
  BY DEF OptimizeWithinTracking, OptimizeInBand, Staged, SolveInv, RelaxedOnlyIfBothMay
<1>2. \A p : Kept(p)
  BY <1>1 DEF BothRelaxable, Kept
<1>3. CASE OptimizeWithinTracking
  BY <1>1, <1>2, <1>3, SettleIsSafe, AbandonIsSafe
     DEF OptimizeWithinTracking, KeepingTracking, Hard, Staged
<1>4. CASE OptimizeInBand
  BY <1>1, <1>2, <1>4, SettleIsSafe, AbandonIsSafe
     DEF OptimizeInBand, KeepingVolatility, Hard, Staged
<1> QED  BY <1>3, <1>4

LEMMA WitnessIsSafe ==
    ASSUME SolveInv, ReturnWitness
    PROVE  SolveInv'
<1>1. CASE witness # None /\ setting.volPolicy = "nearest_feasible"
  <2>1. witness \in universe[regime] /\ Kept(witness)
    BY <1>1 DEF ReturnWitness, SolveInv, WitnessIsKept, Staged, Kept
  <2> QED  BY <1>1, <2>1, SettleIsSafe DEF ReturnWitness
<1>2. CASE ~(witness # None /\ setting.volPolicy = "nearest_feasible")
  BY <1>2, RaiseIsSafe DEF ReturnWitness
<1> QED  BY <1>1, <1>2

LEMMA AcceptIsSafe ==
    ASSUME SolveInv, Accept
    PROVE  SolveInv'
<1>1. /\ found.portfolio \in universe[regime] /\ Kept(found.portfolio)
      /\ KeepsCap(found.portfolio) /\ ~found.portfolio.rough /\ pc # "begin"
      /\ Answer(found.portfolio, found.strategy)
  BY DEF Accept, SolveInv, FoundIsKept, PassesAudit
<1> QED  BY <1>1, AnswerIsSafe

LEMMA NextRegimeIsSafe ==
    ASSUME SolveInv, SolveNextRegime
    PROVE  SolveInv'
<1>1. /\ Constant /\ UNCHANGED <<candidates, outcome>> /\ pc' = "regime"
      /\ regime = "lend" /\ regime' = "borrow"
  <2>1. NextRegime # None
    BY DEF SolveNextRegime
  <2>2. regime = "lend" /\ NextRegime = "borrow"
    BY <2>1 DEF NextRegime
  <2> QED  BY <2>2 DEF SolveNextRegime, Goto, Constant
<1>2. setting.objective # "hrp"
  BY <1>1 DEF SolveInv, HrpIsPlain
<1>3. Places' /\ HrpIsPlain' /\ NothingYet'
  BY <1>1, <1>2 DEF SolveInv, Constant, Places, Regimes, HrpIsPlain, NothingYet
<1>4. IsASequence' /\ CandidatesAreSound' /\ OutcomeIsSound'
  BY <1>1, SameMeaning
     DEF SolveInv, IsASequence, CandidatesAreSound, OutcomeIsSound, Returned
<1> QED
  BY <1>1, <1>3, <1>4
     DEF SolveInv, FoundIsKept, BoundIsLimit, WitnessIsKept, NoWitnessYet, Early,
         RelaxedOnlyIfBothMay, Staged

LEMMA ChooseIsSafe ==
    ASSUME SolveInv, Choose
    PROVE  SolveInv'
<1>1. Constant /\ UNCHANGED <<candidates, regime>> /\ pc' = "done"
  BY DEF Choose, Goto, Constant
<1>2. outcome' = Raised \/ \E i \in DOMAIN candidates : outcome' = candidates[i]
  BY DEF Choose
<1>3. OutcomeIsSound'
  <2>1. Returned' => Sound(outcome')
    BY <1>2 DEF SolveInv, CandidatesAreSound, Returned
  <2>2. Sound(outcome') <=> Sound(outcome)'
    BY <1>1 DEF Sound, Constant, Kept, WithinLimit, WithinCap, KeepsCap, AtTarget, Target,
                Cap, Limit, Resolve
  <2> QED  BY <2>1, <2>2 DEF OutcomeIsSound
<1>4. Places' /\ HrpIsPlain' /\ NothingYet' /\ IsASequence' /\ CandidatesAreSound'
  BY <1>1, SameMeaning
     DEF SolveInv, Constant, Places, HrpIsPlain, NothingYet, IsASequence, CandidatesAreSound
<1> QED
  BY <1>1, <1>3, <1>4
     DEF SolveInv, FoundIsKept, BoundIsLimit, WitnessIsKept, NoWitnessYet, Early,
         RelaxedOnlyIfBothMay, Staged

LEMMA StutterIsSafe ==
    ASSUME SolveInv, UNCHANGED vars
    PROVE  SolveInv'
BY DEF SolveInv, vars, Places, IsASequence, HrpIsPlain, FoundIsKept, BoundIsLimit,
       WitnessIsKept, NoWitnessYet, RelaxedOnlyIfBothMay, BothRelaxable, CandidatesAreSound,
       OutcomeIsSound, Returned, NothingYet, Sound, Kept, WithinLimit, WithinCap, KeepsCap,
       AtTarget, Target, Cap, Limit, Resolve

-----------------------------------------------------------------------------
(* The theorems                                                            *)

\* At every label of a solve, what was found so far keeps what the policies make hard,
\* and the bounds of the fallback's stages are those that say so (_solve_core).
THEOREM SolveAlwaysSound == Spec => []SolveInv
<1>1. SolveInv /\ [Next]_vars => SolveInv'
  BY BeginIsSafe, QuietIsSafe, HrpIsSafe, RouteIsSafe, SearchIsSafe, TrackingIsSafe,
     VolatilityIsSafe, ObjectiveIsSafe, RelaxedIsSafe, WitnessIsSafe, AcceptIsSafe,
     NextRegimeIsSafe, ChooseIsSafe, StutterIsSafe
     DEF Next
<1> QED  BY SolveInit, <1>1, PTL DEF Spec

\* Whatever route found it and whatever was relaxed, a returned portfolio keeps the
\* resolved volatility cap: the search's and the fallback's by _audit_hard_constraints,
\* which also holds them to their bounds, the cone program's by its own recheck, and the
\* other routes' because they are not taken where there is a cap (_solve_core).
THEOREM HardConstraintsAlwaysHold == Spec => []HardConstraintsHold
<1>1. SolveInv => HardConstraintsHold
  BY DEF SolveInv, OutcomeIsSound, Sound, Unaudited, HardConstraintsHold, Weights
<1> QED  BY SolveAlwaysSound, <1>1, PTL

\* A hard_fail limit or target is kept by every returned portfolio, through every
\* stage of the fallback (_lexicographic_fallback).
THEOREM HardFailIsAlwaysHard == Spec => []HardFailIsHard
<1>1. SolveInv => HardFailIsHard
  BY DEF SolveInv, OutcomeIsSound, Sound, Kept, HardFailIsHard, Weights
<1> QED  BY SolveAlwaysSound, <1>1, PTL

-----------------------------------------------------------------------------
(* What a solve says about the portfolio it returns is true: that it       *)
(* solves the problem that was asked, what each stage of the fallback      *)
(* achieved, and that no financing regime was better.                      *)

-----------------------------------------------------------------------------
(* The invariant                                                           *)

Found == [portfolio : Portfolios, strategy : Strategies]

Typed ==
    /\ asked \in Setting /\ setting \in Setting /\ universe \in Universes
    /\ pc \in Steps /\ regime \in Regimes
    /\ stages \in Seq(Stages)
    /\ bound \in Levels \cup {None} /\ witness \in Portfolios \cup {None}
    /\ found \in Found \cup {None}
    /\ candidates \in Seq(Candidate) /\ failures \subseteq Regimes
    /\ outcome \in {None, Raised} \cup ToSet(candidates)

\* The regimes that were tried when a solve stands at a label: each ended in a
\* candidate or in a failure.
Tried == failures \cup {candidates[i].regime : i \in DOMAIN candidates}
Earlier == IF regime = "borrow" THEN {"lend"} ELSE {}
Current == IF pc = "choose" THEN {regime} ELSE {}
RegimesCounted ==
    /\ pc # "done" =>
         /\ Tried = Earlier \cup Current
         /\ Len(candidates) <= (IF regime = "borrow" THEN 1 ELSE 0)
                             + (IF pc = "choose" THEN 1 ELSE 0)
         /\ outcome = None
    /\ Len(candidates) <= 2
    /\ pc = "begin" => regime = "none" /\ asked \in Settings
    /\ regime = "borrow" => setting.leverage

\* The choice among them.
Chosen ==
    pc = "done" /\ regime # "none" /\ ~Unclassifiable(setting) =>
      /\ Tried = IF setting.leverage THEN {"lend", "borrow"} ELSE {"lend"}
      /\ candidates # <<>> =>
           Returned /\ \A i \in DOMAIN candidates : ~Beats(candidates[i].score, outcome.score)

\* What a convex route may claim: that its portfolio answers the question, and, but for
\* the cone program's, that nothing that does is better.
ClaimHolds(p, strategy, r) ==
    /\ Answers(p)
    /\ strategy # "socp" =>
         \A q \in Exact(universe[r]) : Answers(q) => ~Beats(Economic(q), Economic(p))

\* A log of the stages "names", of which each ran once, if there was a bound for it.
\* The first fixed the bound, the second the volatility.
Bounded(name) == IF name = "tracking_error" THEN Limit # None ELSE Target # None
EntryIsTrue(e) ==
    /\ e.stage = "tracking_error" =>
         /\ bound # None /\ bound = Max({Limit, e.achieved})
         /\ e.status = "nearest_feasible" => setting.tevPolicy = "nearest_feasible"
    /\ e.stage = "volatility" =>
         /\ witness # None /\ e.achieved = witness.vol
         /\ e.status = "nearest_feasible" => setting.volPolicy = "nearest_feasible"
LogIsOf(names) ==
    /\ \A i \in DOMAIN stages : stages[i].stage \in names /\ EntryIsTrue(stages[i])
    /\ \A i, j \in DOMAIN stages : stages[i].stage = stages[j].stage => i = j
    /\ \A name \in names : Ran(stages, name) <=> Bounded(name)

LogSoFar ==
    /\ pc \in {"route", "search", "tracking_error"} => stages = <<>> /\ bound = None
    /\ pc = "tracking_error" => Limit # None
    /\ pc = "volatility" => Target # None /\ LogIsOf({"tracking_error"})
    /\ pc \in Staged => LogIsOf({"tracking_error", "volatility"})
    /\ pc \in Staged /\ Limit = None => bound = None
    /\ pc = "volatility" /\ Limit = None => bound = None
    /\ pc \in Staged /\ Target = None => witness = None
    /\ pc \in Staged /\ witness # None => WithinBound(witness)

\* What the log says of a projected portfolio.
LogTells(log, p) ==
    LET last == log[Len(log)]
    IN  /\ last.stage = "objective"
        /\ Ran(log, "tracking_error") <=> Limit # None
        /\ Ran(log, "volatility") <=> Target # None
        /\ Limit # None /\ last.status # "optimized_volatility_priority" =>
             p.tev <= Max({Limit, AchievedIn(log, "tracking_error")})
        /\ Target # None /\ last.status # "optimized_tev_priority" =>
             p.vol = AchievedIn(log, "volatility")
        /\ \A i \in DOMAIN log : log[i].status = "nearest_feasible" =>
             "nearest_feasible" =
               IF log[i].stage = "volatility" THEN setting.volPolicy
               ELSE setting.tevPolicy

\* What is claimed of a portfolio when its route ends, and in every answer.
FoundIsTold ==
    pc = "audit" =>
        /\ found \in Found /\ found.strategy \in {"search", "projection"}
        /\ found.strategy = "projection" => LogTells(stages, found.portfolio)
CandidateIsTold(c) ==
    /\ c.claim => ClaimHolds(c.portfolio, c.strategy, c.regime)
    /\ c.strategy = "projection" => LogTells(c.stages, c.portfolio)
CandidatesAreTold == \A i \in DOMAIN candidates : CandidateIsTold(candidates[i])

AnswerInv ==
    /\ Typed /\ RegimesCounted /\ Chosen /\ LogSoFar /\ FoundIsTold /\ CandidatesAreTold

-----------------------------------------------------------------------------
(* Types                                                                   *)

LEMMA InUniverse ==
    ASSUME Typed, NEW r \in Regimes, NEW p \in universe[r]
    PROVE  p \in Portfolios /\ p.risk \in Nat /\ p.vol \in Nat /\ p.tev \in Nat
BY UniversesAreBounds, PortfoliosAreMeasured DEF Typed

LEMMA InHard ==
    ASSUME Typed, NEW p \in Hard
    PROVE  /\ p \in universe[regime] /\ p \in Portfolios
           /\ p.vol \in Nat /\ p.tev \in Nat
BY InUniverse DEF Typed, Hard

LEMMA ConstraintsTyped ==
    ASSUME Typed
    PROVE  /\ Target \in Levels \cup {None} /\ Cap \in Levels \cup {None}
           /\ Limit \in Levels \cup {None}
BY DEF Typed, Setting, Target, Cap, Limit, Resolve

LEMMA AppendTyped ==
    ASSUME NEW S, NEW log \in Seq(S), NEW e \in S
    PROVE  /\ Append(log, e) \in Seq(S) /\ Len(Append(log, e)) = Len(log) + 1
           /\ Append(log, e)[Len(log) + 1] = e
           /\ DOMAIN Append(log, e) = 1..Len(log) + 1 /\ DOMAIN log = 1..Len(log)
           /\ \A i \in 1..Len(log) : Append(log, e)[i] = log[i]
           /\ Len(log) \in Nat
<1>1. /\ Append(log, e) \in Seq(S) /\ Len(Append(log, e)) = Len(log) + 1
      /\ Len(log) \in Nat
  OBVIOUS
<1>2. DOMAIN Append(log, e) = 1..Len(log) + 1 /\ DOMAIN log = 1..Len(log)
  BY <1>1
<1>3. Append(log, e)[Len(log) + 1] = e
  OBVIOUS
<1>4. \A i \in 1..Len(log) : Append(log, e)[i] = log[i]
  OBVIOUS
<1> QED  BY <1>1, <1>2, <1>3, <1>4

LEMMA NormalizeTyped ==
    ASSUME NEW s \in Setting
    PROVE  Normalize(s) \in Setting
<1>1. s.target \in Levels \cup {None} /\ s.targetRef \in References
  BY DEF Setting
<1> DEFINE a == [s EXCEPT !.cap = s.target]
           b == [a EXCEPT !.capRef = s.targetRef]
           c == [b EXCEPT !.target = None]
           d == [c EXCEPT !.targetRef = "none"]
<1>2. a \in Setting
  BY <1>1 DEF Setting
<1> HIDE DEF a
<1>3. b \in Setting
  BY <1>1, <1>2 DEF Setting
<1> HIDE DEF b
<1>4. c \in Setting
  BY <1>3 DEF Setting
<1> HIDE DEF c
<1>5. d \in Setting
  BY <1>4 DEF Setting, References
<1>6. [s EXCEPT !.cap = s.target, !.capRef = s.targetRef,
               !.target = None, !.targetRef = "none"] = d
  BY DEF a, b, c, Setting
<1> QED  BY <1>5, <1>6 DEF Normalize

\* Whether a portfolio is scored by its risk or by its volatility, a score is a fraction.
LEMMA ScoreTyped ==
    ASSUME Typed, NEW p \in Portfolios
    PROVE  Reported(p) \in Int \X Int
<1>1. p.risk \in Nat /\ p.vol \in Nat /\ p.gain \in Nat
  BY PortfoliosAreMeasured
<1> DEFINE risk == IF Target # None \/ Cap # None THEN p.vol ELSE p.risk
<1>2. risk \in Nat
  BY <1>1
<1>3. Reported(p) = ScoreOf(EffectiveObjective, p, risk)
  BY DEF Reported
<1> HIDE DEF risk
<1>4. \A o : ScoreOf(o, p, risk) \in Int \X Int
  BY <1>1, <1>2 DEF ScoreOf, Top
<1> QED  BY <1>3, <1>4

LEMMA AuditedTyped ==
    ASSUME Typed, NEW p \in Portfolios, NEW strategy \in Strategies
    PROVE  Audited(p, strategy) \in Candidate
<1>1. regime \in Regimes /\ stages \in Seq(Stages) /\ Reported(p) \in Int \X Int
  BY ScoreTyped DEF Typed
<1> DEFINE ts == Status(AtTarget(p), Target, "matched")
           ls == Status(WithinLimit(p), Limit, "within_limit")
<1>2. ts \in {"not_requested", "matched", "nearest_feasible"}
  BY DEF Status
<1>3. ls \in {"not_requested", "within_limit", "nearest_feasible"}
  BY DEF Status
<1> HIDE DEF ts, ls
<1>4. [portfolio |-> p, strategy |-> strategy, regime |-> regime, stages |-> stages,
       score |-> Reported(p), targetStatus |-> ts, tevStatus |-> ls,
       claim |-> strategy \in {"lp", "qp", "socp"}] \in Candidate
  BY <1>1, <1>2, <1>3 DEF Candidate
<1> QED  BY <1>4 DEF Audited, ts, ls

\* A regime ends with an answer that tells the truth ...
AnswersTruly ==
    \E p \in Portfolios, strategy \in Strategies :
        Answer(p, strategy) /\ CandidateIsTold(Audited(p, strategy))
Ongoing == pc \notin {"begin", "choose", "done"}

\* ... whichever route gives it.
LEMMA AnswersAreTrue ==
    ASSUME Typed, SolveInv, FoundIsTold,
           (SolveHrp /\ ~Raise) \/ SolveLp \/ SolveQp \/ SolveSocp \/ Accept
    PROVE  AnswersTruly /\ Ongoing
<1>1. ASSUME NEW p, NEW strategy
      PROVE  /\ Audited(p, strategy).portfolio = p /\ Audited(p, strategy).strategy = strategy
             /\ Audited(p, strategy).regime = regime /\ Audited(p, strategy).stages = stages
             /\ Audited(p, strategy).claim => strategy \in {"lp", "qp", "socp"}
  BY DEF Audited
<1>2. CASE SolveHrp /\ ~Raise
  <2>1. PICK p \in universe["none"] : Answer(p, "hrp")
    BY <1>2 DEF SolveHrp
  <2>2. p \in Portfolios /\ "hrp" \in Strategies
    BY InUniverse DEF Regimes, Strategies
  <2>3. CandidateIsTold(Audited(p, "hrp"))
    <3>1. ~Audited(p, "hrp").claim /\ Audited(p, "hrp").strategy # "projection"
      BY <1>1
    <3> QED  BY <3>1 DEF CandidateIsTold
  <2> QED  BY <1>2, <2>1, <2>2, <2>3 DEF SolveHrp, AnswersTruly, Ongoing
<1>3. ASSUME NEW route \in {"lp", "qp"}, SolveConvex(route, Best(universe[regime]))
      PROVE  AnswersTruly /\ Ongoing
  <2>1. PICK p \in Best(universe[regime]) : Answer(p, route)
    BY <1>3 DEF SolveConvex
  <2>2. /\ p \in universe[regime] /\ Route = route /\ pc = "route"
        /\ \A q \in Exact(universe[regime]) : ~Beats(Economic(q), Economic(p))
    BY <1>3 DEF SolveConvex, Best
  <2>3. p \in Portfolios /\ route \in Strategies
    BY <2>2, InUniverse DEF Typed, Strategies
  <2>4. Answers(p)
    BY <2>2, RoutesKeep
  <2>5. ClaimHolds(p, route, regime)
    BY <2>2, <2>4 DEF ClaimHolds
  <2>6. CandidateIsTold(Audited(p, route))
    BY <1>1, <2>5 DEF CandidateIsTold
  <2> QED  BY <2>1, <2>2, <2>3, <2>6 DEF AnswersTruly, Ongoing
<1>4. CASE SolveSocp
  <2>1. PICK p \in ConeSet : Answer(p, "socp")
    BY <1>4 DEF SolveSocp, SolveConvex
  <2>2. p \in universe[regime] /\ Route = "socp" /\ pc = "route"
    BY <1>4, <2>1 DEF SolveSocp, SolveConvex, ConeSet
  <2>3. p \in Portfolios /\ "socp" \in Strategies
    BY <2>2, InUniverse DEF Typed, Strategies
  <2>4. ClaimHolds(p, "socp", regime)
    BY <2>1, <2>2, RoutesKeep DEF ClaimHolds
  <2>5. CandidateIsTold(Audited(p, "socp"))
    BY <1>1, <2>4 DEF CandidateIsTold
  <2> QED  BY <2>1, <2>2, <2>3, <2>5 DEF AnswersTruly, Ongoing
<1>5. CASE Accept
  <2>1. Answer(found.portfolio, found.strategy) /\ pc = "audit"
    BY <1>5 DEF Accept
  <2>2. /\ found.portfolio \in Portfolios /\ found.strategy \in Strategies
        /\ found.strategy \in {"search", "projection"}
        /\ found.strategy = "projection" => LogTells(stages, found.portfolio)
    BY <2>1 DEF FoundIsTold, Found
  <2>3. CandidateIsTold(Audited(found.portfolio, found.strategy))
    <3>1. /\ ~Audited(found.portfolio, found.strategy).claim
          /\ Audited(found.portfolio, found.strategy).strategy = found.strategy
          /\ Audited(found.portfolio, found.strategy).stages = stages
          /\ Audited(found.portfolio, found.strategy).portfolio = found.portfolio
      BY <1>1, <2>2
    <3> QED  BY <2>2, <3>1 DEF CandidateIsTold
  <2> QED  BY <2>1, <2>2, <2>3 DEF AnswersTruly, Ongoing
<1>6. CASE SolveLp
  BY <1>3, <1>6 DEF SolveLp
<1>7. CASE SolveQp
  BY <1>3, <1>7 DEF SolveQp
<1> QED  BY <1>2, <1>4, <1>5, <1>6, <1>7

\* The variables a step of a regime leaves alone.
LEMMA SolvingTyped ==
    ASSUME Typed, UNCHANGED solving, pc' \in Steps, stages' \in Seq(Stages),
           bound' \in Levels \cup {None}, witness' \in Portfolios \cup {None},
           found' \in Found \cup {None}
    PROVE  Typed'
BY DEF Typed, solving

LEMMA RaiseTyped ==
    ASSUME Typed, RegimesCounted, pc # "done", Raise
    PROVE  Typed'
<1>1. outcome' \in {None, Raised} /\ pc' \in {"done", "choose"}
  BY DEF Raise, RaiseInRegime, Goto, RegimesCounted
<1> QED  BY <1>1 DEF Raise, Typed, Steps

LEMMA AnswerTyped ==
    ASSUME Typed, RegimesCounted, AnswersTruly, Ongoing
    PROVE  Typed'
<1>1. PICK p \in Portfolios, strategy \in Strategies : Answer(p, strategy)
  BY DEF AnswersTruly
<1>2. candidates' \in Seq(Candidate)
  BY <1>1, AuditedTyped, AppendTyped DEF Answer, Typed
<1>3. outcome = None
  BY DEF RegimesCounted, Ongoing
<1> QED  BY <1>1, <1>2, <1>3 DEF Answer, Goto, Typed, Steps

LEMMA SettleTyped ==
    ASSUME Typed, NEW S \in SUBSET Portfolios, NEW status, Settle(S, status),
           status \in {"optimized", "optimized_tev_priority", "optimized_volatility_priority",
                       "nearest_feasible_witness"}
    PROVE  Typed'
<1>1. PICK p \in S : found' = [portfolio |-> p, strategy |-> "projection"]
  BY DEF Settle
<1>2. found' \in Found
  BY <1>1 DEF Found, Strategies
<1>3. Stage("objective", status, None) \in Stages
  BY DEF Stage, Stages
<1>4. stages' \in Seq(Stages)
  BY <1>3, AppendTyped DEF Settle, Typed
<1>5. /\ UNCHANGED <<solving, bound, witness>> /\ pc' = "audit"
  BY DEF Settle, Goto
<1> QED  BY <1>2, <1>4, <1>5, SolvingTyped DEF Typed, Steps

LEMMA AbandonTyped ==
    ASSUME Typed, NEW step \in Steps, Abandon(step)
    PROVE  Typed'
BY SolvingTyped DEF Abandon, Goto, Typed

LEMMA TypedStep ==
    ASSUME Typed, RegimesCounted, FoundIsTold, LogSoFar, SolveInv, [Next]_vars
    PROVE  Typed'
<1>1. CASE Begin
  <2>1. asked \in Setting /\ Normalize(asked) \in Setting
    BY NormalizeTyped DEF Typed
  <2>2. outcome = None
    BY <1>1 DEF Begin, RegimesCounted
  <2> QED  BY <1>1, <2>1, <2>2 DEF Begin, Goto, Typed, Steps, Regimes
<1>2. CASE Misclassify
  BY <1>2 DEF Misclassify, Goto, Typed, Steps
<1>3. CASE Refuse \/ LimitWithoutReference \/ TrackingFails \/ VolatilityFails \/ Reject
  BY <1>3, RaiseTyped DEF Refuse, LimitWithoutReference, TrackingFails, VolatilityFails, Reject
<1>4. CASE SolveHrp \/ SolveLp \/ SolveQp \/ SolveSocp \/ Accept
  <2>1. CASE SolveHrp /\ Raise
    BY <2>1, RaiseTyped DEF SolveHrp
  <2> QED  BY <1>4, <2>1, AnswersAreTrue, AnswerTyped
<1>5. CASE Prepare
  <2>1. UNCHANGED solving /\ stages' = <<>> /\ bound' = None /\ witness' = None /\ found' = None
    BY <1>5 DEF Prepare
  <2>2. <<>> \in Seq(Stages)
    OBVIOUS
  <2> QED  BY <1>5, <2>1, <2>2, SolvingTyped DEF Prepare, Goto, Steps
<1>7. CASE FallToSearch
  BY <1>7, SolvingTyped DEF FallToSearch, Goto, Typed, Steps
<1>8. CASE SearchSucceeds
  <2>1. PICK p \in Feasible : found' = [portfolio |-> p, strategy |-> "search"]
    BY <1>8 DEF SearchSucceeds
  <2>2. p \in Portfolios
    BY InHard DEF Feasible
  <2>3. found' \in Found
    BY <2>1, <2>2 DEF Found, Strategies
  <2> QED  BY <1>8, <2>3, SolvingTyped DEF SearchSucceeds, Goto, Typed, Steps
<1>9. CASE SearchFails
  <2>1. CASE Raise
    BY <1>9, <2>1, RaiseTyped DEF SearchFails
  <2>2. CASE UNCHANGED <<solving, stages, bound, witness, found>> /\
             pc' \in {"tracking_error", "volatility"}
    BY <2>2, SolvingTyped DEF Typed, Steps
  <2> QED  BY <1>9, <2>1, <2>2 DEF SearchFails, Goto
<1>10. CASE ProjectTracking
  <2>1. PICK p \in Closest(Hard) :
          \E status \in {"within_limit", "nearest_feasible"} :
            /\ bound' \in {Limit, p.tev}
            /\ stages' = Append(stages, Stage("tracking_error", status, p.tev))
    BY <1>10 DEF ProjectTracking
  <2>2. PICK status \in {"within_limit", "nearest_feasible"} :
            /\ bound' \in {Limit, p.tev}
            /\ stages' = Append(stages, Stage("tracking_error", status, p.tev))
    BY <2>1
  <2>3. p.tev \in Levels
    BY InHard DEF Closest, Levels
  <2>4. Stage("tracking_error", status, p.tev) \in Stages
    BY <2>3 DEF Stage, Stages
  <2>5. stages' \in Seq(Stages)
    BY <2>2, <2>4, AppendTyped DEF Typed
  <2>6. bound' \in Levels \cup {None}
    BY <2>2, <2>3, ConstraintsTyped
  <2>7. UNCHANGED <<solving, witness, found>> /\ pc' \in Steps
    BY <1>10 DEF ProjectTracking, Goto, AfterTracking, Steps
  <2> QED  BY <2>5, <2>6, <2>7, SolvingTyped DEF Typed
<1>11. CASE ProjectVolatility
  <2>1. PICK p \in Hard, status \in {"matched", "nearest_feasible"} :
          /\ witness' = p
          /\ stages' = Append(stages, Stage("volatility", status, p.vol))
    BY <1>11 DEF ProjectVolatility
  <2>2. p \in Portfolios /\ p.vol \in Levels
    BY InHard DEF Levels
  <2>3. Stage("volatility", status, p.vol) \in Stages
    BY <2>2 DEF Stage, Stages
  <2>4. stages' \in Seq(Stages)
    BY <2>1, <2>3, AppendTyped DEF Typed
  <2>5. UNCHANGED <<solving, bound, found>> /\ pc' \in Steps
    BY <1>11 DEF ProjectVolatility, Goto, Steps
  <2> QED  BY <2>1, <2>2, <2>4, <2>5, SolvingTyped DEF Typed
<1>12. CASE OptimizeObjective \/ OptimizeWithinTracking \/ OptimizeInBand
  <2>1. Hard \in SUBSET Portfolios
    BY InHard
  <2>2. CASE \E step \in Steps : Abandon(step)
    BY <2>2, AbandonTyped
  <2>3. ASSUME NEW S \in SUBSET Hard,
               NEW status \in {"optimized", "optimized_tev_priority",
                               "optimized_volatility_priority"},
               Settle(S, status)
        PROVE  Typed'
    <3>1. S \in SUBSET Portfolios
      BY <2>1
    <3> QED  BY <2>3, <3>1, SettleTyped
  <2> QED  BY <1>12, <2>2, <2>3
           DEF OptimizeObjective, OptimizeWithinTracking, OptimizeInBand, KeepingTracking,
               KeepingVolatility, Steps
<1>13. CASE ReturnWitness
  <2>1. CASE witness # None /\ Settle({witness}, "nearest_feasible_witness")
    <3>1. {witness} \in SUBSET Portfolios
      BY <2>1 DEF Typed
    <3> QED  BY <2>1, <3>1, SettleTyped
  <2> QED  BY <1>13, <2>1, RaiseTyped DEF ReturnWitness
<1>15. CASE SolveNextRegime
  BY <1>15 DEF SolveNextRegime, NextRegime, Goto, Typed, Steps, Regimes
<1>16. CASE Choose
  <2>1. outcome' \in {None, Raised} \cup ToSet(candidates)
    BY <1>16 DEF Choose, ToSet
  <2> QED  BY <1>16, <2>1 DEF Choose, Goto, Typed, Steps
<1>17. CASE UNCHANGED vars
  BY <1>17 DEF vars, Typed
<1> QED
  BY <1>1, <1>2, <1>3, <1>4, <1>5, <1>7, <1>8, <1>9, <1>10, <1>11, <1>12, <1>13,
     <1>15, <1>16, <1>17 DEF Next

-----------------------------------------------------------------------------
(* The regimes                                                             *)

LEMMA QuietCounted ==
    ASSUME RegimesCounted, UNCHANGED <<setting, candidates, failures, regime, outcome>>,
           pc \notin {"choose", "done"}, pc' \notin {"choose", "done", "begin"}
    PROVE  RegimesCounted' /\ Chosen'
<1>1. Tried' = Tried /\ Earlier' = Earlier /\ Current = {} /\ Current' = {}
  BY DEF Tried, Earlier, Current
<1> QED  BY <1>1 DEF RegimesCounted, Chosen

LEMMA RaiseCounted ==
    ASSUME Typed, RegimesCounted, Raise, pc \notin {"choose", "done", "begin"}
    PROVE  RegimesCounted' /\ Chosen'
<1>1. /\ UNCHANGED <<setting, candidates, regime>> /\ failures' = failures \cup {regime}
      /\ \/ regime = "none" /\ pc' = "done"
         \/ regime # "none" /\ pc' = "choose" /\ outcome' = outcome
  BY DEF Raise, RaiseInRegime, Goto
<1>2. Tried' = Tried \cup {regime} /\ Earlier' = Earlier
  BY <1>1 DEF Tried, Earlier
<1>3. Tried = Earlier /\ Len(candidates) <= (IF regime = "borrow" THEN 1 ELSE 0)
      /\ Len(candidates) \in Nat
  <2>1. Tried = Earlier \cup Current /\ Current = {}
    BY DEF RegimesCounted, Current
  <2>2. /\ regime = "borrow" => Len(candidates) <= 1 + 0
        /\ regime # "borrow" => Len(candidates) <= 0 + 0
    BY DEF RegimesCounted
  <2>3. Len(candidates) \in Nat
    BY DEF Typed
  <2>4. Len(candidates) <= (IF regime = "borrow" THEN 1 ELSE 0)
    BY <2>2, <2>3
  <2> QED  BY <2>1, <2>3, <2>4
<1>4. pc' = "choose" => Current' = {regime}
  BY <1>1 DEF Current
<1>5. Len(candidates') <= (IF regime' = "borrow" THEN 1 ELSE 0)
                        + (IF pc' = "choose" THEN 1 ELSE 0)
  BY <1>1, <1>3
<1>6. Len(candidates') <= 2
  BY <1>1 DEF RegimesCounted
<1>7. RegimesCounted'
  BY <1>1, <1>2, <1>3, <1>4, <1>5, <1>6 DEF RegimesCounted
<1>8. Chosen'
  BY <1>1 DEF Chosen
<1> QED  BY <1>7, <1>8

LEMMA AnswerCounted ==
    ASSUME Typed, RegimesCounted, AnswersTruly, Ongoing
    PROVE  RegimesCounted' /\ Chosen'
<1>0. PICK p \in Portfolios, strategy \in Strategies : Answer(p, strategy)
  BY DEF AnswersTruly
<1> DEFINE c == Audited(p, strategy)
<1>1. /\ UNCHANGED <<setting, regime, failures, outcome>>
      /\ candidates' = Append(candidates, c) /\ Ongoing /\ pc' = "choose"
  BY <1>0 DEF Answer, Goto
<1>2. c \in Candidate /\ c.regime = regime
  BY AuditedTyped DEF Audited
<1> HIDE DEF c
<1>3. /\ Len(candidates') = Len(candidates) + 1 /\ Len(candidates) \in Nat
      /\ DOMAIN candidates' = 1..Len(candidates) + 1
      /\ DOMAIN candidates = 1..Len(candidates)
      /\ candidates'[Len(candidates) + 1] = c
      /\ \A i \in 1..Len(candidates) : candidates'[i] = candidates[i]
  BY <1>1, <1>2, AppendTyped DEF Typed
<1>4. Tried' = Tried \cup {regime}
  <2>1. {candidates'[i].regime : i \in 1..Len(candidates) + 1}
          = {candidates[i].regime : i \in 1..Len(candidates)} \cup {regime}
    <3>1. ASSUME NEW i \in 1..Len(candidates) + 1
          PROVE  candidates'[i].regime \in
                   {candidates[j].regime : j \in 1..Len(candidates)} \cup {regime}
      <4>1. CASE i \in 1..Len(candidates)
        BY <1>3, <4>1
      <4>2. CASE i = Len(candidates) + 1
        BY <1>2, <1>3, <4>2
      <4> QED  BY <1>3, <4>1, <4>2
    <3>2. ASSUME NEW i \in 1..Len(candidates)
          PROVE  candidates[i].regime \in
                   {candidates'[j].regime : j \in 1..Len(candidates) + 1}
      <4>1. i \in 1..Len(candidates) + 1 /\ candidates'[i] = candidates[i]
        BY <1>3
      <4> QED  BY <4>1
    <3>3. regime \in {candidates'[j].regime : j \in 1..Len(candidates) + 1}
      <4>1. Len(candidates) + 1 \in 1..Len(candidates) + 1
        BY <1>3
      <4> QED  BY <1>2, <1>3, <4>1
    <3> QED  BY <3>1, <3>2, <3>3
  <2> QED  BY <1>1, <1>3, <2>1 DEF Tried
<1>5. /\ Tried = Earlier /\ Len(candidates) <= (IF regime = "borrow" THEN 1 ELSE 0)
      /\ Earlier' = Earlier /\ Current' = {regime}
  BY <1>1 DEF RegimesCounted, Current, Earlier, Ongoing
<1>6. Len(candidates') <= (IF regime' = "borrow" THEN 1 ELSE 0) + 1 /\ Len(candidates') <= 2
  BY <1>1, <1>3, <1>5
<1> QED  BY <1>1, <1>4, <1>5, <1>6 DEF RegimesCounted, Chosen, Ongoing

\* The choice is of the best of all that were tried, and of nothing only if all failed.
LEMMA ChooseCounted ==
    ASSUME Typed, RegimesCounted, Choose
    PROVE  RegimesCounted' /\ Chosen'
<1>1. /\ UNCHANGED <<setting, regime, failures, candidates>> /\ pc = "choose" /\ pc' = "done"
      /\ NextRegime = None
  BY DEF Choose, Goto
<1>2. RegimesCounted'
  BY <1>1 DEF RegimesCounted
<1>3. Tried' = Tried /\ Tried = Earlier \cup {regime}
  BY <1>1 DEF Tried, RegimesCounted, Current
<1>4. regime # "none" => Tried = IF setting.leverage THEN {"lend", "borrow"} ELSE {"lend"}
  <2>1. CASE regime = "lend"
    <3>1. ~setting.leverage
      BY <1>1, <2>1, NoneIsNoLevel DEF NextRegime, Regimes
    <3> QED  BY <1>3, <2>1, <3>1 DEF Earlier
  <2>2. CASE regime = "borrow"
    BY <1>3, <2>2 DEF Earlier, RegimesCounted
  <2> QED  BY <2>1, <2>2 DEF Typed, Regimes
<1>5. ASSUME candidates # <<>>
      PROVE  /\ Returned'
             /\ \A j \in DOMAIN candidates : ~Beats(candidates[j].score, outcome'.score)
  <2>1. PICK i \in DOMAIN candidates : IsChosen(i) /\ outcome' = candidates[i]
    BY <1>5 DEF Choose
  <2>2. candidates[i] \in Candidate
    BY DEF Typed
  <2> QED  BY <2>1, <2>2, NoAnswerIsNoCandidate DEF Returned, IsChosen
<1>6. Chosen'
  BY <1>1, <1>3, <1>4, <1>5 DEF Chosen
<1> QED  BY <1>2, <1>6

LEMMA CountedStep ==
    ASSUME Typed, RegimesCounted, Chosen, FoundIsTold, SolveInv, [Next]_vars
    PROVE  RegimesCounted' /\ Chosen'
<1>1. CASE Begin
  <2>1. /\ regime = "none" /\ asked \in Setting /\ pc = "begin"
        /\ UNCHANGED <<candidates, failures>>
        /\ Tried = {} /\ Len(candidates) <= 0 /\ outcome = None
    BY <1>1 DEF Begin, RegimesCounted, Typed, Earlier, Current
  <2>2. Tried' = {}
    BY <2>1 DEF Tried
  <2>3. /\ pc' \in {"done", "regime"} /\ regime' \in {"none", "lend"}
        /\ pc' = "done" => regime' = "none"
        /\ pc' = "regime" => outcome' = None
    BY <1>1, <2>1 DEF Begin, Goto
  <2>4. Earlier' = {} /\ Current' = {}
    BY <2>3 DEF Earlier, Current
  <2>5. Len(candidates') \in Nat /\ Len(candidates') = 0
    BY <2>1 DEF Typed
  <2> QED  BY <2>2, <2>3, <2>4, <2>5 DEF RegimesCounted, Chosen
<1>2. CASE Misclassify
  <2>1. pc' = "done" /\ UNCHANGED <<setting, candidates, regime>> /\ Unclassifiable(setting)
    BY <1>2 DEF Misclassify, Goto
  <2> QED  BY <2>1 DEF RegimesCounted, Chosen, Unclassifiable
<1>3. CASE Raise /\ pc \notin {"choose", "done", "begin"}
  BY <1>3, RaiseCounted
<1>4. CASE /\ UNCHANGED <<setting, candidates, failures, regime, outcome>>
           /\ pc \notin {"choose", "done"} /\ pc' \notin {"choose", "done", "begin"}
  BY <1>4, QuietCounted
<1>5. CASE SolveHrp \/ SolveLp \/ SolveQp \/ SolveSocp \/ Accept
  <2>1. CASE SolveHrp /\ Raise
    BY <2>1, RaiseCounted DEF SolveHrp
  <2> QED  BY <1>5, <2>1, AnswersAreTrue, AnswerCounted
<1>6. CASE SolveNextRegime
  <2>1. NextRegime # None /\ pc = "choose"
    BY <1>6 DEF SolveNextRegime
  <2>2. regime = "lend" /\ setting.leverage /\ NextRegime = "borrow"
    BY <2>1 DEF NextRegime
  <2>3. /\ UNCHANGED <<setting, candidates, failures, outcome>>
        /\ regime' = "borrow" /\ pc' = "regime"
    BY <1>6, <2>2 DEF SolveNextRegime, Goto
  <2>4. Tried' = Tried /\ Tried = {"lend"} /\ Earlier' = {"lend"} /\ Current' = {}
    BY <2>1, <2>2, <2>3 DEF Tried, RegimesCounted, Earlier, Current
  <2>5. Len(candidates') <= 1
    BY <2>1, <2>2, <2>3 DEF RegimesCounted, Typed
  <2> QED  BY <2>1, <2>2, <2>3, <2>4, <2>5 DEF RegimesCounted, Chosen
<1>7. CASE Choose
  BY <1>7, ChooseCounted
<1>8. CASE UNCHANGED vars
  <2>1. Tried' = Tried /\ Earlier' = Earlier /\ Current' = Current
    BY <1>8 DEF vars, Tried, Earlier, Current
  <2> QED  BY <1>8, <2>1 DEF vars, RegimesCounted, Chosen, Returned, Unclassifiable
<1>9. Refuse \/ LimitWithoutReference \/ TrackingFails \/ VolatilityFails \/ Reject =>
        Raise /\ pc \notin {"choose", "done", "begin"}
  BY DEF Refuse, LimitWithoutReference, TrackingFails, VolatilityFails, Reject
<1>10. Prepare \/ FallToSearch \/ SearchSucceeds \/ ProjectTracking \/ ProjectVolatility
         \/ OptimizeObjective \/ OptimizeWithinTracking \/ OptimizeInBand =>
       /\ UNCHANGED <<setting, candidates, failures, regime, outcome>>
       /\ pc \notin {"choose", "done"} /\ pc' \notin {"choose", "done", "begin"}
  BY DEF Prepare, FallToSearch, SearchSucceeds, ProjectTracking, ProjectVolatility,
         OptimizeObjective, OptimizeWithinTracking, OptimizeInBand, Settle, Abandon, Goto,
         solving, AfterTracking
<1>11. SearchFails \/ ReturnWitness =>
       \/ Raise /\ pc \notin {"choose", "done", "begin"}
       \/ /\ UNCHANGED <<setting, candidates, failures, regime, outcome>>
          /\ pc \notin {"choose", "done"} /\ pc' \notin {"choose", "done", "begin"}
  BY DEF SearchFails, ReturnWitness, Settle, Goto, solving
<1> QED
  BY <1>1, <1>2, <1>3, <1>4, <1>5, <1>6, <1>7, <1>8, <1>9, <1>10, <1>11 DEF Next

-----------------------------------------------------------------------------
(* The log of the fallback                                                 *)

LEMMA MaxOfTwo ==
    ASSUME NEW a \in Nat, NEW b \in Nat
    PROVE  Max({a, b}) = IF a >= b THEN a ELSE b
BY DEF Max

Once(log) == \A i, j \in DOMAIN log : log[i].stage = log[j].stage => i = j

LEMMA AchievedOnce ==
    ASSUME NEW log, Once(log), NEW i \in DOMAIN log
    PROVE  AchievedIn(log, log[i].stage) = log[i].achieved
BY DEF AchievedIn, Once

\* What a log tells of the stages before is told by it when the next has run.
LEMMA LogGrows ==
    ASSUME NEW log \in Seq(Stages), Once(log), NEW e \in Stages, ~Ran(log, e.stage),
           NEW new, new = Append(log, e)
    PROVE  /\ new \in Seq(Stages) /\ Once(new) /\ new[Len(new)] = e
           /\ Ran(new, e.stage) /\ AchievedIn(new, e.stage) = e.achieved
           /\ \A n : n # e.stage => (Ran(new, n) <=> Ran(log, n))
           /\ \A i \in DOMAIN new : new[i] = e \/ (i \in DOMAIN log /\ new[i] = log[i])
<1>1. /\ new \in Seq(Stages) /\ Len(new) = Len(log) + 1 /\ Len(log) \in Nat
      /\ new[Len(log) + 1] = e /\ DOMAIN new = 1..Len(log) + 1 /\ DOMAIN log = 1..Len(log)
      /\ \A i \in 1..Len(log) : new[i] = log[i]
  BY AppendTyped
<1>2. \A i \in DOMAIN new : i = Len(log) + 1 \/ i \in DOMAIN log
  BY <1>1
<1>3. DOMAIN log \subseteq DOMAIN new /\ Len(log) + 1 \in DOMAIN new
  BY <1>1
<1>4. \A i \in DOMAIN log : new[i] = log[i] /\ log[i].stage # e.stage
  BY <1>1 DEF Ran
<1>5. Once(new)
  BY <1>1, <1>2, <1>4 DEF Once
<1>6. Ran(new, e.stage) /\ AchievedIn(new, e.stage) = e.achieved
  BY <1>1, <1>3, <1>5, AchievedOnce DEF Ran
<1>7. \A n : n # e.stage => (Ran(new, n) <=> Ran(log, n))
  BY <1>1, <1>2, <1>3, <1>4 DEF Ran
<1> QED  BY <1>1, <1>2, <1>4, <1>5, <1>6, <1>7

\* The empty log is of every stage that there is no bound for.
LEMMA EmptyLog ==
    ASSUME stages = <<>>
    PROVE  /\ Limit = None => LogIsOf({"tracking_error"})
           /\ ~Ran(stages, "tracking_error") /\ Once(stages)
BY DEF LogIsOf, Ran, Bounded, Once

\* An entry stays true while the bound and the witness it tells of stay.
LEMMA LogStays ==
    ASSUME UNCHANGED <<setting, universe, stages, bound, witness>>
    PROVE  \A names : LogIsOf(names)' <=> LogIsOf(names)
BY DEF LogIsOf, EntryIsTrue, Bounded, Limit, Target, Resolve

\* The same, of the step that appends to stage_results.
LEMMA StagesGrow ==
    ASSUME Typed, NEW e \in Stages, stages' = Append(stages, e), Once(stages),
           ~Ran(stages, e.stage)
    PROVE  /\ Once(stages') /\ stages'[Len(stages')] = e
           /\ Ran(stages', e.stage) /\ AchievedIn(stages', e.stage) = e.achieved
           /\ \A n : n # e.stage => (Ran(stages', n) <=> Ran(stages, n))
           /\ \A n : n # e.stage /\ Ran(stages, n) =>
                AchievedIn(stages', n) = AchievedIn(stages, n)
           /\ \A i \in DOMAIN stages' :
                stages'[i] = e \/ (i \in DOMAIN stages /\ stages'[i] = stages[i])
<1>1. stages \in Seq(Stages)
  BY DEF Typed
<1>2. Once(stages') /\ stages'[Len(stages')] = e
  BY <1>1, LogGrows
<1>3. Ran(stages', e.stage)
  BY <1>1, LogGrows
<1>4. AchievedIn(stages', e.stage) = e.achieved
  BY <1>1, LogGrows
<1>5. \A n : n # e.stage => (Ran(stages', n) <=> Ran(stages, n))
  BY <1>1, LogGrows
<1>6. ASSUME NEW n, n # e.stage, Ran(stages, n)
      PROVE  AchievedIn(stages', n) = AchievedIn(stages, n)
  <2>1. PICK i \in DOMAIN stages : stages[i].stage = n
    BY <1>6 DEF Ran
  <2>2. i \in DOMAIN stages' /\ stages'[i] = stages[i]
    BY <1>1, AppendTyped
  <2>3. AchievedIn(stages, n) = stages[i].achieved
    BY <2>1, AchievedOnce
  <2>4. AchievedIn(stages', n) = stages'[i].achieved
    BY <1>2, <2>1, <2>2, AchievedOnce
  <2> QED  BY <2>2, <2>3, <2>4
<1>7. \A i \in DOMAIN stages' :
        stages'[i] = e \/ (i \in DOMAIN stages /\ stages'[i] = stages[i])
  BY <1>1, LogGrows
<1> QED  BY <1>2, <1>3, <1>4, <1>5, <1>6, <1>7

LEMMA AfterTrackingLog ==
    ASSUME Typed, LogSoFar, ProjectTracking
    PROVE  LogIsOf({"tracking_error"})' /\ Limit # None
<1>1. PICK p \in Closest(Hard) :
        \/ /\ p.tev <= Limit
           /\ bound' = Limit
           /\ stages' = Append(stages, Stage("tracking_error", "within_limit", p.tev))
        \/ /\ p.tev > Limit /\ setting.tevPolicy = "nearest_feasible"
           /\ bound' = p.tev
           /\ stages' = Append(stages, Stage("tracking_error", "nearest_feasible", p.tev))
  BY DEF ProjectTracking
<1>2. /\ stages = <<>> /\ Limit # None /\ Limit \in Nat /\ p.tev \in Nat
      /\ UNCHANGED <<setting, universe>>
  BY InHard, ConstraintsTyped DEF LogSoFar, Closest, Levels, ProjectTracking, solving
<1>3. PICK e \in Stages :
        /\ stages' = Append(stages, e) /\ e.stage = "tracking_error" /\ e.achieved = p.tev
        /\ \/ p.tev <= Limit /\ bound' = Limit /\ e.status = "within_limit"
           \/ /\ p.tev > Limit /\ setting.tevPolicy = "nearest_feasible"
              /\ bound' = p.tev
  <2>1. \A status \in {"within_limit", "nearest_feasible"} :
          /\ Stage("tracking_error", status, p.tev) \in Stages
          /\ Stage("tracking_error", status, p.tev).stage = "tracking_error"
          /\ Stage("tracking_error", status, p.tev).achieved = p.tev
          /\ Stage("tracking_error", status, p.tev).status = status
    BY <1>2 DEF Stage, Stages, Levels
  <2> QED  BY <1>1, <2>1
<1>4. bound' = Max({Limit, p.tev}) /\ bound' # None
  BY <1>2, <1>3, MaxOfTwo, NoneIsNoLevel DEF Levels
<1>5. Limit' = Limit
  BY <1>2 DEF Limit
<1>6. EntryIsTrue(e)'
  BY <1>2, <1>3, <1>4, <1>5 DEF EntryIsTrue
<1>7. ~Ran(stages, e.stage) /\ Once(stages) /\ DOMAIN stages = {}
  BY <1>2, <1>3, EmptyLog
<1>8. /\ Once(stages') /\ Ran(stages', "tracking_error")
      /\ \A i \in DOMAIN stages' : stages'[i] = e
  <2>1. /\ Once(stages') /\ Ran(stages', e.stage)
        /\ \A i \in DOMAIN stages' : stages'[i] = e \/ i \in DOMAIN stages
    BY <1>3, <1>7, StagesGrow
  <2> QED  BY <1>3, <1>7, <2>1
<1> QED  BY <1>2, <1>3, <1>5, <1>6, <1>8 DEF LogIsOf, Bounded, Once

LEMMA AfterVolatilityLog ==
    ASSUME Typed, LogSoFar, ProjectVolatility
    PROVE  /\ LogIsOf({"tracking_error", "volatility"})' /\ Target # None
           /\ WithinBound(witness)'
<1>1. PICK p \in Hard :
        /\ WithinBound(p)
        /\ p.vol = Target \/ setting.volPolicy = "nearest_feasible"
        /\ witness' = p
        /\ stages' = Append(stages,
             Stage("volatility",
                   IF p.vol = Target THEN "matched" ELSE "nearest_feasible", p.vol))
  BY DEF ProjectVolatility
<1>2. /\ UNCHANGED <<setting, universe, bound>> /\ p \in Portfolios /\ p.vol \in Nat
      /\ Target # None /\ LogIsOf({"tracking_error"})
  BY InHard DEF LogSoFar, ProjectVolatility, solving
<1>3. PICK e \in Stages :
        /\ stages' = Append(stages, e) /\ e.stage = "volatility" /\ e.achieved = p.vol
        /\ e.status = "nearest_feasible" => setting.volPolicy = "nearest_feasible"
  <2> DEFINE status == IF p.vol = Target THEN "matched" ELSE "nearest_feasible"
             e == Stage("volatility", status, p.vol)
  <2>1. /\ status \in {"matched", "nearest_feasible"}
        /\ status = "nearest_feasible" => setting.volPolicy = "nearest_feasible"
    BY <1>1
  <2>2. stages' = Append(stages, e)
    BY <1>1
  <2> HIDE DEF status
  <2>3. e \in Stages /\ e.stage = "volatility" /\ e.achieved = p.vol /\ e.status = status
    BY <1>2, <2>1 DEF Stage, Stages, Levels
  <2> QED  BY <2>1, <2>2, <2>3
<1>4. Limit' = Limit /\ Target' = Target
  BY <1>2 DEF Limit, Target, Resolve
<1>5. EntryIsTrue(e)'
  BY <1>1, <1>2, <1>3, NoneIsNoPortfolio DEF EntryIsTrue
<1>6. \A i \in DOMAIN stages : stages[i].stage = "tracking_error" /\ EntryIsTrue(stages[i])'
  <2>1. \A i \in DOMAIN stages : stages[i].stage = "tracking_error" /\ EntryIsTrue(stages[i])
    BY <1>2 DEF LogIsOf
  <2>2. \A x : x.stage = "tracking_error" /\ EntryIsTrue(x) =>
          /\ bound # None /\ bound = Max({Limit, x.achieved})
          /\ x.status = "nearest_feasible" => setting.tevPolicy = "nearest_feasible"
    BY DEF EntryIsTrue
  <2>3. ASSUME NEW i \in DOMAIN stages
        PROVE  /\ stages'[i] = stages[i]
               /\ bound' # None /\ bound' = Max({Limit', stages'[i].achieved})
               /\ stages'[i].status = "nearest_feasible" =>
                    setting'.tevPolicy = "nearest_feasible"
    <3>1. stages \in Seq(Stages)
      BY DEF Typed
    <3>2. stages'[i] = stages[i]
      BY <1>3, <3>1, AppendTyped
    <3> QED  BY <1>2, <1>4, <2>1, <2>2, <3>2
  <2> QED  BY <2>1, <2>3 DEF EntryIsTrue
<1>7. Once(stages) /\ ~Ran(stages, e.stage)
  BY <1>2, <1>3, <1>6 DEF LogIsOf, Once, Ran
<1>8. /\ Once(stages') /\ Ran(stages', "volatility")
      /\ Ran(stages', "tracking_error") <=> Ran(stages, "tracking_error")
      /\ \A i \in DOMAIN stages' :
           stages'[i] = e \/ (i \in DOMAIN stages /\ stages'[i] = stages[i])
  <2>1. "tracking_error" # e.stage
    BY <1>3
  <2>2. /\ Once(stages') /\ Ran(stages', e.stage)
        /\ \A n : n # e.stage => (Ran(stages', n) <=> Ran(stages, n))
        /\ \A i \in DOMAIN stages' :
             stages'[i] = e \/ (i \in DOMAIN stages /\ stages'[i] = stages[i])
    BY <1>3, <1>7, StagesGrow
  <2> QED  BY <1>3, <2>1, <2>2
<1>9. Ran(stages', "tracking_error") <=> Limit' # None
  BY <1>2, <1>4, <1>8 DEF LogIsOf, Bounded
<1>10. LogIsOf({"tracking_error", "volatility"})'
  BY <1>2, <1>3, <1>4, <1>5, <1>6, <1>8, <1>9 DEF LogIsOf, Bounded, Once
<1> QED  BY <1>1, <1>2, <1>10 DEF WithinBound

LEMMA LogStep ==
    ASSUME Typed, LogSoFar, SolveInv, [Next]_vars
    PROVE  LogSoFar'
<1>1. CASE pc' \notin Staged \cup {"route", "search", "tracking_error", "volatility"}
  BY <1>1 DEF LogSoFar, Staged
<1>2. CASE Prepare
  BY <1>2 DEF Prepare, Goto, LogSoFar, Staged
<1>3. CASE FallToSearch
  BY <1>3 DEF FallToSearch, Goto, LogSoFar, Staged
<1>4. CASE SearchFails
  <2>1. CASE Raise
    BY <1>4, <2>1, <1>1 DEF SearchFails, Raise, RaiseInRegime, Goto, Staged
  <2>2. CASE ~(Target = None /\ Limit = None)
    <3>1. /\ UNCHANGED <<solving, stages, bound, witness, found>>
          /\ pc' = IF Limit # None THEN "tracking_error" ELSE "volatility"
          /\ stages = <<>> /\ bound = None
      BY <1>4, <2>2 DEF SearchFails, Goto, LogSoFar
    <3>2. UNCHANGED <<setting, universe>> /\ Limit' = Limit /\ Target' = Target
      BY <3>1 DEF solving, Limit, Target, Resolve
    <3>3. Limit = None => LogIsOf({"tracking_error"})'
      BY <3>1, <3>2, EmptyLog, LogStays
    <3> QED  BY <2>2, <3>1, <3>2, <3>3 DEF LogSoFar, Staged
  <2> QED  BY <1>4, <2>1, <2>2 DEF SearchFails
<1>5. CASE ProjectTracking
  <2>1. LogIsOf({"tracking_error"})' /\ Limit # None
    BY <1>5, AfterTrackingLog
  <2>2. /\ UNCHANGED <<solving, witness>> /\ witness = None
        /\ pc' = IF Target # None THEN "volatility" ELSE "objective"
    BY <1>5 DEF ProjectTracking, Goto, AfterTracking, SolveInv, NoWitnessYet, Early
  <2>3. Limit' = Limit /\ Target' = Target
    BY <2>2 DEF solving, Limit, Target, Resolve
  <2>4. Target = None => LogIsOf({"tracking_error", "volatility"})'
    <3>1. Ran(stages', "volatility") => \E i \in DOMAIN stages' : stages'[i].stage = "volatility"
      BY DEF Ran
    <3> QED  BY <2>1, <2>3, <3>1 DEF LogIsOf, Bounded
  <2> QED  BY <2>1, <2>2, <2>3, <2>4 DEF LogSoFar, Staged
<1>6. CASE ProjectVolatility
  <2>1. /\ UNCHANGED <<solving, bound>> /\ pc = "volatility" /\ pc' = "objective"
    BY <1>6 DEF ProjectVolatility, Goto
  <2>2. Limit' = Limit /\ Target' = Target
    BY <2>1 DEF solving, Limit, Target, Resolve
  <2> QED  BY <1>6, <2>1, <2>2, AfterVolatilityLog DEF LogSoFar, Staged
<1>7. CASE \E step \in Staged : pc \in Staged /\ Abandon(step)
  <2>1. /\ UNCHANGED <<solving, stages, bound, witness>> /\ pc \in Staged /\ pc' \in Staged
    BY <1>7 DEF Abandon, Goto
  <2>2. UNCHANGED <<setting, universe>> /\ Limit' = Limit /\ Target' = Target
    BY <2>1 DEF solving, Limit, Target, Resolve
  <2>3. LogIsOf({"tracking_error", "volatility"})'
    BY <2>1, <2>2, LogStays DEF LogSoFar
  <2>4. witness' # None => WithinBound(witness)'
    BY <2>1 DEF LogSoFar, WithinBound
  <2> QED  BY <2>1, <2>2, <2>3, <2>4 DEF LogSoFar, Staged
<1>8. CASE UNCHANGED vars
  <2>1. Limit' = Limit /\ Target' = Target /\ \A names : LogIsOf(names)' <=> LogIsOf(names)
    BY <1>8, LogStays DEF vars, Limit, Target, Resolve
  <2>2. WithinBound(witness)' <=> WithinBound(witness)
    BY <1>8 DEF vars, WithinBound
  <2> QED  BY <1>8, <2>1, <2>2 DEF vars, LogSoFar
<1>9. \/ Begin \/ Misclassify \/ Refuse \/ SolveHrp \/ SolveLp \/ SolveQp \/ SolveSocp
      \/ LimitWithoutReference \/ SearchSucceeds \/ TrackingFails \/ VolatilityFails
      \/ Accept \/ Reject \/ SolveNextRegime \/ Choose
      => pc' \notin Staged \cup {"route", "search", "tracking_error", "volatility"}
  BY DEF Begin, Misclassify, Refuse, SolveHrp, SolveLp, SolveQp, SolveSocp, SolveConvex, Answer,
         LimitWithoutReference, SearchSucceeds, TrackingFails, VolatilityFails, Accept, Reject,
         SolveNextRegime, Choose, Raise, RaiseInRegime, Goto, Staged
<1>10. OptimizeObjective \/ OptimizeWithinTracking \/ OptimizeInBand \/ ReturnWitness =>
         \/ pc' \notin Staged \cup {"route", "search", "tracking_error", "volatility"}
         \/ \E step \in Staged : pc \in Staged /\ Abandon(step)
  <2>1. \A S, status : Settle(S, status) => pc' = "audit"
    BY DEF Settle, Goto
  <2>2. Raise => pc' \in {"done", "choose"}
    BY DEF Raise, RaiseInRegime, Goto
  <2> QED  BY <2>1, <2>2 DEF OptimizeObjective, OptimizeWithinTracking, OptimizeInBand,
                             ReturnWitness, Staged
<1> QED
  BY <1>1, <1>2, <1>3, <1>4, <1>5, <1>6, <1>7, <1>8, <1>9, <1>10 DEF Next

-----------------------------------------------------------------------------
(* What is told of a portfolio                                             *)

LEMMA SameClaims ==
    ASSUME UNCHANGED <<setting, universe>>
    PROVE  /\ \A p, strategy, r : ClaimHolds(p, strategy, r)' <=> ClaimHolds(p, strategy, r)
           /\ \A log, p : LogTells(log, p)' <=> LogTells(log, p)
<1>1. Target' = Target /\ Cap' = Cap /\ Limit' = Limit
  BY DEF Target, Cap, Limit, Resolve
<1>2. EffectiveObjective' = EffectiveObjective
  BY <1>1 DEF EffectiveObjective
<1>3. ASSUME NEW p
      PROVE  Answers(p)' <=> Answers(p)
  BY <1>1 DEF Answers, KeepsCap, WithinCap, WithinLimit, AtTarget
<1>4. ASSUME NEW p
      PROVE  Economic(p)' = Economic(p)
  BY <1>2 DEF Economic
<1>5. ASSUME NEW p, NEW strategy, NEW r
      PROVE  ClaimHolds(p, strategy, r)' <=> ClaimHolds(p, strategy, r)
  BY <1>3, <1>4 DEF ClaimHolds
<1>6. \A log, p : LogTells(log, p)' <=> LogTells(log, p)
  BY <1>1 DEF LogTells
<1> QED  BY <1>5, <1>6

\* The portfolio a settled stage ends with is what its log tells.
LEMMA SettleIsTold ==
    ASSUME Typed, LogSoFar, pc \in Staged, NEW S \in SUBSET Portfolios, NEW status,
           Settle(S, status),
           status \in {"optimized", "optimized_tev_priority", "optimized_volatility_priority",
                       "nearest_feasible_witness"},
           status # "optimized_volatility_priority" => \A p \in S : WithinBound(p),
           status # "optimized_tev_priority" => \A p \in S : InBand(p)
    PROVE  FoundIsTold'
<1>1. PICK p \in S : found' = [portfolio |-> p, strategy |-> "projection"]
  BY DEF Settle
<1>2. LogIsOf({"tracking_error", "volatility"})
  BY DEF LogSoFar
<1> DEFINE e == Stage("objective", status, None)
<1>3. /\ UNCHANGED <<setting, universe, regime>> /\ stages' = Append(stages, e)
  BY DEF Settle, solving
<1>4. e \in Stages /\ e.stage = "objective" /\ e.status = status
  BY DEF Stage, Stages
<1> HIDE DEF e
<1>5. Once(stages) /\ ~Ran(stages, e.stage)
  BY <1>2, <1>4 DEF LogIsOf, Once, Ran
<1>6. /\ Once(stages') /\ stages'[Len(stages')] = e
      /\ \A n : n # "objective" => (Ran(stages', n) <=> Ran(stages, n))
      /\ \A n : n # "objective" /\ Ran(stages, n) =>
           AchievedIn(stages', n) = AchievedIn(stages, n)
      /\ \A i \in DOMAIN stages' :
           stages'[i] = e \/ (i \in DOMAIN stages /\ stages'[i] = stages[i])
  BY <1>3, <1>4, <1>5, StagesGrow
<1>7. /\ Ran(stages, "tracking_error") <=> Limit # None
      /\ Ran(stages, "volatility") <=> Target # None
  BY <1>2 DEF LogIsOf, Bounded
<1>8. ASSUME Limit # None, status # "optimized_volatility_priority"
      PROVE  p.tev <= Max({Limit, AchievedIn(stages', "tracking_error")})
  <2>1. PICK i \in DOMAIN stages : stages[i].stage = "tracking_error"
    BY <1>7, <1>8 DEF Ran
  <2>2. bound # None /\ bound = Max({Limit, stages[i].achieved})
    BY <1>2, <2>1 DEF LogIsOf, EntryIsTrue
  <2>3. AchievedIn(stages, "tracking_error") = stages[i].achieved
    BY <1>5, <2>1, AchievedOnce
  <2>4. AchievedIn(stages', "tracking_error") = stages[i].achieved
    BY <1>6, <1>7, <1>8, <2>3
  <2> QED  BY <1>8, <2>2, <2>4 DEF WithinBound
<1>9. ASSUME Target # None, status # "optimized_tev_priority"
      PROVE  p.vol = AchievedIn(stages', "volatility")
  <2>1. PICK i \in DOMAIN stages : stages[i].stage = "volatility"
    BY <1>7, <1>9 DEF Ran
  <2>2. witness # None /\ stages[i].achieved = witness.vol
    BY <1>2, <2>1 DEF LogIsOf, EntryIsTrue
  <2>3. AchievedIn(stages, "volatility") = stages[i].achieved
    BY <1>5, <2>1, AchievedOnce
  <2>4. AchievedIn(stages', "volatility") = stages[i].achieved
    BY <1>6, <1>7, <1>9, <2>3
  <2> QED  BY <1>9, <2>2, <2>4 DEF InBand
<1>10. ASSUME NEW i \in DOMAIN stages', stages'[i].status = "nearest_feasible"
       PROVE  "nearest_feasible" =
                IF stages'[i].stage = "volatility" THEN setting.volPolicy
                ELSE setting.tevPolicy
  <2>1. i \in DOMAIN stages /\ stages'[i] = stages[i]
    BY <1>4, <1>6, <1>10
  <2> QED  BY <1>2, <1>10, <2>1 DEF LogIsOf, EntryIsTrue
<1>11. LogTells(stages', p)
  BY <1>4, <1>6, <1>7, <1>8, <1>9, <1>10 DEF LogTells
<1>12. LogTells(stages, p)'
  <2>1. setting' = setting /\ Limit' = Limit /\ Target' = Target
    BY <1>3 DEF Limit, Target, Resolve
  <2> QED  BY <1>11, <2>1 DEF LogTells
<1>13. found' \in Found
  BY <1>1 DEF Found, Strategies
<1>14. found'.portfolio = p /\ found'.strategy = "projection"
  BY <1>1
<1> QED  BY <1>12, <1>13, <1>14 DEF FoundIsTold

LEMMA FoundStep ==
    ASSUME Typed, LogSoFar, FoundIsTold, SolveInv, [Next]_vars
    PROVE  FoundIsTold'
<1>1. CASE pc' # "audit"
  BY <1>1 DEF FoundIsTold
<1>2. CASE SearchSucceeds
  <2>1. PICK p \in Feasible : found' = [portfolio |-> p, strategy |-> "search"]
    BY <1>2 DEF SearchSucceeds
  <2>2. p \in Portfolios
    BY InHard DEF Feasible
  <2>3. found' \in Found /\ found'.strategy = "search"
    BY <2>1, <2>2 DEF Found, Strategies
  <2> QED  BY <2>3 DEF FoundIsTold
<1>4. Hard \subseteq Portfolios
  BY InHard
<1>5. CASE OptimizeObjective
  <2>1. pc \in Staged
    BY <1>5 DEF OptimizeObjective, Staged
  <2>2. CASE Settle({p \in Hard : WithinBound(p) /\ InBand(p)}, "optimized")
    BY <1>4, <2>1, <2>2, SettleIsTold
  <2> QED  BY <1>1, <1>5, <2>2 DEF OptimizeObjective, Abandon, Goto
<1>6. CASE OptimizeWithinTracking
  <2>1. pc \in Staged
    BY <1>6 DEF OptimizeWithinTracking, Staged
  <2>2. CASE Settle(KeepingTracking, "optimized_tev_priority")
    BY <1>4, <2>1, <2>2, SettleIsTold DEF KeepingTracking
  <2> QED  BY <1>1, <1>6, <2>2 DEF OptimizeWithinTracking, Abandon, Goto
<1>7. CASE OptimizeInBand
  <2>1. pc \in Staged
    BY <1>7 DEF OptimizeInBand, Staged
  <2>2. CASE Settle(KeepingVolatility, "optimized_volatility_priority")
    BY <1>4, <2>1, <2>2, SettleIsTold DEF KeepingVolatility
  <2> QED  BY <1>1, <1>7, <2>2 DEF OptimizeInBand, Abandon, Goto
<1>8. CASE ReturnWitness
  <2>1. CASE Raise
    BY <1>1, <2>1 DEF Raise, RaiseInRegime, Goto
  <2>2. CASE witness # None /\ Settle({witness}, "nearest_feasible_witness")
    <3>1. /\ pc \in Staged /\ {witness} \in SUBSET Portfolios /\ WithinBound(witness)
          /\ InBand(witness)
      BY <1>8, <2>2 DEF ReturnWitness, Staged, Typed, LogSoFar, InBand
    <3> QED  BY <2>2, <3>1, SettleIsTold
  <2> QED  BY <1>8, <2>1, <2>2 DEF ReturnWitness
<1>9. CASE UNCHANGED vars
  <2>1. /\ UNCHANGED <<setting, universe>>
        /\ UNCHANGED <<pc, found, regime, stages>>
    BY <1>9 DEF vars
  <2> QED  BY <2>1, SameClaims DEF FoundIsTold
<1>10. \/ Begin \/ Misclassify \/ Refuse \/ SolveHrp \/ Prepare
       \/ SolveLp \/ SolveQp \/ SolveSocp \/ FallToSearch \/ LimitWithoutReference
       \/ SearchFails \/ ProjectTracking \/ TrackingFails \/ ProjectVolatility
       \/ VolatilityFails \/ Accept \/ Reject \/ SolveNextRegime \/ Choose
       => pc' # "audit"
  BY DEF Begin, Misclassify, Refuse, SolveHrp, Prepare, SolveLp, SolveQp, SolveSocp,
         SolveConvex, Answer, FallToSearch, LimitWithoutReference, SearchFails,
         ProjectTracking, TrackingFails, ProjectVolatility, VolatilityFails, Accept, Reject,
         SolveNextRegime, Choose, Raise, RaiseInRegime, Goto, AfterTracking
<1> QED  BY <1>1, <1>2, <1>5, <1>6, <1>7, <1>8, <1>9, <1>10 DEF Next

LEMMA AnswerIsTold ==
    ASSUME Typed, CandidatesAreTold, AnswersTruly
    PROVE  CandidatesAreTold'
<1>0. PICK p \in Portfolios, strategy \in Strategies :
        Answer(p, strategy) /\ CandidateIsTold(Audited(p, strategy))
  BY DEF AnswersTruly
<1> DEFINE c == Audited(p, strategy)
<1>1. UNCHANGED <<setting, universe>> /\ candidates' = Append(candidates, c)
  BY <1>0 DEF Answer
<1>2. c \in Candidate
  BY AuditedTyped
<1>3. CandidateIsTold(c)
  BY <1>0
<1> HIDE DEF c
<1>4. \A i \in DOMAIN candidates' :
        candidates'[i] = c \/ (i \in DOMAIN candidates /\ candidates'[i] = candidates[i])
  <2>1. /\ DOMAIN candidates' = 1..Len(candidates) + 1
        /\ DOMAIN candidates = 1..Len(candidates)
        /\ candidates'[Len(candidates) + 1] = c /\ Len(candidates) \in Nat
        /\ \A i \in 1..Len(candidates) : candidates'[i] = candidates[i]
    BY <1>1, <1>2, AppendTyped DEF Typed
  <2> QED  BY <2>1
<1>5. \A i \in DOMAIN candidates' : CandidateIsTold(candidates'[i])
  BY <1>3, <1>4 DEF CandidatesAreTold
<1>6. \A x : CandidateIsTold(x)' <=> CandidateIsTold(x)
  BY <1>1, SameClaims DEF CandidateIsTold
<1>7. ASSUME NEW i \in DOMAIN candidates'
      PROVE  CandidateIsTold(candidates[i])'
  BY <1>5, <1>6, <1>7
<1> QED  BY <1>7 DEF CandidatesAreTold

LEMMA ToldStep ==
    ASSUME Typed, SolveInv, RegimesCounted, FoundIsTold, CandidatesAreTold, [Next]_vars
    PROVE  CandidatesAreTold'
<1>1. CASE (SolveHrp /\ ~Raise) \/ SolveLp \/ SolveQp \/ SolveSocp \/ Accept
  BY <1>1, AnswersAreTrue, AnswerIsTold
<1>2. CASE UNCHANGED <<setting, universe, candidates>>
  BY <1>2, SameClaims DEF CandidatesAreTold, CandidateIsTold
<1>3. CASE Begin
  <2>1. UNCHANGED candidates /\ Len(candidates) = 0
    BY <1>3 DEF Begin, RegimesCounted, Typed
  <2>2. DOMAIN candidates' = {}
    BY <2>1 DEF Typed
  <2> QED  BY <2>2 DEF CandidatesAreTold
<1>4. CASE Raise
  BY <1>2, <1>4 DEF Raise
<1>5. \/ Misclassify \/ Refuse \/ Prepare \/ FallToSearch \/ LimitWithoutReference
      \/ SearchSucceeds \/ SearchFails \/ ProjectTracking \/ TrackingFails
      \/ ProjectVolatility \/ VolatilityFails \/ OptimizeObjective
      \/ OptimizeWithinTracking \/ OptimizeInBand \/ ReturnWitness \/ Reject
      \/ SolveNextRegime \/ Choose \/ UNCHANGED vars
      => UNCHANGED <<setting, universe, candidates>>
  BY DEF vars, Misclassify, Refuse, Prepare, FallToSearch, LimitWithoutReference,
         SearchSucceeds, SearchFails, ProjectTracking, TrackingFails, ProjectVolatility,
         VolatilityFails, OptimizeObjective, OptimizeWithinTracking, OptimizeInBand,
         ReturnWitness, Reject, SolveNextRegime, Choose, Raise, Settle, Abandon, solving
<1> QED  BY <1>1, <1>2, <1>3, <1>4, <1>5 DEF Next

-----------------------------------------------------------------------------
(* The theorems                                                            *)

LEMMA AnswerInit == Init => AnswerInv
<1> SUFFICES ASSUME Init PROVE AnswerInv
  OBVIOUS
<1>1. /\ asked \in Settings /\ setting = asked /\ universe \in Universes
      /\ pc = "begin" /\ regime = "none" /\ stages = <<>> /\ bound = None /\ witness = None
      /\ found = None /\ candidates = <<>> /\ failures = {} /\ outcome = None
  BY DEF Init
<1>2. <<>> \in Seq(Stages) /\ <<>> \in Seq(Candidate) /\ Len(<<>>) = 0
  OBVIOUS
<1>3. Typed
  BY <1>1, <1>2, SettingsAreSettings DEF Typed, Steps, Regimes
<1>4. Tried = {} /\ Earlier = {} /\ Current = {}
  BY <1>1 DEF Tried, Earlier, Current
<1>5. RegimesCounted
  BY <1>1, <1>2, <1>4 DEF RegimesCounted
<1>6. Chosen /\ LogSoFar /\ FoundIsTold /\ CandidatesAreTold
  BY <1>1 DEF Chosen, LogSoFar, Staged, FoundIsTold, CandidatesAreTold
<1> QED  BY <1>3, <1>5, <1>6 DEF AnswerInv

\* At every label of a solve, stage_results tells what the fallback's stages did, what
\* a candidate claims is what its route may claim, and the regimes tried so far are all
\* in candidates or in failures (_solve_core, run_regime).
THEOREM AnswersAlwaysTold == Spec => []AnswerInv
<1>1. AnswerInv /\ SolveInv /\ [Next]_vars => AnswerInv'
  BY TypedStep, CountedStep, LogStep, FoundStep, ToldStep DEF AnswerInv
<1> QED  BY AnswerInit, SolveAlwaysSound, <1>1, PTL DEF Spec

\* Every local of solve() holds what its name says, at most one candidate for each
\* financing regime, and what is returned is one of them.
THEOREM SolverTypeCorrect == Spec => []TypeOK
<1>1. AnswerInv => TypeOK
  <2> SUFFICES ASSUME AnswerInv PROVE TypeOK
    OBVIOUS
  <2>1. \A i \in DOMAIN stages : stages[i] \in Stages
    BY DEF AnswerInv, Typed
  <2>2. found = None \/ found.portfolio \in Portfolios
    BY DEF AnswerInv, Typed, Found
  <2> QED  BY <2>1, <2>2 DEF AnswerInv, Typed, RegimesCounted, TypeOK
<1> QED  BY AnswersAlwaysTold, <1>1, PTL

\* What is returned was a candidate.
LEMMA ReturnedIsTold ==
    ASSUME AnswerInv, Returned
    PROVE  CandidateIsTold(outcome)
<1>1. outcome \in ToSet(candidates)
  BY DEF AnswerInv, Typed, Returned
<1> QED  BY <1>1 DEF AnswerInv, CandidatesAreTold, ToSet

\* global_optimality_claim is only set of a portfolio that keeps the cap, the limit and
\* the target as resolved, relative ones included, so a convex route never answers an
\* easier question; of the linear and the quadratic program's nothing that keeps them
\* is better (_solve_core's routes).
THEOREM ClaimsAlwaysAnswerTheQuestion == Spec => []ClaimsAnswerTheQuestion
<1>1. AnswerInv => ClaimsAnswerTheQuestion
  BY ReturnedIsTold
     DEF ClaimsAnswerTheQuestion, CandidateIsTold, ClaimHolds, Answers, Unbeaten, Weights
<1> QED  BY AnswersAlwaysTold, <1>1, PTL

\* constraint_stage_results is true of the projected portfolio it is returned with:
\* every bound it lists is kept but the one its last stage drops (_lexicographic_fallback).
THEOREM StagesAlwaysTellTheResult == Spec => []StagesTellTheResult
<1>1. AnswerInv => StagesTellTheResult
  BY ReturnedIsTold DEF StagesTellTheResult, CandidateIsTold, LogTells, Weights
<1> QED  BY AnswersAlwaysTold, <1>1, PTL

\* A financed solve tries every regime its configuration allows, keeps the portfolio of
\* one when the other raises, and returns the best it has (solve's loop and its max).
THEOREM RegimesStayIndependent == Spec => []RegimesAreIndependent
<1>1. AnswerInv => RegimesAreIndependent
  BY DEF AnswerInv, Chosen, Tried, RegimesAreIndependent
<1> QED  BY AnswersAlwaysTold, <1>1, PTL
=============================================================================
