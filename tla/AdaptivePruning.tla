--------------------------- MODULE AdaptivePruning ---------------------------
(***************************************************************************)
(* Adaptive pruning (v2/adaptive_pruning.py) on top of the walk-forward    *)
(* backtest: at each fold after the burn-in, the nodes that have not       *)
(* beaten their proxies so far are contracted, and the contracted tree is  *)
(* estimated on the fold's own window.                                     *)
(***************************************************************************)
EXTENDS WalkForward

VARIABLES
    verdicts, \* per signal, what classify_node said of each non-root node
    prepared, \* per signal, the estimate of the contracted tree
    adapted   \* per signal held, the targets in force: [final, forward]

adaptiveVars == <<verdicts, prepared, adapted>>

vars == <<hierarchyVars, backtestVars, adaptiveVars>>

-----------------------------------------------------------------------------

(* reference_folds[-(max_folds + 1):] *)
ReportFolds ==
    LET signals == {f.signal : f \in folds}
    IN IF study.maxFolds = None
       THEN folds
       ELSE {f \in folds : f.signal \in Latest(signals, study.maxFolds + 1)}

FirstHeldDay == Min(UNION {f.holding : f \in folds})

BurnInCutoff == FirstHeldDay + study.burnIn

AfterBurnIn == {f \in ReportFolds : f.signal >= BurnInCutoff}

(* MUTANT: the signal's own day is evidence. *)
EvidenceAtSignal(n, signal) ==
    IF {NodeArm("NODE", n), NodeArm("FATHER", n)} \subseteq DOMAIN points
    THEN {d \in Curve(NodeArm("NODE", n)) \cap Curve(NodeArm("FATHER", n)) :
            d <= signal /\ (study.evidence # None => d >= signal - study.evidence)}
    ELSE {}

(* accumulated_node_metrics: the days a verdict may be drawn from, strictly *)
(* before the signal, common to the node and its proxy.                     *)
Evidence(n, signal) ==
    IF {NodeArm("NODE", n), NodeArm("FATHER", n)} \subseteq DOMAIN points
    THEN {d \in Curve(NodeArm("NODE", n)) \cap Curve(NodeArm("FATHER", n)) :
            d < signal /\ (study.evidence # None => d >= signal - study.evidence)}
    ELSE {}

(* classify_node: without metrics a node is pruned. *)
PossibleVerdicts(signal) ==
    {v \in [NonRoot(study.config) -> {"retain", "prune"}] :
        \A n \in NonRoot(study.config) : Evidence(n, signal) = {} => v[n] = "prune"}

Candidate(signal) == PruneConfig(study.config, verdicts[signal])

-----------------------------------------------------------------------------

BeginAdaptive ==
    /\ phase = "report"
    /\ study.adaptive
    /\ phase' = IF AfterBurnIn = {} THEN "nothing after burn-in" ELSE "prepare"
    /\ UNCHANGED <<study, folds, estimates, points, hierarchyVars, adaptiveVars>>

NotPrepared == {f \in AfterBurnIn : f.signal \notin DOMAIN verdicts}

(* The threads of the pool read only what the reference run left behind,   *)
(* so they are taken one whole call at a time, in any order.               *)
PrepareFold ==
    /\ phase = "prepare"
    /\ pass = "idle"
    /\ \E f \in NotPrepared : \E v \in PossibleVerdicts(f.signal) :
          LET candidate == PruneConfig(study.config, v)
          IN /\ verdicts' = With(verdicts, f.signal, v)
             /\ IF Valid(candidate)
                THEN /\ StartEstimate(candidate, study.mode, f.signal,
                                      Instruments(study.config), study.detail)
                     /\ UNCHANGED phase
                ELSE /\ phase' = "candidate refused"
                     /\ UNCHANGED hierarchyVars
    /\ UNCHANGED <<study, folds, estimates, points, prepared, adapted>>

KeepCandidate ==
    /\ phase = "prepare"
    /\ pass = "done"
    /\ prepared' = With(prepared, job.window, Estimate)
    /\ phase' = IF NotPrepared = {} THEN "adapt" ELSE phase
    /\ EndEstimate
    /\ UNCHANGED <<study, folds, estimates, points, verdicts, adapted>>

CandidateFails ==
    /\ phase = "prepare"
    /\ pass = "failed"
    /\ phase' = "candidate failed"
    /\ EndEstimate
    /\ UNCHANGED <<study, folds, estimates, points, adaptiveVars>>

NotAdapted == {f \in ReportFolds : f.signal \notin DOMAIN adapted}

(* MUTANT: the pruned estimate is looked up by its place in the pool. *)
EarliestInForce(signal) ==
    IF signal \in DOMAIN prepared THEN prepared[Min(DOMAIN prepared)] ELSE estimates[signal]

(* Before the cutoff the reference run's own targets are held. *)
InForce(signal) == IF signal \in DOMAIN prepared THEN prepared[signal] ELSE estimates[signal]

(* The valuation frame has no financing columns here: a target that holds  *)
(* cash has no price, and the ledger's step raises KeyError.               *)
Priced(target) == {x \in Names : target[x] # 0} \subseteq Instruments(study.config)

AdaptFold ==
    /\ phase = "adapt"
    /\ \E f \in NotAdapted :
          LET target == [final   |-> Terminal(InForce(f.signal)),
                         forward |-> ForwardTerminal(InForce(f.signal))]
          IN /\ \A g \in NotAdapted : f.signal <= g.signal
             /\ IF Priced(target.final) /\ Priced(target.forward)
                THEN /\ adapted' = With(adapted, f.signal, target)
                     /\ phase' = IF NotAdapted = {f} THEN "adapted" ELSE phase
                ELSE /\ phase' = "missing column"
                     /\ UNCHANGED adapted
    /\ UNCHANGED <<study, folds, estimates, points, verdicts, prepared, hierarchyVars>>

-----------------------------------------------------------------------------

Ended ==
    {"no folds", "fold failed", "no common grid", "nothing after burn-in",
     "candidate refused", "candidate failed", "missing column", "adapted"}

(* The caller has the report or the exception. *)
Stay ==
    /\ phase \in Ended \/ (phase = "report" /\ ~ study.adaptive)
    /\ UNCHANGED vars

Init ==
    /\ BacktestInit
    /\ verdicts = Empty
    /\ prepared = Empty
    /\ adapted = Empty

Next ==
    \/ BacktestStep /\ UNCHANGED adaptiveVars
    \/ BeginAdaptive
    \/ PrepareFold
    \/ KeepCandidate
    \/ CandidateFails
    \/ AdaptFold
    \/ Stay

Spec == Init /\ [][Next]_vars

-----------------------------------------------------------------------------
(* Types *)

Signals == UNION {Ends[frequency] : frequency \in DOMAIN Ends}

EstimateTypeOK(e) ==
    /\ e.mode \in Modes
    /\ e.window \in Signals
    /\ DOMAIN e.forward \in {{}, e.model.nodes}
    /\ DOMAIN e.backward = IF e.mode = "forward_backward" THEN e.model.nodes ELSE {}
    /\ DOMAIN e.flat = IF e.mode = "flat" THEN {e.model.root} ELSE {}

(* Types: an estimate that was returned has the results of its own mode,   *)
(* and a forward pass that is kept is whole.                               *)
TypeOK ==
    /\ study \in Studies
    /\ phase \in {"plan", "estimate", "hold", "report", "prepare", "adapt"} \cup Ended
    /\ pass \in {"idle", "forward", "backward", "flat", "done", "failed"}
    /\ IF pass = "idle"
       THEN job = None /\ <<forward, backward, flat>> = <<Empty, Empty, Empty>>
       ELSE job.mode \in Modes /\ job.window \in Signals
    /\ \A f \in folds :
          /\ f.signal \in Signals /\ f.train \subseteq Signals
          /\ f.holding \subseteq study.days
    /\ \A x \in DOMAIN estimates : EstimateTypeOK(estimates[x])
    /\ \A x \in DOMAIN prepared : EstimateTypeOK(prepared[x]) /\ x \in DOMAIN verdicts
    /\ \A a \in DOMAIN points : \A p \in points[a] :
          p.day \in study.days /\ p.on \in DOMAIN estimates
    /\ DOMAIN adapted \subseteq DOMAIN estimates

-----------------------------------------------------------------------------
(* Fold windows *)

TrainedDays(f) == {d \in study.days : Period(d, study.estimation) \in f.train}

(* No day of any curve is earned on weights that were estimated with that  *)
(* day, or a later one, among the days compounded into their training      *)
(* observations (backtest.py:167-183).                                     *)
NoLookAhead ==
    \A f \in folds :
        LET trained == TrainedDays(f)
        IN \A a \in DOMAIN points : \A p \in points[a] :
              p.on = f.signal => \A d \in trained : d < p.day

(* The holding periods tile the days: whatever the calendar's gaps, every  *)
(* day from the first signal to the last fold's end is held on exactly one *)
(* fold (backtest.py:167-183, calendar.py:66-86).                          *)
HoldingsTile ==
    folds # {} =>
        LET first == Min({f.signal : f \in folds})
            held == UNION {f.holding : f \in folds}
        IN \A d \in study.days :
              first < d /\ d <= Max(held) => Cardinality({f \in folds : d \in f.holding}) = 1

-----------------------------------------------------------------------------
(* Estimates *)

(* The estimate that is about to be returned, if any. *)
Finished == IF pass = "done" THEN {Estimate} ELSE {}

(* The result of forward_backward owes nothing to the forward pass: solved *)
(* directly from the leaves up, by the same solver, it is the same, when   *)
(* no node refers to the forward root (hierarchy.py:142-157).              *)
ForwardIsDiagnostic ==
    \A e \in Finished :
        /\ e.mode = "forward_backward"
        /\ \A n \in e.model.nodes : e.model.reference[n] # "forward_root_reference"
        => LET direct == DirectBottomUp(e)
           IN /\ direct[e.model.root].known
              /\ Terminal(e) = Compose(e.model, [n \in e.model.nodes |-> direct[n].local],
                                       "backward")[e.model.root]

(* What a parent was shown is what it holds: a node's synthetic return     *)
(* series, which its parent is solved over, is the return of its own       *)
(* terminal positions, cash at its own rate included (docs/                *)
(* hierarchical-v2.md:79-80,108-110; hierarchy.py:572-662).                *)
SleevesAreWhatTheyHold ==
    \A e \in Finished :
        e.mode = "forward_backward" =>
            SyntheticSeries(e.model, e.backward, e.columns)
                = Compose(e.model, e.backward, "backward")

AddsUp(m, locals, kind) ==
    LET terminal == Compose(m, locals, kind)[m.root]
        global == GlobalWeights(m, locals)
        cash == {Cash} \cup {CashAt(n) : n \in m.nodes}
    IN /\ terminal \in [Names -> Int]
       /\ SumOf(terminal) = Unit
       /\ SumOf([n \in m.nodes |-> Times(global[n], CashHeld(locals[n]))])
            = SumOf([x \in cash |-> terminal[x]])

(* The audits explain the portfolio: terminal weights and cash sum to one, *)
(* and the nodes' cash, at the global weights the audits give them, is the *)
(* portfolio's (hierarchy.py:801-870).                                     *)
AuditsExplainThePortfolio ==
    \A e \in Finished :
        /\ DOMAIN e.forward # {} => AddsUp(e.model, e.forward, "forward")
        /\ e.mode = "forward_backward" => AddsUp(e.model, e.backward, "backward")
        /\ e.mode = "flat" => AddsUp(FlatTree(e.model), e.flat, "flat")

(* A flat estimate fails by its own solve only, whatever becomes of the    *)
(* diagnostic forward pass, as long as no node's constraints are beyond    *)
(* classification (hierarchy.py:92-109).                                   *)
FlatStandsAlone ==
    pass = "failed" /\ job.mode = "flat" /\ job.model.unclassified = {} =>
        Answers(FlatTree(job.model), job.model.root, FlatProblem, None) = {Infeasible}

(* The arms of a report share one grid.  The only way to lose it, after    *)
(* every fold was estimated, is a flat backtest whose forward diagnostics  *)
(* failed in some folds and not in others (backtest.py:306-309).           *)
GridIsLostByDiagnosticsOnly ==
    phase = "no common grid" =>
        \E f, g \in folds :
            /\ estimates[f.signal].mode = "flat"
            /\ DOMAIN estimates[f.signal].forward = {}
            /\ DOMAIN estimates[g.signal].forward # {}

-----------------------------------------------------------------------------
(* Pruning *)

(* The decision being acted on. *)
InHand == DOMAIN verdicts \ DOMAIN prepared

(* Pruning leaves a tree: whatever the verdicts, every node that is kept   *)
(* is reached from the root, under one parent, which was its parent or its *)
(* grandparent before (tree_pruning.py:114-208).                           *)
PrunedTreeIsATree ==
    \A x \in InHand :
        LET c == study.config
            candidate == Candidate(x)
        IN /\ IsTree(candidate)
           /\ \A n \in NonRoot(candidate) :
                 \/ Parent(candidate, n) = Parent(c, n)
                 \/ Parent(candidate, n) = Parent(c, Parent(c, n))

(* Exposure survives: a node that is dropped has itself or an ancestor     *)
(* whose proxy a kept node now holds directly (tree_pruning.py:3-6).       *)
ExposureSurvives ==
    \A x \in InHand :
        LET c == study.config
            candidate == Candidate(x)
            line[n \in c.nodes] == {n} \cup IF n = c.root THEN {} ELSE line[Parent(c, n)]
        IN \A n \in c.nodes \ candidate.nodes :
              \E a \in line[n] \ {c.root}, k \in candidate.nodes :
                  c.proxy[a] \in candidate.instruments[k] /\ a \notin candidate.nodes

(* The burn-in buys evidence: a decision is never taken on a node with no  *)
(* out-of-sample day behind it, and each such day was earned on an earlier *)
(* fold and before the signal, on whose own day that fold is still held    *)
(* (adaptive_pruning.py:117,230,282-289).                                  *)
BurnInBuysEvidence ==
    \A x \in InHand :
        study.mode # "flat" /\ study.evidence = None =>
            \A n \in NonRoot(study.config) :
                /\ Evidence(n, x) # {}
                /\ \A p \in points[NodeArm("NODE", n)] :
                     p.day \in Evidence(n, x) => p.day < x /\ p.on < x

(* Where nothing is pruned nothing changes: the target is the reference    *)
(* run's, and so it is before the burn-in ends                             *)
(* (adaptive_pruning.py:312-329).                                          *)
OnlyPruningChangesTargets ==
    \A x \in DOMAIN adapted :
        x \notin DOMAIN prepared \/ Candidate(x) = study.config =>
            /\ adapted[x].final = Terminal(estimates[x])
            /\ adapted[x].forward = ForwardTerminal(estimates[x])
=============================================================================
