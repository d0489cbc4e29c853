---------------------------- MODULE BacktestProofs ----------------------------
(***************************************************************************)
(* What a backtest and an adaptive run make of their estimates, for every  *)
(* tree, every solver and every calendar: an estimate is whole when it is  *)
(* kept, is what the solver answered to its own problems and nothing else, *)
(* and the curves are those of the folds that were held.                   *)
(***************************************************************************)
EXTENDS AdaptivePruningProofs

-----------------------------------------------------------------------------
(* An estimate in the making                                               *)

\* Parents come before their children.
ParentsFirst(m) == \A n \in m.nodes : \A k \in m.children[n] : k \in m.nodes /\ n < k

Proper(m) ==
    /\ m.root \in m.nodes /\ m.nodes \subseteq Nat \ {FlatNode} /\ IsFiniteSet(m.nodes)
    /\ \A n \in m.nodes : m.root <= n
    /\ ParentsFirst(m)

IsFunction(f) == f = [x \in DOMAIN f |-> f[x]]

Whole(e) ==
    /\ e.mode \in Modes
    /\ IF e.mode = "flat" THEN DOMAIN e.forward \in {{}, e.model.nodes}
                          ELSE DOMAIN e.forward = e.model.nodes
    /\ DOMAIN e.backward = IF e.mode = "forward_backward" THEN e.model.nodes ELSE {}
    /\ DOMAIN e.flat = IF e.mode = "flat" THEN {e.model.root} ELSE {}
    /\ IsFunction(e.forward) /\ IsFunction(e.backward) /\ IsFunction(e.flat)

\* What each pass has solved when it stands at a node: the forward one the first of the
\* nodes, the backward one the last.
PassInv ==
    /\ pass \in {"idle", "forward", "backward", "flat", "done", "failed"}
    /\ IF pass = "idle"
       THEN job = None /\ forward = Empty /\ backward = Empty /\ flat = Empty
       ELSE Proper(job.model) /\ job.mode \in Modes
    /\ IsFunction(forward) /\ IsFunction(backward) /\ IsFunction(flat)
    /\ pass = "forward" =>
         /\ DOMAIN forward \subseteq job.model.nodes /\ DOMAIN forward # job.model.nodes
         /\ \A i \in DOMAIN forward, j \in job.model.nodes \ DOMAIN forward : i < j
         /\ backward = Empty /\ flat = Empty
    /\ pass = "backward" =>
         /\ job.mode = "forward_backward" /\ DOMAIN forward = job.model.nodes
         /\ DOMAIN backward \subseteq job.model.nodes \ {job.model.root}
         /\ \A i \in DOMAIN backward, j \in job.model.nodes \ DOMAIN backward : j < i
         /\ flat = Empty
    /\ pass = "flat" =>
         /\ job.mode = "flat" /\ DOMAIN forward \in {{}, job.model.nodes}
         /\ backward = Empty /\ flat = Empty
    /\ pass = "done" => Whole(Estimate)

-----------------------------------------------------------------------------
(* A backtest, and the adaptive run on top of it                           *)

Unplanned == {"plan", "no folds"}
BeforeHolding == Unplanned \cup {"estimate", "fold failed"}
Adapting == {"prepare", "adapt", "candidate refused", "candidate failed", "missing column",
             "adapted"}
Phases == {"plan", "estimate", "hold", "report", "prepare", "adapt"} \cup Ended

ReferenceColumns == Instruments(study.config) \cup FinancingColumns(study.config)
SignalsOf(some) == {f.signal : f \in some}

JobInv ==
    pass # "idle" =>
      /\ phase \in {"estimate", "prepare"} /\ job.mode = study.mode
      /\ job.window \in SignalsOf(folds)
      /\ phase = "estimate" => job.model = study.config /\ job.columns = ReferenceColumns
      /\ phase = "prepare" =>
           /\ job.window \in InHand /\ job.model = Candidate(job.window)
           /\ job.columns = Instruments(study.config)

\* The estimates kept, of the tree and of its contractions, each for its own fold.
KeptInv ==
    /\ \A x \in DOMAIN estimates :
         /\ x \in SignalsOf(folds) /\ Whole(estimates[x])
         /\ estimates[x].model = study.config /\ estimates[x].mode = study.mode
         /\ estimates[x].window = x /\ estimates[x].columns = ReferenceColumns
    /\ \A x \in DOMAIN prepared :
         /\ x \in DOMAIN verdicts /\ Whole(prepared[x])
         /\ prepared[x].model = Candidate(x) /\ prepared[x].mode = study.mode
         /\ prepared[x].window = x /\ prepared[x].columns = Instruments(study.config)

PhaseInv ==
    /\ study \in Studies /\ phase \in Phases
    /\ phase = "plan" => folds = {}
    /\ phase \in Unplanned => DOMAIN estimates = {}
    /\ phase \notin BeforeHolding => SignalsOf(folds) \subseteq DOMAIN estimates
    /\ phase \notin Adapting => DOMAIN verdicts = {} /\ DOMAIN prepared = {}
    /\ phase \in Adapting => study.adaptive
    /\ DOMAIN verdicts \subseteq SignalsOf(AfterBurnIn)
    /\ phase \notin {"adapt", "missing column", "adapted"} => DOMAIN adapted = {}
    /\ \A x \in DOMAIN adapted :
         /\ x \in SignalsOf(folds)
         /\ adapted[x] = [final |-> Terminal(InForce(x)), forward |-> ForwardTerminal(InForce(x))]

\* Every curve has the days of the folds that target its arm, as far as they were held.
LedgerInv ==
    /\ phase \in BeforeHolding => DOMAIN points = {}
    /\ phase \notin BeforeHolding \cup {"hold"} => NotHeld = {}
    /\ \A a \in DOMAIN points : \E f \in folds : a \in Arms(estimates[f.signal])
    /\ \A a \in DOMAIN points : \A p \in points[a] :
         \E f \in folds : /\ a \in Arms(estimates[f.signal])
                          /\ p.on = f.signal /\ p.day \in f.holding
    /\ \A f \in folds : Held(f) =>
         \A a \in Arms(estimates[f.signal]) :
            /\ a \in DOMAIN points
            /\ \A d \in f.holding : [day |-> d, on |-> f.signal] \in points[a]
    /\ phase = "no common grid" => ~ OneGrid(points)

-----------------------------------------------------------------------------
(* The solver's answers                                                    *)

\* The series of the root that a node refers to: there is none for the root itself.
RootOf(e) ==
    IF e.model.root \in DOMAIN e.forward
    THEN LocalSeries(e.model, e.model.root, e.forward[e.model.root], e.columns, Empty)
    ELSE None
ForwardPosed(e, n) ==
    Problem(e.model, n, "forward", e.window, Empty, IF n = e.model.root THEN None ELSE RootOf(e))
\* What was solved backward before a node: all that comes after it.
Below(e, n) == [k \in {i \in DOMAIN e.backward : i > n} |-> e.backward[k]]
BackwardPosed(e, n) ==
    Problem(e.model, n, "backward", e.window, SyntheticSeries(e.model, Below(e, n), e.columns),
            RootOf(e))
FlatPosed(e) == Problem(FlatTree(e.model), e.model.root, "flat", e.window, Empty, None)

Answered(answers, problem, answer) ==
    problem \in DOMAIN answers /\ answers[problem] = answer /\ answer # Infeasible

SolvedBy(answers, e) ==
    /\ \A n \in DOMAIN e.forward : Answered(answers, ForwardPosed(e, n), e.forward[n])
    /\ \A n \in DOMAIN e.backward :
         IF e.model.children[n] = {} THEN e.backward[n] = e.forward[n]
         ELSE Answered(answers, BackwardPosed(e, n), e.backward[n])
    /\ \A n \in DOMAIN e.flat :
         n = e.model.root /\ Answered(answers, FlatPosed(e), e.flat[n])

SolvedInv ==
    /\ pass # "idle" => SolvedBy(solved, Estimate)
    /\ \A x \in DOMAIN estimates : SolvedBy(solved, estimates[x])
    /\ \A x \in DOMAIN prepared : SolvedBy(solved, prepared[x])

\* A flat estimate that failed was refused, or answered so.
FlatFailedInv ==
    pass = "failed" /\ job.mode = "flat" /\ job.model.unclassified = {} =>
        Answers(FlatTree(job.model), job.model.root, FlatProblem, None) = {Infeasible}

BacktestInv ==
    /\ PassInv /\ JobInv /\ KeptInv /\ PhaseInv /\ LedgerInv /\ SolvedInv /\ FlatFailedInv

\* The benchmark's sleeves are never all zero: what the code composes them of adds up to one.
BenchmarkIsImplemented ==
    \A x \in DOMAIN estimates :
        estimates[x].mode = "forward_backward" => BenchmarkSleeves(estimates[x]) # Zero

-----------------------------------------------------------------------------
(* Estimates in the making                                                 *)

LEMMA EmptyIsEmpty == DOMAIN Empty = {} /\ IsFunction(Empty)
BY DEF Empty, IsFunction

LEMMA Extended ==
    ASSUME NEW f, NEW n, NEW a, NEW g, g = With(f, n, a)
    PROVE  /\ DOMAIN g = DOMAIN f \cup {n} /\ IsFunction(g) /\ g[n] = a
           /\ \A i \in DOMAIN f : i # n => g[i] = f[i]
BY DEF With, IsFunction

LEMMA PassUnchanged ==
    ASSUME PassInv, UNCHANGED <<job, pass, forward, backward, flat>>  PROVE PassInv'
BY DEF PassInv, Estimate, Whole, IsFunction, Proper

LEMMA PassEnds ==
    ASSUME EndEstimate  PROVE PassInv'
BY EmptyIsEmpty DEF PassInv, EndEstimate

LEMMA PassStarts ==
    ASSUME PassInv, NEW m, NEW mode \in Modes, NEW window, NEW columns, NEW detail,
           Proper(m), StartEstimate(m, mode, window, columns, detail)
    PROVE  PassInv'
<1>1. /\ pass = "idle" /\ pass' = "forward" /\ job'.model = m /\ job'.mode = mode
      /\ UNCHANGED <<forward, backward, flat>>
  BY DEF StartEstimate
<1>2. forward = Empty /\ backward = Empty /\ flat = Empty
  BY <1>1 DEF PassInv
<1>3. DOMAIN forward' = {} /\ DOMAIN forward' # m.nodes
  BY <1>1, <1>2, EmptyIsEmpty DEF Proper
<1>4. Proper(job.model)' /\ IsFunction(forward)' /\ IsFunction(backward)'
  BY <1>1, <1>2, EmptyIsEmpty DEF Proper, IsFunction
<1> QED  BY <1>1, <1>2, <1>3, <1>4 DEF PassInv

\* Where a pass stands.
LEMMA NextForwardIsFirst ==
    ASSUME PassInv, pass = "forward"
    PROVE  /\ NextForward \in job.model.nodes \ DOMAIN forward
           /\ \A j \in job.model.nodes \ DOMAIN forward : NextForward <= j
           /\ NextForward \in Nat
<1> DEFINE left == job.model.nodes \ DOMAIN forward
<1>1. job.model.nodes \subseteq Nat /\ left # {}
  BY DEF PassInv, Proper
<1>2. left \subseteq Nat
  BY <1>1
<1> HIDE DEF left
<1>3. Min(left) \in left /\ \A y \in left : Min(left) <= y
  BY <1>1, <1>2, FirstExists
<1>4. NextForward = Min(left)
  BY DEF NextForward, left
<1> QED  BY <1>2, <1>3, <1>4 DEF left

LEMMA NextBackwardIsLast ==
    ASSUME PassInv, pass = "backward"
    PROVE  /\ NextBackward \in job.model.nodes \ DOMAIN backward
           /\ \A j \in job.model.nodes \ DOMAIN backward : j <= NextBackward
           /\ NextBackward \in Nat
<1> DEFINE left == job.model.nodes \ DOMAIN backward
<1>1. job.model.nodes \subseteq Nat /\ IsFiniteSet(job.model.nodes) /\ left # {}
  BY DEF PassInv, Proper
<1>2. left \subseteq Nat /\ IsFiniteSet(left)
  BY <1>1, FS_Subset
<1> HIDE DEF left
<1>3. Max(left) \in left /\ \A y \in left : y <= Max(left)
  BY <1>1, <1>2, LastExists
<1>4. NextBackward = Max(left)
  BY DEF NextBackward, left
<1> QED  BY <1>2, <1>3, <1>4 DEF left

LEMMA PassSolvesForward ==
    ASSUME PassInv, SolveForward  PROVE PassInv'
<1>1. PICK answer : forward' = With(forward, NextForward, answer)
  BY DEF SolveForward
<1>2. /\ pass = "forward" /\ UNCHANGED <<job, backward, flat>>
      /\ pass' = IF DOMAIN forward' = job.model.nodes THEN AfterForward ELSE pass
  BY DEF SolveForward
<1>3. /\ NextForward \in job.model.nodes \ DOMAIN forward /\ NextForward \in Nat
      /\ \A j \in job.model.nodes \ DOMAIN forward : NextForward <= j
  BY <1>2, NextForwardIsFirst
<1>4. DOMAIN forward' = DOMAIN forward \cup {NextForward} /\ IsFunction(forward')
  BY <1>1, Extended
<1>5. /\ Proper(job.model) /\ job.mode \in Modes
      /\ IsFunction(backward) /\ backward = Empty /\ flat = Empty
      /\ DOMAIN forward \subseteq job.model.nodes
      /\ \A i \in DOMAIN forward, j \in job.model.nodes \ DOMAIN forward : i < j
      /\ job.model.root \in job.model.nodes /\ job.model.nodes \subseteq Nat
  BY <1>2 DEF PassInv, Proper
<1>6. DOMAIN backward = {} /\ DOMAIN flat = {}
  BY <1>5, EmptyIsEmpty
<1>7. CASE DOMAIN forward' # job.model.nodes
  <2>1. pass' = "forward" /\ DOMAIN forward' \subseteq job.model.nodes
    BY <1>2, <1>3, <1>4, <1>5, <1>7
  <2>2. ASSUME NEW i \in DOMAIN forward', NEW j \in job.model.nodes \ DOMAIN forward'
        PROVE  i < j
    <3>1. j \in job.model.nodes \ DOMAIN forward /\ j # NextForward /\ j \in Nat
      BY <1>4, <1>5
    <3>2. CASE i \in DOMAIN forward
      BY <1>5, <3>1, <3>2
    <3>3. CASE i = NextForward
      BY <1>3, <3>1, <3>3
    <3> QED  BY <1>4, <3>2, <3>3
  <2> QED  BY <1>2, <1>4, <1>5, <1>7, <2>1, <2>2 DEF PassInv, Proper, IsFunction
<1>8. CASE DOMAIN forward' = job.model.nodes
  <2>1. pass' = AfterForward
    BY <1>2, <1>8
  <2>2. CASE job.mode = "forward"
    <3>1. pass' = "done"  BY <2>1, <2>2 DEF AfterForward
    <3>2. Whole(Estimate)'
      BY <1>2, <1>4, <1>5, <1>6, <1>8, <2>2 DEF Whole, Estimate, Modes, IsFunction
    <3> QED  BY <1>2, <1>4, <1>5, <3>1, <3>2 DEF PassInv, Proper, IsFunction
  <2>3. CASE job.mode = "forward_backward"
    <3>1. pass' = "backward"  BY <2>1, <2>3 DEF AfterForward
    <3> QED  BY <1>2, <1>4, <1>5, <1>6, <1>8, <2>3, <3>1 DEF PassInv, Proper, IsFunction
  <2>4. CASE job.mode = "flat"
    <3>1. pass' = "flat"  BY <2>1, <2>4 DEF AfterForward
    <3> QED  BY <1>2, <1>4, <1>5, <1>8, <2>4, <3>1 DEF PassInv, Proper, IsFunction
  <2> QED  BY <1>5, <2>2, <2>3, <2>4 DEF Modes
<1> QED  BY <1>7, <1>8

LEMMA PassForwardFails ==
    ASSUME PassInv, ForwardFails  PROVE PassInv'
<1>1. /\ pass = "forward" /\ UNCHANGED <<job, backward, flat>> /\ forward' = Empty
      /\ pass' = AfterForwardFailure
  BY DEF ForwardFails
<1>2. pass' = "failed" \/ (pass' = "flat" /\ job.mode = "flat")
  BY <1>1 DEF AfterForwardFailure
<1> QED  BY <1>1, <1>2, EmptyIsEmpty DEF PassInv, Proper, IsFunction

\* A node is added to the backward pass.
LEMMA PassGoesBackward ==
    ASSUME PassInv, pass = "backward", UNCHANGED <<job, forward, flat>>, NEW a,
           backward' = With(backward, NextBackward, a), pass' = AfterBackward
    PROVE  PassInv'
<1>1. /\ NextBackward \in job.model.nodes \ DOMAIN backward /\ NextBackward \in Nat
      /\ \A j \in job.model.nodes \ DOMAIN backward : j <= NextBackward
  BY NextBackwardIsLast
<1>2. DOMAIN backward' = DOMAIN backward \cup {NextBackward} /\ IsFunction(backward')
  BY Extended
<1>3. /\ Proper(job.model) /\ job.mode = "forward_backward"
      /\ IsFunction(forward) /\ flat = Empty
      /\ DOMAIN forward = job.model.nodes
      /\ DOMAIN backward \subseteq job.model.nodes \ {job.model.root}
      /\ \A i \in DOMAIN backward, j \in job.model.nodes \ DOMAIN backward : j < i
      /\ job.model.root \in job.model.nodes /\ job.model.nodes \subseteq Nat
      /\ \A n \in job.model.nodes : job.model.root <= n
  BY DEF PassInv, Proper
<1>4. CASE NextBackward = job.model.root
  <2>1. pass' = "done"  BY <1>4 DEF AfterBackward
  <2>2. DOMAIN backward' = job.model.nodes
    <3>1. ASSUME NEW j \in job.model.nodes, j \notin DOMAIN backward  PROVE j = NextBackward
      <4>1. j <= NextBackward /\ NextBackward <= j /\ j \in Nat
        BY <1>1, <1>3, <1>4, <3>1
      <4> QED  BY <1>1, <4>1
    <3> QED  BY <1>1, <1>2, <1>3, <3>1
  <2>3. Whole(Estimate)'
    BY <1>2, <1>3, <2>2, EmptyIsEmpty DEF Whole, Estimate, Modes, IsFunction
  <2> QED  BY <1>2, <1>3, <2>1, <2>3 DEF PassInv, Proper, IsFunction, Modes
<1>5. CASE NextBackward # job.model.root
  <2>1. pass' = "backward"  BY <1>5 DEF AfterBackward
  <2>2. DOMAIN backward' \subseteq job.model.nodes \ {job.model.root}
    BY <1>1, <1>2, <1>3, <1>5
  <2>3. ASSUME NEW i \in DOMAIN backward', NEW j \in job.model.nodes \ DOMAIN backward'
        PROVE  j < i
    <3>1. j \in job.model.nodes \ DOMAIN backward /\ j # NextBackward /\ j \in Nat
      BY <1>2, <1>3
    <3>2. CASE i \in DOMAIN backward
      BY <1>3, <3>1, <3>2
    <3>3. CASE i = NextBackward
      BY <1>1, <3>1, <3>3
    <3> QED  BY <1>2, <3>2, <3>3
  <2> QED  BY <1>2, <1>3, <2>1, <2>2, <2>3 DEF PassInv, Proper, IsFunction, Modes
<1> QED  BY <1>4, <1>5

LEMMA PassSolvesFlat ==
    ASSUME PassInv, SolveFlat  PROVE PassInv'
<1>1. PICK answer : flat' = With(flat, job.model.root, answer)
  BY DEF SolveFlat
<1>2. pass = "flat" /\ pass' = "done" /\ UNCHANGED <<job, forward, backward>>
  BY DEF SolveFlat
<1>3. /\ Proper(job.model) /\ job.mode = "flat" /\ DOMAIN forward \in {{}, job.model.nodes}
      /\ backward = Empty /\ flat = Empty /\ IsFunction(forward) /\ IsFunction(backward)
  BY <1>2 DEF PassInv
<1>4. DOMAIN flat' = {job.model.root}
  <2>1. DOMAIN flat' = DOMAIN flat \cup {job.model.root}
    BY <1>1 DEF With
  <2> QED  BY <1>3, <2>1, EmptyIsEmpty
<1>5. IsFunction(flat')
  BY <1>1 DEF With, IsFunction
<1>6. Whole(Estimate)'
  BY <1>2, <1>3, <1>4, <1>5, EmptyIsEmpty DEF Whole, Estimate, Modes, IsFunction
<1> QED  BY <1>2, <1>3, <1>5, <1>6 DEF PassInv, Proper, IsFunction, Modes

LEMMA PassFails ==
    ASSUME PassInv, BackwardFails \/ FlatFails  PROVE PassInv'
<1>1. /\ pass # "idle" /\ pass' = "failed" /\ UNCHANGED <<job, forward, backward, flat>>
  BY DEF BackwardFails, FlatFails
<1> QED  BY <1>1 DEF PassInv, Proper, IsFunction

LEMMA PassSolves ==
    ASSUME PassInv, SolveStep  PROVE PassInv'
<1>1. CASE SolveForward
  BY <1>1, PassSolvesForward
<1>2. CASE ForwardFails
  BY <1>2, PassForwardFails
<1>3. CASE CopyLeaf
  BY <1>3, PassGoesBackward DEF CopyLeaf
<1>4. CASE SolveBackward
  BY <1>4, PassGoesBackward DEF SolveBackward
<1>5. CASE SolveFlat
  BY <1>5, PassSolvesFlat
<1>6. CASE BackwardFails \/ FlatFails
  BY <1>6, PassFails
<1> QED  BY <1>1, <1>2, <1>3, <1>4, <1>5, <1>6 DEF SolveStep

-----------------------------------------------------------------------------
(* Which estimate is in the making                                         *)

LEMMA StudyIsProper ==
    ASSUME NEW s \in Studies
    PROVE  /\ Proper(s.config) /\ s.mode \in Modes
           /\ {"root", "nodes", "children", "instruments"} \subseteq DOMAIN s.config
<1>1. s.config.root \in s.config.nodes
  BY StudiesAreOfTrees DEF Valid, IsTree
<1>2. ParentsFirst(s.config)
  BY StudiesAreOfTrees DEF Valid, IsTree, ChildrenAreDeclared, ParentsFirst
<1> QED  BY <1>1, <1>2, StudiesAreOfTrees DEF Proper

\* A contraction is of the tree's own nodes and keeps its root.
LEMMA ContractionIsOfTheTree ==
    ASSUME NEW s \in Studies, NEW v
    PROVE  /\ PruneConfig(s.config, v).nodes \subseteq s.config.nodes
           /\ PruneConfig(s.config, v).root = s.config.root
<1>1. {"root", "nodes", "children", "instruments"} \subseteq DOMAIN s.config
  BY StudiesAreOfTrees
<1> QED  BY <1>1 DEF PruneConfig

LEMMA CandidateIsProper ==
    ASSUME NEW s \in Studies, NEW v, Valid(PruneConfig(s.config, v))
    PROVE  Proper(PruneConfig(s.config, v))
<1> DEFINE c == PruneConfig(s.config, v)
<1>1. c.nodes \subseteq s.config.nodes /\ c.root = s.config.root
  BY ContractionIsOfTheTree
<1>2. c.root \in c.nodes
  BY DEF Valid, IsTree
<1> HIDE DEF c
<1>3. Proper(s.config)
  BY StudyIsProper
<1>4. IsFiniteSet(c.nodes)
  BY <1>1, <1>3, FS_Subset DEF Proper
<1>5. ParentsFirst(c)
  <2>1. TreeShaped(s.config) /\ c = PruneConfig(s.config, v)
    BY StudiesAreTreeShaped DEF c
  <2>2. /\ IsTree(c)
        /\ \A n \in NonRoot(c) :
             \/ Parent(c, n) = Parent(s.config, n)
             \/ /\ Parent(c, n) = Parent(s.config, Parent(s.config, n))
                /\ Parent(s.config, n) # s.config.root
    BY <2>1, ContractionLeavesATree
  <2> SUFFICES ASSUME NEW n \in c.nodes, NEW k \in c.children[n]  PROVE k \in c.nodes /\ n < k
    BY DEF ParentsFirst
  <2>3. k \in NonRoot(c)
    BY <1>4, <2>2, RootHasNoParent DEF IsTree, ChildrenAreDeclared, NonRoot
  <2>4. n = Parent(c, k)
    BY <1>4, <2>2, <2>3, ParentIsOne DEF ParentIs
  <2> DEFINE up == Parent(s.config, k)
  <2>5. ASSUME NEW i \in NonRoot(s.config)
        PROVE  Parent(s.config, i) \in s.config.nodes /\ Parent(s.config, i) < i
    <3>1. ParentIs(s.config, i, Parent(s.config, i))
      BY <2>1, ParentIsOne DEF TreeShaped
    <3> QED  BY <1>3, <3>1 DEF ParentIs, Proper, ParentsFirst
  <2>6. k \in NonRoot(s.config)
    BY <1>1, <2>3 DEF NonRoot
  <2>7. up \in s.config.nodes /\ up < k
    BY <2>5, <2>6
  <2>8. CASE n = up
    BY <2>3, <2>7, <2>8 DEF NonRoot
  <2>9. CASE n = Parent(s.config, up) /\ up # s.config.root
    <3>1. up \in NonRoot(s.config)
      BY <2>7, <2>9 DEF NonRoot
    <3>2. n < up
      BY <2>5, <2>9, <3>1
    <3>3. n \in Nat /\ up \in Nat /\ k \in Nat
      BY <1>1, <1>3, <2>3, <2>7 DEF Proper, NonRoot
    <3> QED  BY <2>3, <2>7, <3>2, <3>3 DEF NonRoot
  <2> QED  BY <2>2, <2>3, <2>4, <2>8, <2>9
<1>6. Proper(c)
  BY <1>1, <1>2, <1>3, <1>4, <1>5 DEF Proper
<1> QED  BY <1>6 DEF c

\* What PrepareFold does with the fold it takes.
LEMMA PreparesAFold ==
    ASSUME PrepareFold
    PROVE  \E f \in NotPrepared, v \in [NonRoot(study.config) -> {"retain", "prune"}] :
             /\ v \in PossibleVerdicts(f.signal)
             /\ verdicts' = With(verdicts, f.signal, v)
             /\ \/ /\ Valid(PruneConfig(study.config, v))
                   /\ StartEstimate(PruneConfig(study.config, v), study.mode, f.signal,
                                    Instruments(study.config), study.detail)
                   /\ phase' = phase
                \/ /\ phase' = "candidate refused"
                   /\ UNCHANGED hierarchyVars
BY DEF PrepareFold, PossibleVerdicts

LEMMA PassStep ==
    ASSUME PassInv, study \in Studies, [Next]_vars  PROVE PassInv'
<1>1. CASE UNCHANGED vars \/ Stay
  BY <1>1, PassUnchanged DEF Stay, vars, hierarchyVars
<1>2. CASE Plan \/ HoldFold \/ BeginAdaptive \/ AdaptFold
  BY <1>2, PassUnchanged DEF Plan, HoldFold, BeginAdaptive, AdaptFold, hierarchyVars
<1>3. CASE KeepEstimate \/ FoldFails \/ KeepCandidate \/ CandidateFails
  BY <1>3, PassEnds DEF KeepEstimate, FoldFails, KeepCandidate, CandidateFails
<1>4. CASE SolveStep
  BY <1>4, PassSolves
<1>5. CASE EstimateFold
  BY <1>5, PassStarts, StudyIsProper DEF EstimateFold
<1>6. CASE PrepareFold
  <2>1. PICK v : \/ /\ Valid(PruneConfig(study.config, v))
                    /\ \E x : StartEstimate(PruneConfig(study.config, v), study.mode, x,
                                            Instruments(study.config), study.detail)
                 \/ UNCHANGED hierarchyVars
    BY <1>6, PreparesAFold
  <2>2. CASE UNCHANGED hierarchyVars
    BY <2>2, PassUnchanged DEF hierarchyVars
  <2>3. CASE ~ UNCHANGED hierarchyVars
    BY <2>1, <2>3, PassStarts, StudyIsProper, CandidateIsProper
  <2> QED  BY <2>2, <2>3
<1> QED  BY <1>1, <1>2, <1>3, <1>4, <1>5, <1>6 DEF Next, BacktestStep

LEMMA JobUnchanged ==
    ASSUME JobInv, pass # "idle" \/ pass' = "idle",
           UNCHANGED <<job, study, phase, folds, verdicts, prepared>>
    PROVE  JobInv'
BY DEF JobInv, SignalsOf, InHand, Candidate, ReferenceColumns

LEMMA JobStep ==
    ASSUME PassInv, JobInv, KeptInv, PhaseInv, [Next]_vars  PROVE JobInv'
<1>1. CASE UNCHANGED vars \/ Stay
  <2>1. pass' = pass /\ UNCHANGED <<job, study, phase, folds, verdicts, prepared>>
    BY <1>1 DEF Stay, vars, hierarchyVars, backtestVars, adaptiveVars
  <2> QED  BY <2>1, JobUnchanged
<1>2. CASE Plan \/ HoldFold \/ BeginAdaptive \/ AdaptFold
  <2>1. pass' = pass /\ phase \notin {"estimate", "prepare"}
    BY <1>2 DEF Plan, HoldFold, BeginAdaptive, AdaptFold, hierarchyVars
  <2> QED  BY <2>1 DEF JobInv
<1>3. CASE KeepEstimate \/ FoldFails \/ KeepCandidate \/ CandidateFails
  BY <1>3 DEF KeepEstimate, FoldFails, KeepCandidate, CandidateFails, EndEstimate, JobInv
<1>4. CASE SolveStep /\ UNCHANGED backtestVars /\ UNCHANGED adaptiveVars
  <2>1. pass # "idle" /\ job' = job
    BY <1>4 DEF SolveStep, SolveForward, ForwardFails, CopyLeaf, SolveBackward, BackwardFails,
                SolveFlat, FlatFails
  <2> QED  BY <1>4, <2>1, JobUnchanged DEF backtestVars, adaptiveVars
<1>5. CASE EstimateFold /\ UNCHANGED adaptiveVars
  <2>1. PICK f \in folds :
          StartEstimate(study.config, study.mode, f.signal,
                        Instruments(study.config) \cup FinancingColumns(study.config),
                        study.detail)
    BY <1>5 DEF EstimateFold, NotEstimated
  <2>2. /\ job'.mode = study.mode /\ job'.window = f.signal /\ job'.model = study.config
        /\ job'.columns = ReferenceColumns
    BY <2>1 DEF StartEstimate, ReferenceColumns
  <2>3. phase = "estimate" /\ UNCHANGED <<study, phase, folds>>
    BY <1>5 DEF EstimateFold, backtestVars
  <2> QED  BY <2>2, <2>3 DEF JobInv, SignalsOf, ReferenceColumns
<1>6. CASE PrepareFold
  <2>1. PICK f \in NotPrepared, v \in [NonRoot(study.config) -> {"retain", "prune"}] :
          /\ verdicts' = With(verdicts, f.signal, v)
          /\ \/ /\ Valid(PruneConfig(study.config, v))
                /\ StartEstimate(PruneConfig(study.config, v), study.mode, f.signal,
                                 Instruments(study.config), study.detail)
                /\ phase' = phase
             \/ /\ phase' = "candidate refused"
                /\ UNCHANGED hierarchyVars
    BY <1>6, PreparesAFold
  <2>2. phase = "prepare" /\ pass = "idle" /\ UNCHANGED <<study, folds, prepared>>
    BY <1>6 DEF PrepareFold
  <2>3. CASE UNCHANGED hierarchyVars
    BY <2>2, <2>3 DEF JobInv, hierarchyVars
  <2>4. CASE /\ StartEstimate(PruneConfig(study.config, v), study.mode, f.signal,
                              Instruments(study.config), study.detail)
             /\ phase' = phase
    <3>1. /\ job'.mode = study.mode /\ job'.window = f.signal
          /\ job'.model = PruneConfig(study.config, v)
          /\ job'.columns = Instruments(study.config) /\ phase' = "prepare"
      BY <2>2, <2>4 DEF StartEstimate
    <3>2. f \in folds /\ f.signal \notin DOMAIN verdicts
      BY DEF NotPrepared, AfterBurnIn, ReportFolds
    <3>3. f.signal \in DOMAIN verdicts' /\ verdicts'[f.signal] = v
      BY <2>1 DEF With
    <3>4. f.signal \notin DOMAIN prepared'
      BY <2>2, <3>2 DEF KeptInv
    <3> QED  BY <2>2, <3>1, <3>2, <3>3, <3>4 DEF JobInv, SignalsOf, InHand, Candidate
  <2> QED  BY <2>1, <2>3, <2>4
<1> QED  BY <1>1, <1>2, <1>3, <1>4, <1>5, <1>6 DEF Next, BacktestStep

-----------------------------------------------------------------------------
(* Which estimates are kept, and where the run stands                      *)

LEMMA KeptUnchanged ==
    ASSUME KeptInv, UNCHANGED <<study, folds, estimates, verdicts, prepared>>
    PROVE  KeptInv'
BY DEF KeptInv, SignalsOf, Candidate, ReferenceColumns

LEMMA KeptKeepsEstimate ==
    ASSUME PassInv, JobInv, KeptInv, KeepEstimate, UNCHANGED adaptiveVars  PROVE KeptInv'
<1>1. /\ phase = "estimate" /\ pass = "done" /\ estimates' = With(estimates, job.window, Estimate)
      /\ UNCHANGED <<study, folds, verdicts, prepared>>
  BY DEF KeepEstimate, adaptiveVars
<1>2. /\ Whole(Estimate) /\ Estimate.model = study.config /\ Estimate.mode = study.mode
      /\ Estimate.window = job.window /\ Estimate.columns = ReferenceColumns
      /\ job.window \in SignalsOf(folds)
  BY <1>1 DEF PassInv, JobInv, Estimate
<1>3. ASSUME NEW x \in DOMAIN estimates'
      PROVE  /\ x \in SignalsOf(folds) /\ Whole(estimates'[x])
             /\ estimates'[x].model = study.config /\ estimates'[x].mode = study.mode
             /\ estimates'[x].window = x /\ estimates'[x].columns = ReferenceColumns
  <2>1. CASE x = job.window
    <3>1. estimates'[x] = Estimate  BY <1>1, <2>1 DEF With
    <3> QED  BY <1>2, <2>1, <3>1
  <2>2. CASE x # job.window
    <3>1. x \in DOMAIN estimates /\ estimates'[x] = estimates[x]
      BY <1>1, <2>2 DEF With
    <3> QED  BY <3>1 DEF KeptInv
  <2> QED  BY <2>1, <2>2
<1> QED  BY <1>1, <1>3 DEF KeptInv, SignalsOf, Candidate, ReferenceColumns

LEMMA KeptKeepsCandidate ==
    ASSUME PassInv, JobInv, KeptInv, KeepCandidate  PROVE KeptInv'
<1>1. /\ phase = "prepare" /\ pass = "done" /\ prepared' = With(prepared, job.window, Estimate)
      /\ UNCHANGED <<study, folds, estimates, verdicts>>
  BY DEF KeepCandidate
<1>2. /\ Whole(Estimate) /\ Estimate.model = Candidate(job.window) /\ Estimate.mode = study.mode
      /\ Estimate.window = job.window /\ Estimate.columns = Instruments(study.config)
      /\ job.window \in DOMAIN verdicts
  BY <1>1 DEF PassInv, JobInv, Estimate, InHand
<1>3. ASSUME NEW x \in DOMAIN prepared'
      PROVE  /\ x \in DOMAIN verdicts /\ Whole(prepared'[x])
             /\ prepared'[x].model = Candidate(x) /\ prepared'[x].mode = study.mode
             /\ prepared'[x].window = x /\ prepared'[x].columns = Instruments(study.config)
  <2>1. CASE x = job.window
    <3>1. prepared'[x] = Estimate  BY <1>1, <2>1 DEF With
    <3> QED  BY <1>2, <2>1, <3>1
  <2>2. CASE x # job.window
    <3>1. x \in DOMAIN prepared /\ prepared'[x] = prepared[x]
      BY <1>1, <2>2 DEF With
    <3> QED  BY <3>1 DEF KeptInv
  <2> QED  BY <2>1, <2>2
<1> QED  BY <1>1, <1>3 DEF KeptInv, SignalsOf, Candidate, ReferenceColumns

LEMMA KeptPrepares ==
    ASSUME KeptInv, PrepareFold  PROVE KeptInv'
<1>1. PICK f \in NotPrepared, v \in [NonRoot(study.config) -> {"retain", "prune"}] :
         verdicts' = With(verdicts, f.signal, v)
  BY PreparesAFold
<1>2. f.signal \notin DOMAIN verdicts /\ UNCHANGED <<study, folds, estimates, prepared>>
  BY DEF NotPrepared, PrepareFold
<1>3. ASSUME NEW x \in DOMAIN prepared
      PROVE  x \in DOMAIN verdicts' /\ verdicts'[x] = verdicts[x]
  <2>1. x \in DOMAIN verdicts  BY DEF KeptInv
  <2> QED  BY <1>1, <1>2, <2>1 DEF With
<1> QED  BY <1>2, <1>3 DEF KeptInv, SignalsOf, Candidate, ReferenceColumns

LEMMA KeptStep ==
    ASSUME PassInv, JobInv, KeptInv, PhaseInv, [Next]_vars  PROVE KeptInv'
<1>1. CASE UNCHANGED vars \/ Stay
  BY <1>1, KeptUnchanged DEF Stay, vars, backtestVars, adaptiveVars
<1>2. CASE Plan /\ UNCHANGED adaptiveVars
  <2>1. /\ UNCHANGED <<study, estimates, verdicts, prepared>> /\ DOMAIN estimates = {}
        /\ DOMAIN prepared = {}
    BY <1>2 DEF Plan, PhaseInv, Unplanned, Adapting, adaptiveVars
  <2> QED  BY <2>1 DEF KeptInv
<1>3. CASE (EstimateFold \/ FoldFails \/ HoldFold) /\ UNCHANGED adaptiveVars
  BY <1>3, KeptUnchanged DEF EstimateFold, FoldFails, HoldFold, backtestVars, adaptiveVars
<1>4. CASE (SolveStep /\ UNCHANGED backtestVars) /\ UNCHANGED adaptiveVars
  BY <1>4, KeptUnchanged DEF backtestVars, adaptiveVars
<1>5. CASE KeepEstimate /\ UNCHANGED adaptiveVars
  BY <1>5, KeptKeepsEstimate
<1>6. CASE KeepCandidate
  BY <1>6, KeptKeepsCandidate
<1>7. CASE PrepareFold
  BY <1>7, KeptPrepares
<1>8. CASE BeginAdaptive \/ CandidateFails \/ AdaptFold
  BY <1>8, KeptUnchanged DEF BeginAdaptive, CandidateFails, AdaptFold, adaptiveVars
<1> QED  BY <1>1, <1>2, <1>3, <1>4, <1>5, <1>6, <1>7, <1>8 DEF Next, BacktestStep

LEMMA PhaseUnchanged ==
    ASSUME PhaseInv, UNCHANGED <<study, phase, folds, estimates, verdicts, prepared, adapted>>
    PROVE  PhaseInv'
BY DEF PhaseInv, SignalsOf, AfterBurnIn, ReportFolds, BurnInCutoff, FirstHeldDay, InForce

\* Nothing is in force before the contractions are estimated.
LEMMA PhaseBeforeAdapting ==
    ASSUME PhaseInv, UNCHANGED <<study, adapted>>, phase' \in Phases,
           phase \notin {"adapt", "missing column", "adapted"},
           phase' = "plan" => folds' = {},
           phase' \in Unplanned => DOMAIN estimates' = {},
           phase' \notin BeforeHolding => SignalsOf(folds)' \subseteq DOMAIN estimates',
           phase' \notin Adapting => DOMAIN verdicts' = {} /\ DOMAIN prepared' = {},
           phase' \in Adapting => study.adaptive,
           DOMAIN verdicts' \subseteq SignalsOf(AfterBurnIn)'
    PROVE  PhaseInv'
<1>1. study' \in Studies /\ DOMAIN adapted' = {}
  BY DEF PhaseInv
<1> QED  BY <1>1 DEF PhaseInv

LEMMA PhaseAdapts ==
    ASSUME PhaseInv, AdaptFold  PROVE PhaseInv'
<1>1. PICK f \in NotAdapted :
        LET target == [final   |-> Terminal(InForce(f.signal)),
                       forward |-> ForwardTerminal(InForce(f.signal))]
        IN \/ /\ adapted' = With(adapted, f.signal, target)
              /\ phase' = IF NotAdapted = {f} THEN "adapted" ELSE phase
           \/ phase' = "missing column" /\ UNCHANGED adapted
  BY DEF AdaptFold
<1>2. /\ phase = "adapt" /\ UNCHANGED <<study, folds, estimates, verdicts, prepared>>
      /\ f \in folds
  BY DEF AdaptFold, NotAdapted, ReportFolds
<1>3. phase' \in {"adapt", "adapted", "missing column"}
  BY <1>1, <1>2
<1>4. ASSUME NEW x \in DOMAIN adapted'
      PROVE  /\ x \in SignalsOf(folds)
             /\ adapted'[x] = [final   |-> Terminal(InForce(x)),
                               forward |-> ForwardTerminal(InForce(x))]
  <2>1. CASE x \in DOMAIN adapted /\ adapted'[x] = adapted[x]
    BY <2>1 DEF PhaseInv
  <2>2. CASE /\ x = f.signal
             /\ adapted'[x] = [final   |-> Terminal(InForce(f.signal)),
                               forward |-> ForwardTerminal(InForce(f.signal))]
    BY <1>2, <2>2 DEF SignalsOf
  <2> QED  BY <1>1, <2>1, <2>2 DEF With
<1>5. \A x : InForce(x)' = InForce(x)
  BY <1>2 DEF InForce
<1>6. SignalsOf(AfterBurnIn)' = SignalsOf(AfterBurnIn) /\ SignalsOf(folds)' = SignalsOf(folds)
  BY <1>2 DEF SignalsOf, AfterBurnIn, ReportFolds, BurnInCutoff, FirstHeldDay
<1>7. /\ phase' \in Phases /\ phase' \notin Unplanned /\ phase' \notin BeforeHolding
      /\ phase' \in Adapting
  BY <1>3 DEF Phases, Unplanned, BeforeHolding, Adapting, Ended
<1>8. /\ study' \in Studies /\ SignalsOf(folds) \subseteq DOMAIN estimates /\ study.adaptive
      /\ DOMAIN verdicts \subseteq SignalsOf(AfterBurnIn)
  BY <1>2 DEF PhaseInv, BeforeHolding, Unplanned, Adapting
<1> QED  BY <1>2, <1>3, <1>4, <1>5, <1>6, <1>7, <1>8 DEF PhaseInv

LEMMA PhaseStep ==
    ASSUME JobInv, PhaseInv, [Next]_vars  PROVE PhaseInv'
<1> USE DEF Phases, Unplanned, BeforeHolding, Adapting, Ended
<1>1. CASE UNCHANGED vars \/ Stay
  BY <1>1, PhaseUnchanged DEF Stay, vars, backtestVars, adaptiveVars
<1>2. CASE Plan /\ UNCHANGED adaptiveVars
  BY <1>2, PhaseBeforeAdapting DEF Plan, PhaseInv, adaptiveVars
<1>3. CASE EstimateFold /\ UNCHANGED adaptiveVars
  BY <1>3, PhaseUnchanged DEF EstimateFold, backtestVars, adaptiveVars
<1>4. CASE (SolveStep /\ UNCHANGED backtestVars) /\ UNCHANGED adaptiveVars
  BY <1>4, PhaseUnchanged DEF backtestVars, adaptiveVars
<1>5. CASE KeepEstimate /\ UNCHANGED adaptiveVars
  <2>1. /\ phase = "estimate" /\ UNCHANGED <<study, folds, verdicts, prepared, adapted>>
        /\ phase' = IF \A f \in folds : f.signal \in DOMAIN estimates' THEN "hold" ELSE phase
    BY <1>5 DEF KeepEstimate, adaptiveVars
  <2>2. DOMAIN verdicts = {} /\ DOMAIN prepared = {}
    BY <2>1 DEF PhaseInv
  <2>3. phase' = "hold" => SignalsOf(folds)' \subseteq DOMAIN estimates'
    BY <2>1 DEF SignalsOf
  <2> QED  BY <2>1, <2>2, <2>3, PhaseBeforeAdapting
<1>6. CASE FoldFails /\ UNCHANGED adaptiveVars
  <2>1. /\ phase = "estimate" /\ phase' = "fold failed"
        /\ UNCHANGED <<study, folds, verdicts, prepared, adapted>>
    BY <1>6 DEF FoldFails, adaptiveVars
  <2> QED  BY <2>1, PhaseBeforeAdapting DEF PhaseInv
<1>7. CASE HoldFold /\ UNCHANGED adaptiveVars
  <2>1. /\ phase = "hold" /\ phase' \in {"hold", "report", "no common grid"}
        /\ UNCHANGED <<study, folds, estimates, verdicts, prepared, adapted>>
    BY <1>7 DEF HoldFold, adaptiveVars
  <2> QED  BY <2>1, PhaseBeforeAdapting DEF PhaseInv, SignalsOf
<1>8. CASE BeginAdaptive
  <2>1. /\ phase = "report" /\ phase' \in {"prepare", "nothing after burn-in"} /\ study.adaptive
        /\ UNCHANGED <<study, folds, estimates, verdicts, prepared, adapted>>
    BY <1>8 DEF BeginAdaptive, adaptiveVars
  <2> QED  BY <2>1, PhaseBeforeAdapting DEF PhaseInv, SignalsOf
<1>9. CASE PrepareFold
  <2>1. PICK f \in NotPrepared, v \in [NonRoot(study.config) -> {"retain", "prune"}] :
           verdicts' = With(verdicts, f.signal, v)
    BY <1>9, PreparesAFold
  <2>2. /\ phase = "prepare" /\ phase' \in {"prepare", "candidate refused"}
        /\ UNCHANGED <<study, folds, estimates, prepared, adapted>>
    BY <1>9, PreparesAFold DEF PrepareFold
  <2>3. f \in AfterBurnIn /\ DOMAIN verdicts' = DOMAIN verdicts \cup {f.signal}
    BY <2>1 DEF NotPrepared, With
  <2>4. SignalsOf(AfterBurnIn)' = SignalsOf(AfterBurnIn)
    BY <2>2 DEF SignalsOf, AfterBurnIn, ReportFolds, BurnInCutoff, FirstHeldDay
  <2>5. DOMAIN verdicts' \subseteq SignalsOf(AfterBurnIn)'
    BY <2>3, <2>4 DEF PhaseInv, SignalsOf
  <2>6. SignalsOf(folds)' \subseteq DOMAIN estimates' /\ study.adaptive
    BY <2>2 DEF PhaseInv, SignalsOf
  <2> QED  BY <2>2, <2>5, <2>6, PhaseBeforeAdapting
<1>10. CASE KeepCandidate \/ CandidateFails
  <2>1. /\ phase = "prepare" /\ phase' \in {"prepare", "adapt", "candidate failed"}
        /\ UNCHANGED <<study, folds, estimates, verdicts, adapted>>
    BY <1>10 DEF KeepCandidate, CandidateFails, adaptiveVars
  <2>2. SignalsOf(AfterBurnIn)' = SignalsOf(AfterBurnIn)
    BY <2>1 DEF SignalsOf, AfterBurnIn, ReportFolds, BurnInCutoff, FirstHeldDay
  <2>3. SignalsOf(folds)' \subseteq DOMAIN estimates' /\ study.adaptive
    BY <2>1 DEF PhaseInv, SignalsOf
  <2>4. DOMAIN verdicts' \subseteq SignalsOf(AfterBurnIn)'
    BY <2>1, <2>2 DEF PhaseInv
  <2> QED  BY <2>1, <2>3, <2>4, PhaseBeforeAdapting
<1>11. CASE AdaptFold
  BY <1>11, PhaseAdapts
<1> QED
  BY <1>1, <1>2, <1>3, <1>4, <1>5, <1>6, <1>7, <1>8, <1>9, <1>10, <1>11 DEF Next, BacktestStep

-----------------------------------------------------------------------------
(* The curves                                                              *)

LEMMA LedgerUnchanged ==
    ASSUME LedgerInv, UNCHANGED <<folds, estimates, points>>,
           phase' \in BeforeHolding => phase \in BeforeHolding,
           phase' \notin BeforeHolding \cup {"hold"} => phase \notin BeforeHolding \cup {"hold"},
           phase' = "no common grid" => phase = "no common grid"
    PROVE  LedgerInv'
BY DEF LedgerInv, NotHeld, Held, OneGrid

LEMMA LedgerEmpty ==
    ASSUME DOMAIN points' = {}, phase' \in BeforeHolding \cup {"hold"}
    PROVE  LedgerInv'
BY DEF LedgerInv, Held, BeforeHolding, Unplanned

LEMMA FoldsDiffer ==
    ASSUME PlannedOnce, phase # "plan", NEW f \in folds, NEW g \in folds, f.signal = g.signal
    PROVE  f = g
<1>1. f \in PlannedFolds(study) /\ g \in PlannedFolds(study) /\ study \in Studies
  BY DEF PlannedOnce
<1> QED  BY <1>1, WindowsAreApart

LEMMA FoldsHold ==
    ASSUME PlannedOnce, phase # "plan", NEW f \in folds
    PROVE  f.holding # {}
BY DEF PlannedOnce, PlannedFolds, IsFold

LEMMA B0IsAlwaysHeld ==
    ASSUME NEW e  PROVE Arm("B0") \in Arms(e)
BY DEF Arms

LEMMA LedgerHolds ==
    ASSUME LedgerInv, PlannedOnce, HoldFold  PROVE LedgerInv'
<1>1. PICK f \in NotHeld :
        /\ points' = Earned(f, Arms(estimates[f.signal]))
        /\ phase' = IF NotHeld # {f} THEN phase
                    ELSE IF OneGrid(points') THEN "report" ELSE "no common grid"
  BY DEF HoldFold
<1>2. phase = "hold" /\ UNCHANGED <<study, folds, estimates>> /\ f \in folds
  BY DEF HoldFold, NotHeld
<1> DEFINE arms == Arms(estimates[f.signal])
           on(d) == [day |-> d, on |-> f.signal]
<1>3. \A a \in DOMAIN points : a \in DOMAIN points' /\ points[a] \subseteq points'[a]
  BY <1>1 DEF Earned
<1>4. \A a \in arms : a \in DOMAIN points' /\ \A d \in f.holding : on(d) \in points'[a]
  BY <1>1 DEF Earned
<1>5. ASSUME NEW a \in DOMAIN points', NEW p \in points'[a]
      PROVE  \/ a \in DOMAIN points /\ p \in points[a]
             \/ a \in arms /\ \E d \in f.holding : p = on(d)
  BY <1>1 DEF Earned
<1>6. Held(f)'
  <2>1. PICK d \in f.holding : TRUE
    BY <1>2, FoldsHold
  <2>2. Arm("B0") \in arms
    BY B0IsAlwaysHeld
  <2>3. Arm("B0") \in DOMAIN points' /\ on(d) \in points'[Arm("B0")]
    BY <1>4, <2>1, <2>2
  <2>4. on(d).on = f.signal
    OBVIOUS
  <2> QED  BY <2>3, <2>4 DEF Held
<1>7. \A g : Held(g) => Held(g)'
  BY <1>3 DEF Held
<1>8. phase' \notin BeforeHolding /\ (phase' # "hold" => NotHeld = {f})
  BY <1>1, <1>2 DEF BeforeHolding, Unplanned
<1>9. phase' # "hold" => NotHeld' = {}
  BY <1>2, <1>6, <1>7, <1>8 DEF NotHeld
<1>10. ASSUME NEW a \in DOMAIN points', NEW p \in points'[a]
       PROVE  \E g \in folds : /\ a \in Arms(estimates[g.signal])
                               /\ p.on = g.signal /\ p.day \in g.holding
  <2>1. CASE a \in DOMAIN points /\ p \in points[a]
    BY <2>1 DEF LedgerInv
  <2>2. CASE a \in arms /\ \E d \in f.holding : p = on(d)
    BY <1>2, <2>2
  <2> QED  BY <1>5, <2>1, <2>2
<1>11. ASSUME NEW g \in folds, Held(g)', NEW a \in Arms(estimates[g.signal])
       PROVE  /\ a \in DOMAIN points'
              /\ \A d \in g.holding : [day |-> d, on |-> g.signal] \in points'[a]
  <2>1. CASE Held(g)
    BY <1>3, <2>1 DEF LedgerInv
  <2>2. CASE g = f
    BY <1>4, <2>2
  <2>3. CASE ~ Held(g)
    <3>1. PICK p \in points'[Arm("B0")] : Arm("B0") \in DOMAIN points' /\ p.on = g.signal
      BY <1>11 DEF Held
    <3>2. ~ (Arm("B0") \in DOMAIN points /\ p \in points[Arm("B0")])
      BY <2>3, <3>1 DEF Held
    <3>3. PICK d \in f.holding : p = on(d)
      BY <1>5, <3>1, <3>2
    <3>4. g.signal = f.signal
      BY <3>1, <3>3
    <3> QED  BY <1>2, <2>2, <3>4, FoldsDiffer
  <2> QED  BY <2>1, <2>2, <2>3
<1>12. phase' = "no common grid" => ~ OneGrid(points')
  BY <1>1, <1>2
<1> HIDE DEF arms, on
<1>13. phase' \in BeforeHolding => DOMAIN points' = {}
  BY <1>8
<1>14. phase' \notin BeforeHolding \cup {"hold"} => NotHeld' = {}
  BY <1>9
<1>15. \A a \in DOMAIN points' : \A p \in points'[a] :
         \E g \in folds' : /\ a \in Arms(estimates'[g.signal])
                           /\ p.on = g.signal /\ p.day \in g.holding
  BY <1>2, <1>10
<1>16. \A g \in folds' : Held(g)' =>
         \A a \in Arms(estimates'[g.signal]) :
            /\ a \in DOMAIN points'
            /\ \A d \in g.holding : [day |-> d, on |-> g.signal] \in points'[a]
  BY <1>2, <1>11
<1>17. \A a \in DOMAIN points' : \E g \in folds' : a \in Arms(estimates'[g.signal])
  <2>1. \A a \in DOMAIN points : \E g \in folds : a \in Arms(estimates[g.signal])
    BY DEF LedgerInv
  <2>2. DOMAIN points' = DOMAIN points \cup arms
    BY <1>1 DEF Earned, arms
  <2> QED  BY <1>2, <2>1, <2>2 DEF arms
<1> QED  BY <1>12, <1>13, <1>14, <1>15, <1>16, <1>17 DEF LedgerInv

LEMMA LedgerStep ==
    ASSUME LedgerInv, PlannedOnce, [Next]_vars  PROVE LedgerInv'
<1> USE DEF BeforeHolding, Unplanned
<1>1. CASE UNCHANGED vars \/ Stay
  BY <1>1, LedgerUnchanged DEF Stay, vars, backtestVars
<1>2. CASE Plan
  BY <1>2, LedgerEmpty DEF Plan, LedgerInv
<1>3. CASE EstimateFold \/ (SolveStep /\ UNCHANGED backtestVars)
  BY <1>3, LedgerUnchanged DEF EstimateFold, backtestVars
<1>4. CASE KeepEstimate \/ FoldFails
  <2>1. phase = "estimate" /\ phase' \in {"estimate", "hold", "fold failed"} /\ points' = points
    BY <1>4 DEF KeepEstimate, FoldFails
  <2> QED  BY <2>1, LedgerEmpty DEF LedgerInv
<1>5. CASE HoldFold
  BY <1>5, LedgerHolds
<1>6. CASE BeginAdaptive \/ KeepCandidate \/ CandidateFails \/ AdaptFold
  <2>1. /\ phase \in {"report", "prepare", "adapt"} /\ UNCHANGED <<folds, estimates, points>>
        /\ phase' \notin BeforeHolding \cup {"hold", "no common grid"}
    BY <1>6 DEF BeginAdaptive, KeepCandidate, CandidateFails, AdaptFold
  <2> QED  BY <2>1, LedgerUnchanged
<1>7. CASE PrepareFold
  <2>1. /\ phase = "prepare" /\ UNCHANGED <<folds, estimates, points>>
        /\ phase' \in {"prepare", "candidate refused"}
    BY <1>7, PreparesAFold DEF PrepareFold
  <2> QED  BY <2>1, LedgerUnchanged
<1> QED  BY <1>1, <1>2, <1>3, <1>4, <1>5, <1>6, <1>7 DEF Next, BacktestStep

-----------------------------------------------------------------------------
(* The solver's answers are kept                                           *)

Grown(answers, more) == \A p \in DOMAIN answers : p \in DOMAIN more /\ more[p] = answers[p]

LEMMA GrownKeeps ==
    ASSUME NEW answers, NEW more, Grown(answers, more), NEW e, SolvedBy(answers, e)
    PROVE  SolvedBy(more, e)
BY DEF SolvedBy, Answered, Grown

LEMMA RememberGrows ==
    ASSUME NEW m, NEW n, NEW problem, NEW rootSeries,
           NEW answer \in Answers(m, n, problem, rootSeries),
           Remember(m, n, problem, rootSeries, answer)
    PROVE  /\ Grown(solved, solved')
           /\ answer # Infeasible => Answered(solved', problem, answer)
<1>1. CASE Refused(m, n, rootSeries)
  BY <1>1 DEF Answers, Remember, Grown
<1>2. CASE ~ Refused(m, n, rootSeries)
  <2>1. solved' = With(solved, problem, answer)
    BY <1>2 DEF Remember
  <2>2. problem \in DOMAIN solved => answer = solved[problem]
    BY <1>2 DEF Answers
  <2> QED  BY <2>1, <2>2 DEF With, Grown, Answered
<1> QED  BY <1>1, <1>2

LEMMA SolvedStarts ==
    ASSUME PassInv, NEW m, NEW mode, NEW window, NEW columns, NEW detail,
           StartEstimate(m, mode, window, columns, detail)
    PROVE  SolvedBy(solved', Estimate') /\ Grown(solved, solved')
<1>1. pass = "idle" /\ UNCHANGED <<forward, backward, flat, solved>>
  BY DEF StartEstimate
<1>2. DOMAIN forward' = {} /\ DOMAIN backward' = {} /\ DOMAIN flat' = {}
  BY <1>1, EmptyIsEmpty DEF PassInv
<1>3. DOMAIN Estimate'.forward = {} /\ DOMAIN Estimate'.backward = {} /\ DOMAIN Estimate'.flat = {}
  BY <1>2 DEF Estimate
<1>4. Grown(solved, solved')
  BY <1>1 DEF Grown
<1> HIDE DEF Estimate
<1> QED  BY <1>3, <1>4 DEF SolvedBy

LEMMA RootIsFirst ==
    ASSUME PassInv, pass = "forward"
    PROVE  /\ job.model.root \notin DOMAIN forward =>
                 NextForward = job.model.root /\ DOMAIN forward = {}
           /\ job.model.root \in DOMAIN forward => NextForward # job.model.root
<1>1. /\ NextForward \in job.model.nodes \ DOMAIN forward /\ NextForward \in Nat
      /\ \A j \in job.model.nodes \ DOMAIN forward : NextForward <= j
  BY NextForwardIsFirst
<1>2. /\ job.model.root \in job.model.nodes /\ job.model.nodes \subseteq Nat
      /\ \A n \in job.model.nodes : job.model.root <= n
      /\ DOMAIN forward \subseteq job.model.nodes
      /\ \A i \in DOMAIN forward, j \in job.model.nodes \ DOMAIN forward : i < j
  BY DEF PassInv, Proper
<1>3. ASSUME job.model.root \notin DOMAIN forward
      PROVE  NextForward = job.model.root /\ DOMAIN forward = {}
  <2>1. NextForward <= job.model.root /\ job.model.root <= NextForward
    BY <1>1, <1>2, <1>3
  <2>2. ASSUME NEW i \in DOMAIN forward  PROVE FALSE
    <3>1. i < job.model.root /\ job.model.root <= i /\ i \in Nat /\ job.model.root \in Nat
      BY <1>2, <1>3
    <3> QED  BY <3>1
  <2>3. NextForward = job.model.root
    BY <1>1, <1>2, <2>1
  <2> QED  BY <2>2, <2>3
<1> QED  BY <1>1, <1>3

LEMMA SolvedForward ==
    ASSUME PassInv, SolvedBy(solved, Estimate), SolveForward
    PROVE  SolvedBy(solved', Estimate') /\ Grown(solved, solved')
<1> DEFINE n == NextForward
           m == job.model
<1>1. PICK answer \in Answers(job.model, NextForward, ForwardProblem, RootSeries) \ {Infeasible} :
        /\ Remember(job.model, NextForward, ForwardProblem, RootSeries, answer)
        /\ forward' = With(forward, NextForward, answer)
  BY DEF SolveForward
<1>2. pass = "forward" /\ UNCHANGED <<job, backward, flat>>
  BY DEF SolveForward
<1>3. Grown(solved, solved') /\ Answered(solved', ForwardProblem, answer)
  BY <1>1, RememberGrows
<1>4. /\ DOMAIN forward' = DOMAIN forward \cup {n} /\ forward'[n] = answer
      /\ \A i \in DOMAIN forward : i # n => forward'[i] = forward[i]
  BY <1>1 DEF With
<1>5. n \notin DOMAIN forward /\ DOMAIN backward = {} /\ DOMAIN flat = {}
  BY <1>2, NextForwardIsFirst, EmptyIsEmpty DEF PassInv
<1>6. RootOf(Estimate) = RootSeries
  BY DEF RootOf, RootSeries, Estimate
<1>7. m.root \in DOMAIN forward => RootOf(Estimate') = RootOf(Estimate)
  BY <1>2, <1>4, <1>5 DEF RootOf, Estimate
<1>8. ForwardPosed(Estimate', n) = ForwardProblem
  <2>1. CASE m.root \in DOMAIN forward
    BY <1>2, <1>6, <1>7, <2>1, RootIsFirst DEF ForwardPosed, ForwardProblem, Estimate
  <2>2. CASE m.root \notin DOMAIN forward
    <3>1. RootSeries = None  BY <2>2 DEF RootSeries
    <3> QED  BY <1>2, <2>2, <3>1, RootIsFirst DEF ForwardPosed, ForwardProblem, Estimate
  <2> QED  BY <2>1, <2>2
<1>9. ASSUME NEW i \in DOMAIN forward
      PROVE  ForwardPosed(Estimate', i) = ForwardPosed(Estimate, i)
  <2>1. m.root \in DOMAIN forward
    BY <1>2, RootIsFirst
  <2> QED  BY <1>2, <1>7, <2>1 DEF ForwardPosed, Estimate
<1>10. SolvedBy(solved', Estimate)
  BY <1>3, GrownKeeps
<1>11. /\ Estimate.forward = forward /\ Estimate'.forward = forward'
       /\ DOMAIN Estimate'.backward = {} /\ DOMAIN Estimate'.flat = {}
  BY <1>2, <1>5 DEF Estimate
<1>12. ASSUME NEW i \in DOMAIN Estimate'.forward
       PROVE  Answered(solved', ForwardPosed(Estimate', i), Estimate'.forward[i])
  <2>1. CASE i = n
    BY <1>3, <1>4, <1>8, <1>11, <2>1
  <2>2. CASE i \in DOMAIN forward
    <3>1. Answered(solved', ForwardPosed(Estimate, i), forward[i])
      BY <1>10, <1>11, <2>2 DEF SolvedBy
    <3> QED  BY <1>4, <1>5, <1>9, <1>11, <2>2, <3>1
  <2> QED  BY <1>4, <1>11, <2>1, <2>2
<1> QED  BY <1>3, <1>11, <1>12 DEF SolvedBy

LEMMA SolvedForwardFails ==
    ASSUME PassInv, ForwardFails
    PROVE  SolvedBy(solved', Estimate') /\ Grown(solved, solved')
<1>1. /\ pass = "forward" /\ UNCHANGED <<job, backward, flat>> /\ forward' = Empty
  BY DEF ForwardFails
<1>2. Grown(solved, solved')
  BY RememberGrows DEF ForwardFails
<1>3. DOMAIN forward' = {} /\ DOMAIN backward' = {} /\ DOMAIN flat' = {}
  BY <1>1, EmptyIsEmpty DEF PassInv
<1>4. DOMAIN Estimate'.forward = {} /\ DOMAIN Estimate'.backward = {} /\ DOMAIN Estimate'.flat = {}
  BY <1>3 DEF Estimate
<1> QED  BY <1>2, <1>4 DEF SolvedBy

\* A node added to the backward pass was solved over those that come after it.
LEMMA SolvedGoesBackward ==
    ASSUME PassInv, SolvedBy(solved, Estimate), pass = "backward",
           UNCHANGED <<job, forward, flat>>, NEW a,
           backward' = With(backward, NextBackward, a), Grown(solved, solved'),
           IF job.model.children[NextBackward] = {} THEN a = forward[NextBackward]
           ELSE Answered(solved', BackwardProblem, a)
    PROVE  SolvedBy(solved', Estimate')
<1> DEFINE n == NextBackward
<1>1. /\ DOMAIN backward' = DOMAIN backward \cup {n} /\ backward'[n] = a
      /\ \A i \in DOMAIN backward : i # n => backward'[i] = backward[i]
  BY DEF With
<1>2. /\ n \in job.model.nodes \ DOMAIN backward /\ n \in Nat
      /\ DOMAIN backward \subseteq Nat
      /\ \A i \in DOMAIN backward : n < i
  BY NextBackwardIsLast DEF PassInv, Proper
<1>3. DOMAIN flat = {} /\ IsFunction(backward)
  BY EmptyIsEmpty DEF PassInv
<1>4. RootOf(Estimate) = RootSeries /\ RootOf(Estimate') = RootSeries
  BY DEF RootOf, RootSeries, Estimate
<1>5. /\ Estimate'.forward = forward /\ Estimate.forward = forward
      /\ Estimate'.backward = backward' /\ Estimate.backward = backward
      /\ Estimate'.model = job.model /\ Estimate.model = job.model
      /\ Estimate'.window = Estimate.window /\ Estimate.window = job.window
      /\ Estimate'.columns = Estimate.columns /\ Estimate.columns = job.columns
      /\ Estimate'.flat = flat
  BY DEF Estimate
<1>6. Below(Estimate', n) = backward
  <2>1. {i \in DOMAIN backward' : i > n} = DOMAIN backward
    BY <1>1, <1>2
  <2>2. Below(Estimate', n) = [k \in DOMAIN backward |-> backward[k]]
    BY <1>1, <1>2, <1>5, <2>1 DEF Below
  <2> QED  BY <1>3, <2>2 DEF IsFunction
<1>7. BackwardPosed(Estimate', n) = BackwardProblem
  BY <1>4, <1>5, <1>6 DEF BackwardPosed, BackwardProblem, BackwardChildSeries
<1>8. ASSUME NEW i \in DOMAIN backward
      PROVE  BackwardPosed(Estimate', i) = BackwardPosed(Estimate, i)
  <2>1. {j \in DOMAIN backward' : j > i} = {j \in DOMAIN backward : j > i}
    BY <1>1, <1>2
  <2>2. Below(Estimate', i) = Below(Estimate, i)
    BY <1>1, <1>2, <1>5, <2>1 DEF Below
  <2> QED  BY <1>4, <1>5, <2>2 DEF BackwardPosed
<1>9. SolvedBy(solved', Estimate)
  BY GrownKeeps
<1>10. ASSUME NEW i \in DOMAIN forward
       PROVE  Answered(solved', ForwardPosed(Estimate', i), forward[i])
  <2>1. ForwardPosed(Estimate', i) = ForwardPosed(Estimate, i)
    BY <1>4, <1>5 DEF ForwardPosed
  <2> QED  BY <1>5, <1>9, <2>1 DEF SolvedBy
<1>11. ASSUME NEW i \in DOMAIN backward'
       PROVE  IF job.model.children[i] = {} THEN backward'[i] = forward[i]
              ELSE Answered(solved', BackwardPosed(Estimate', i), backward'[i])
  <2>1. CASE i = n
    BY <1>1, <1>7, <2>1
  <2>2. CASE i \in DOMAIN backward
    <3>1. backward'[i] = backward[i]
      BY <1>1, <1>2, <2>2
    <3> QED  BY <1>5, <1>8, <1>9, <2>2, <3>1 DEF SolvedBy
  <2> QED  BY <1>1, <2>1, <2>2
<1> QED  BY <1>3, <1>5, <1>10, <1>11 DEF SolvedBy

LEMMA SolvedFlat ==
    ASSUME PassInv, SolvedBy(solved, Estimate), SolveFlat
    PROVE  SolvedBy(solved', Estimate') /\ Grown(solved, solved')
<1>1. PICK answer \in Answers(FlatTree(job.model), job.model.root, FlatProblem, None)
                      \ {Infeasible} :
        /\ Remember(FlatTree(job.model), job.model.root, FlatProblem, None, answer)
        /\ flat' = With(flat, job.model.root, answer)
  BY DEF SolveFlat
<1>2. pass = "flat" /\ UNCHANGED <<job, forward, backward>>
  BY DEF SolveFlat
<1>3. Grown(solved, solved') /\ Answered(solved', FlatProblem, answer)
  BY <1>1, RememberGrows
<1>4. DOMAIN flat = {} /\ DOMAIN backward = {}
  BY <1>2, EmptyIsEmpty DEF PassInv
<1>5. DOMAIN flat' = {job.model.root} /\ flat'[job.model.root] = answer
  BY <1>1, <1>4 DEF With
<1>6. /\ Estimate'.forward = forward /\ Estimate.forward = forward
      /\ Estimate'.model = job.model /\ Estimate.model = job.model
      /\ Estimate'.window = Estimate.window /\ Estimate'.columns = Estimate.columns
      /\ Estimate'.flat = flat' /\ DOMAIN Estimate'.backward = {}
  BY <1>2, <1>4 DEF Estimate
<1>7. FlatPosed(Estimate') = FlatProblem
  BY <1>2 DEF FlatPosed, FlatProblem, Estimate
<1>8. SolvedBy(solved', Estimate)
  BY <1>3, GrownKeeps
<1>9. ASSUME NEW i \in DOMAIN forward
      PROVE  Answered(solved', ForwardPosed(Estimate', i), forward[i])
  <2>1. ForwardPosed(Estimate', i) = ForwardPosed(Estimate, i)
    BY <1>6 DEF ForwardPosed, RootOf
  <2> QED  BY <1>6, <1>8, <2>1 DEF SolvedBy
<1> QED  BY <1>3, <1>5, <1>6, <1>7, <1>9 DEF SolvedBy

LEMMA SolvedSolves ==
    ASSUME PassInv, SolvedInv, SolveStep
    PROVE  SolvedBy(solved', Estimate') /\ Grown(solved, solved')
<1>0. SolvedBy(solved, Estimate)
  BY DEF SolvedInv, SolveStep, SolveForward, ForwardFails, CopyLeaf, SolveBackward,
         BackwardFails, SolveFlat, FlatFails
<1>1. CASE SolveForward
  BY <1>0, <1>1, SolvedForward
<1>2. CASE ForwardFails
  BY <1>2, SolvedForwardFails
<1>3. CASE CopyLeaf
  <2>1. Grown(solved, solved')
    BY <1>3 DEF CopyLeaf, Grown
  <2> QED  BY <1>0, <1>3, <2>1, SolvedGoesBackward DEF CopyLeaf
<1>4. CASE SolveBackward
  <2>1. PICK answer \in Answers(job.model, NextBackward, BackwardProblem, RootSeries)
                        \ {Infeasible} :
          /\ Remember(job.model, NextBackward, BackwardProblem, RootSeries, answer)
          /\ backward' = With(backward, NextBackward, answer)
    BY <1>4 DEF SolveBackward
  <2>2. Grown(solved, solved') /\ Answered(solved', BackwardProblem, answer)
    BY <2>1, RememberGrows
  <2> QED  BY <1>0, <1>4, <2>1, <2>2, SolvedGoesBackward DEF SolveBackward
<1>5. CASE SolveFlat
  BY <1>0, <1>5, SolvedFlat
<1>6. CASE BackwardFails \/ FlatFails
  <2>1. Grown(solved, solved')
    BY <1>6, RememberGrows DEF BackwardFails, FlatFails
  <2>2. Estimate' = Estimate
    BY <1>6 DEF BackwardFails, FlatFails, Estimate
  <2> QED  BY <1>0, <2>1, <2>2, GrownKeeps
<1> QED  BY <1>1, <1>2, <1>3, <1>4, <1>5, <1>6 DEF SolveStep

LEMMA SolvedUnchanged ==
    ASSUME SolvedInv, UNCHANGED <<hierarchyVars, estimates, prepared>>  PROVE SolvedInv'
BY DEF SolvedInv, hierarchyVars, Estimate

\* The estimates kept stay the solver's answers while another is made.
LEMMA SolvedWhileSolving ==
    ASSUME SolvedInv, Grown(solved, solved'), UNCHANGED <<estimates, prepared>>,
           SolvedBy(solved', Estimate')
    PROVE  SolvedInv'
<1>1. \A x \in DOMAIN estimates : SolvedBy(solved', estimates[x])
  BY GrownKeeps DEF SolvedInv
<1>2. \A x \in DOMAIN prepared : SolvedBy(solved', prepared[x])
  BY GrownKeeps DEF SolvedInv
<1> QED  BY <1>1, <1>2 DEF SolvedInv

LEMMA SolvedStep ==
    ASSUME PassInv, SolvedInv, [Next]_vars  PROVE SolvedInv'
<1>1. CASE UNCHANGED vars \/ Stay
  BY <1>1, SolvedUnchanged DEF Stay, vars, backtestVars, adaptiveVars
<1>2. CASE (Plan \/ HoldFold) /\ UNCHANGED adaptiveVars
  BY <1>2, SolvedUnchanged DEF Plan, HoldFold, adaptiveVars
<1>3. CASE BeginAdaptive \/ AdaptFold
  BY <1>3, SolvedUnchanged DEF BeginAdaptive, AdaptFold, adaptiveVars
<1>4. CASE (SolveStep /\ UNCHANGED backtestVars) /\ UNCHANGED adaptiveVars
  BY <1>4, SolvedSolves, SolvedWhileSolving DEF backtestVars, adaptiveVars
<1>5. CASE EstimateFold /\ UNCHANGED adaptiveVars
  BY <1>5, SolvedStarts, SolvedWhileSolving DEF EstimateFold, backtestVars, adaptiveVars
<1>6. CASE PrepareFold
  <2>1. UNCHANGED <<estimates, prepared>>
    BY <1>6 DEF PrepareFold
  <2>2. CASE UNCHANGED hierarchyVars
    BY <2>1, <2>2, SolvedUnchanged
  <2>3. CASE \E v, x : StartEstimate(PruneConfig(study.config, v), study.mode, x,
                                     Instruments(study.config), study.detail)
    BY <2>1, <2>3, SolvedStarts, SolvedWhileSolving
  <2> QED  BY <1>6, <2>2, <2>3, PreparesAFold
<1>7. CASE (FoldFails /\ UNCHANGED adaptiveVars) \/ CandidateFails
  BY <1>7 DEF FoldFails, CandidateFails, EndEstimate, SolvedInv, adaptiveVars
<1>8. CASE KeepEstimate /\ UNCHANGED adaptiveVars
  <2>1. /\ pass = "done" /\ pass' = "idle" /\ UNCHANGED <<solved, prepared>>
        /\ estimates' = With(estimates, job.window, Estimate)
    BY <1>8 DEF KeepEstimate, EndEstimate, adaptiveVars
  <2>2. SolvedBy(solved, Estimate)
    BY <2>1 DEF SolvedInv
  <2>3. \A x \in DOMAIN estimates' :
          estimates'[x] = Estimate \/ (x \in DOMAIN estimates /\ estimates'[x] = estimates[x])
    BY <2>1 DEF With
  <2>4. \A x \in DOMAIN estimates' : SolvedBy(solved, estimates'[x])
    BY <2>2, <2>3 DEF SolvedInv
  <2> QED  BY <2>1, <2>4 DEF SolvedInv
<1>9. CASE KeepCandidate
  <2>1. /\ pass = "done" /\ pass' = "idle" /\ UNCHANGED <<solved, estimates>>
        /\ prepared' = With(prepared, job.window, Estimate)
    BY <1>9 DEF KeepCandidate, EndEstimate
  <2>2. SolvedBy(solved, Estimate)
    BY <2>1 DEF SolvedInv
  <2>3. \A x \in DOMAIN prepared' :
          prepared'[x] = Estimate \/ (x \in DOMAIN prepared /\ prepared'[x] = prepared[x])
    BY <2>1 DEF With
  <2>4. \A x \in DOMAIN prepared' : SolvedBy(solved, prepared'[x])
    BY <2>2, <2>3 DEF SolvedInv
  <2> QED  BY <2>1, <2>4 DEF SolvedInv
<1> QED  BY <1>1, <1>2, <1>3, <1>4, <1>5, <1>6, <1>7, <1>8, <1>9 DEF Next, BacktestStep

LEMMA FlatFailedUnchanged ==
    ASSUME FlatFailedInv, UNCHANGED hierarchyVars  PROVE FlatFailedInv'
BY DEF FlatFailedInv, hierarchyVars, Answers, FlatProblem

LEMMA FlatFailedSolves ==
    ASSUME PassInv, SolveStep  PROVE FlatFailedInv'
<1>1. CASE SolveForward
  <2>1. pass = "forward" /\ job.mode \in Modes /\ pass' \in {"forward", AfterForward}
    BY <1>1 DEF SolveForward, PassInv
  <2>2. pass' # "failed"
    BY <2>1 DEF AfterForward, Modes
  <2> QED  BY <2>2 DEF FlatFailedInv
<1>2. CASE ForwardFails
  <2>1. pass' = AfterForwardFailure /\ job' = job
    BY <1>2 DEF ForwardFails
  <2>2. pass' = "failed" /\ job.mode = "flat" => job.model.unclassified # {}
    BY <2>1 DEF AfterForwardFailure, Unclassifiable
  <2> QED  BY <2>1, <2>2 DEF FlatFailedInv
<1>3. CASE CopyLeaf \/ SolveBackward
  BY <1>3 DEF CopyLeaf, SolveBackward, AfterBackward, FlatFailedInv
<1>4. CASE BackwardFails
  <2>1. job.mode = "forward_backward" /\ job' = job
    BY <1>4 DEF BackwardFails, PassInv
  <2> QED  BY <2>1 DEF FlatFailedInv
<1>5. CASE SolveFlat
  BY <1>5 DEF SolveFlat, FlatFailedInv
<1>6. CASE FlatFails
  <2> DEFINE m == FlatTree(job.model)
             r == job.model.root
  <2>1. /\ Infeasible \in Answers(m, r, FlatProblem, None)
        /\ Remember(m, r, FlatProblem, None, Infeasible) /\ job' = job
    BY <1>6 DEF FlatFails
  <2>2. FlatProblem' = FlatProblem
    BY <2>1 DEF FlatProblem
  <2>3. CASE Refused(m, r, None)
    <3>1. Answers(FlatTree(job.model), job.model.root, FlatProblem, None)' = {Infeasible}
      BY <2>1, <2>3 DEF Answers
    <3> QED  BY <3>1 DEF FlatFailedInv
  <2>4. CASE ~ Refused(m, r, None)
    <3>1. solved' = With(solved, FlatProblem, Infeasible)
      BY <2>1, <2>4 DEF Remember
    <3>2. FlatProblem \in DOMAIN solved' /\ solved'[FlatProblem] = Infeasible
      BY <3>1 DEF With
    <3>3. Answers(FlatTree(job.model), job.model.root, FlatProblem, None)' = {Infeasible}
      BY <2>1, <2>2, <2>4, <3>2 DEF Answers
    <3> QED  BY <3>3 DEF FlatFailedInv
  <2> QED  BY <2>3, <2>4
<1> QED  BY <1>1, <1>2, <1>3, <1>4, <1>5, <1>6 DEF SolveStep

LEMMA FlatFailedStep ==
    ASSUME PassInv, FlatFailedInv, [Next]_vars  PROVE FlatFailedInv'
<1>1. CASE UNCHANGED hierarchyVars
  BY <1>1, FlatFailedUnchanged
<1>2. CASE SolveStep
  BY <1>2, FlatFailedSolves
<1>3. CASE EstimateFold \/ KeepEstimate \/ FoldFails \/ KeepCandidate \/ CandidateFails
  BY <1>3 DEF EstimateFold, KeepEstimate, FoldFails, KeepCandidate, CandidateFails,
              StartEstimate, EndEstimate, FlatFailedInv
<1>4. CASE PrepareFold
  <2>1. UNCHANGED hierarchyVars \/ pass' = "forward"
    BY <1>4, PreparesAFold DEF StartEstimate
  <2> QED  BY <1>1, <2>1 DEF FlatFailedInv
<1>5. CASE Plan \/ HoldFold \/ BeginAdaptive \/ AdaptFold \/ Stay \/ UNCHANGED vars
  BY <1>1, <1>5 DEF Plan, HoldFold, BeginAdaptive, AdaptFold, Stay, vars
<1> QED  BY <1>2, <1>3, <1>4, <1>5 DEF Next, BacktestStep

-----------------------------------------------------------------------------
(* The invariant                                                           *)

BacktestTruths == HeldOnFolds /\ PlannedOnce /\ BacktestInv

LEMMA BacktestStarts == Init => BacktestTruths
<1> SUFFICES ASSUME Init PROVE BacktestInv
  BY HeldInit, PlannedInit DEF BacktestTruths
<1>1. /\ job = None /\ pass = "idle" /\ forward = Empty /\ backward = Empty /\ flat = Empty
      /\ study \in Studies /\ phase = "plan" /\ folds = {} /\ estimates = Empty
      /\ points = Empty /\ verdicts = Empty /\ prepared = Empty /\ adapted = Empty
  BY DEF Init, BacktestInit, EstimateInit
<1>2. PassInv /\ JobInv /\ KeptInv /\ SolvedInv /\ FlatFailedInv
  BY <1>1, EmptyIsEmpty DEF PassInv, JobInv, KeptInv, SolvedInv, FlatFailedInv
<1>3. PhaseInv
  BY <1>1, EmptyIsEmpty DEF PhaseInv, Phases, Unplanned, BeforeHolding, Adapting, SignalsOf
<1>4. LedgerInv
  BY <1>1, EmptyIsEmpty DEF LedgerInv, Unplanned, BeforeHolding, Held
<1> QED  BY <1>2, <1>3, <1>4 DEF BacktestInv

LEMMA BacktestGoesOn == BacktestTruths /\ [Next]_vars => BacktestTruths'
<1> SUFFICES ASSUME BacktestTruths, [Next]_vars PROVE BacktestTruths'
  OBVIOUS
<1>1. HeldOnFolds' /\ PlannedOnce'
  BY HeldStep, PlannedStep DEF BacktestTruths
<1>2. PassInv /\ JobInv /\ KeptInv /\ PhaseInv /\ LedgerInv /\ SolvedInv /\ FlatFailedInv
  BY DEF BacktestTruths, BacktestInv
<1>3. PassInv'
  BY <1>2, PassStep DEF PhaseInv
<1>4. JobInv' /\ KeptInv' /\ PhaseInv'
  BY <1>2, JobStep, KeptStep, PhaseStep
<1>5. LedgerInv'
  BY <1>2, LedgerStep DEF BacktestTruths
<1>6. SolvedInv' /\ FlatFailedInv'
  BY <1>2, SolvedStep, FlatFailedStep
<1> QED  BY <1>1, <1>3, <1>4, <1>5, <1>6 DEF BacktestTruths, BacktestInv

\* Whatever the tree, the solver and the order of folds, an estimate that is kept by
\* HierarchicalV2Backtester.run or run_adaptive_pruning is whole, is of its own fold
\* and tree, and holds the solver's answers to its own problems; and the curves are of
\* the folds held so far.
THEOREM BacktestsStaySound == Spec => []BacktestTruths
BY BacktestStarts, BacktestGoesOn, PTL DEF Spec

-----------------------------------------------------------------------------
(* Types                                                                   *)

LEMMA FoldsAreTyped ==
    ASSUME BacktestTruths, NEW f \in folds
    PROVE  f.signal \in Signals /\ f.train \subseteq Signals /\ f.holding \subseteq study.days
<1>1. study \in Studies /\ f \in PlannedFolds(study)
  BY DEF BacktestTruths, HeldOnFolds
<1>2. f.signal \in Schedule(study)
  BY <1>1 DEF PlannedFolds
<1>3. /\ study.days \subseteq Business /\ study.rebalance \in DOMAIN Ends
      /\ study.estimation \in DOMAIN Ends
  BY <1>1, StudiesAreOfDays
<1>4. \A frequency \in DOMAIN Ends : Labels(study.days, frequency) \subseteq Signals
  BY <1>3, PeriodLabel DEF Labels, Signals
<1>5. f.signal \in Labels(study.days, study.rebalance)
  BY <1>2 DEF Schedule, RebalanceDates
<1>6. f.train = Train(study, f.signal) /\ f.holding = Holding(study, f.signal)
  BY <1>1, WindowsAreApart
<1>7. f.train \subseteq Labels(study.days, study.estimation)
  BY <1>6 DEF Train, Observations, Latest
<1> QED  BY <1>3, <1>4, <1>5, <1>6, <1>7 DEF Holding

\* The days of the curves are days of the study, earned on estimates that are kept; the
\* estimates kept, the reference ones and the contractions', have the results of their
\* own mode and no other (HierarchicalV2Estimator.estimate, run, run_adaptive_pruning).
THEOREM BacktestTypeCorrect == Spec => []TypeOK
<1>1. BacktestTruths => TypeOK
  <2> SUFFICES ASSUME BacktestTruths PROVE TypeOK
    OBVIOUS
  <2>0. PassInv /\ JobInv /\ KeptInv /\ PhaseInv /\ LedgerInv /\ HeldOnFolds
    BY DEF BacktestTruths, BacktestInv
  <2>1. \A f \in folds :
          f.signal \in Signals /\ f.train \subseteq Signals /\ f.holding \subseteq study.days
    BY FoldsAreTyped
  <2>2. SignalsOf(folds) \subseteq Signals
    BY <2>1 DEF SignalsOf
  <2>3. /\ study \in Studies
        /\ phase \in {"plan", "estimate", "hold", "report", "prepare", "adapt"} \cup Ended
        /\ pass \in {"idle", "forward", "backward", "flat", "done", "failed"}
    BY <2>0 DEF PhaseInv, Phases, PassInv
  <2>4. IF pass = "idle"
        THEN job = None /\ <<forward, backward, flat>> = <<Empty, Empty, Empty>>
        ELSE job.mode \in Modes /\ job.window \in Signals
    BY <2>0, <2>2 DEF PassInv, JobInv
  <2>5. ASSUME NEW x \in DOMAIN estimates  PROVE EstimateTypeOK(estimates[x])
    BY <2>0, <2>2 DEF KeptInv, Whole, EstimateTypeOK
  <2>6. ASSUME NEW x \in DOMAIN prepared
        PROVE  EstimateTypeOK(prepared[x]) /\ x \in DOMAIN verdicts
    <3>1. x \in DOMAIN verdicts /\ Whole(prepared[x]) /\ prepared[x].window = x
      BY <2>0 DEF KeptInv
    <3>2. x \in SignalsOf(folds)
      BY <2>0, <3>1 DEF PhaseInv, SignalsOf, AfterBurnIn, ReportFolds
    <3> QED  BY <2>2, <3>1, <3>2 DEF Whole, EstimateTypeOK
  <2>7. ASSUME NEW a \in DOMAIN points, NEW p \in points[a]
        PROVE  p.day \in study.days /\ p.on \in DOMAIN estimates
    <3>1. PICK f \in folds : p.on = f.signal /\ p.day \in f.holding
      BY <2>0 DEF HeldOnFolds
    <3>2. SignalsOf(folds) \subseteq DOMAIN estimates
      BY <2>0 DEF LedgerInv, PhaseInv
    <3> QED  BY <2>1, <3>1, <3>2 DEF SignalsOf
  <2>8. DOMAIN adapted \subseteq DOMAIN estimates
    <3>1. ASSUME NEW x \in DOMAIN adapted  PROVE x \in DOMAIN estimates
      <4>1. phase \in {"adapt", "missing column", "adapted"} /\ x \in SignalsOf(folds)
        BY <2>0 DEF PhaseInv
      <4>2. phase \notin BeforeHolding
        BY <4>1 DEF BeforeHolding, Unplanned
      <4> QED  BY <2>0, <4>1, <4>2 DEF PhaseInv
    <3> QED  BY <3>1
  <2> QED  BY <2>1, <2>3, <2>4, <2>5, <2>6, <2>7, <2>8 DEF TypeOK
<1> QED  BY <1>1, BacktestsStaySound, PTL

-----------------------------------------------------------------------------
(* Flat estimates                                                          *)

\* A flat estimate fails by its own solve only: a diagnostic forward pass that fails at
\* any node, in _solve_forward_root_first, is dropped by _estimate_flat and the flat
\* solve goes on, unless a node's constraints are beyond classification.
THEOREM FlatAlwaysStandsAlone == Spec => []FlatStandsAlone
<1>1. BacktestTruths => FlatStandsAlone
  BY DEF BacktestTruths, BacktestInv, FlatFailedInv, FlatStandsAlone
<1> QED  BY <1>1, BacktestsStaySound, PTL

-----------------------------------------------------------------------------
(* One grid                                                                *)

\* The estimates of a run have the mode and the tree of the study, and the nodes of the
\* tree in every pass but a flat estimate's diagnostic one.
LEMMA ArmsOfTheRun ==
    ASSUME BacktestTruths, phase \notin BeforeHolding, NEW f \in folds
    PROVE  /\ f.signal \in DOMAIN estimates /\ Whole(estimates[f.signal])
           /\ estimates[f.signal].model = study.config
           /\ estimates[f.signal].mode = study.mode
BY DEF BacktestTruths, BacktestInv, PhaseInv, KeptInv, SignalsOf

LEMMA EqualArms ==
    ASSUME NEW d, NEW e, Whole(d), Whole(e), d.model = e.model, d.mode = e.mode,
           d.mode = "flat" => DOMAIN d.forward = DOMAIN e.forward,
           d.mode = "forward_backward" =>
               BenchmarkSleeves(d) # Zero /\ BenchmarkSleeves(e) # Zero
    PROVE  Arms(d) = Arms(e)
<1>1. DOMAIN d.forward = DOMAIN e.forward /\ DOMAIN d.backward = DOMAIN e.backward
  BY DEF Whole
<1>2. d.mode \in Modes
  BY DEF Whole
<1>3. CASE d.mode = "flat"
  BY <1>1, <1>3 DEF Arms
<1>4. CASE d.mode = "forward"
  BY <1>1, <1>4 DEF Arms
<1>5. CASE d.mode = "forward_backward"
  BY <1>1, <1>5 DEF Arms
<1> QED  BY <1>2, <1>3, <1>4, <1>5 DEF Modes

\* When all is held, every arm of a fold has the days of that fold.
LEMMA CurvesOfTheArms ==
    ASSUME BacktestTruths, phase = "no common grid", NEW arms,
           \A f \in folds : Arms(estimates[f.signal]) = arms
    PROVE  OneGrid(points)
<1>1. /\ PlannedOnce /\ LedgerInv /\ NotHeld = {} /\ phase # "plan"
  BY DEF BacktestTruths, BacktestInv, LedgerInv, BeforeHolding, Unplanned
<1> DEFINE held == UNION {f.holding : f \in folds}
<1>2. ASSUME NEW a \in DOMAIN points  PROVE {p.day : p \in points[a]} = held
  <2>1. ASSUME NEW p \in points[a]  PROVE p.day \in held
    BY <1>1 DEF LedgerInv
  <2>2. ASSUME NEW f \in folds, NEW d \in f.holding  PROVE \E p \in points[a] : p.day = d
    <3>1. Held(f)
      BY <1>1 DEF NotHeld
    <3>2. a \in Arms(estimates[f.signal]) => [day |-> d, on |-> f.signal] \in points[a]
      BY <1>1, <3>1 DEF LedgerInv
    <3>3. a \in arms
      <4>1. PICK g \in folds : a \in Arms(estimates[g.signal])
        BY <1>1 DEF LedgerInv
      <4> QED  BY <4>1
    <3> QED  BY <3>2, <3>3
  <2>3. \A d \in held : \E p \in points[a] : p.day = d
    BY <2>2
  <2> HIDE DEF held
  <2> QED  BY <2>1, <2>3
<1> QED  BY <1>2 DEF OneGrid

LEMMA GridIsKept ==
    ASSUME BacktestTruths, BenchmarkIsImplemented  PROVE GridIsLostByDiagnosticsOnly
<1> SUFFICES ASSUME BacktestTruths, BenchmarkIsImplemented, phase = "no common grid",
                    ~ \E f, g \in folds :
                          /\ estimates[f.signal].mode = "flat"
                          /\ DOMAIN estimates[f.signal].forward = {}
                          /\ DOMAIN estimates[g.signal].forward # {}
             PROVE  FALSE
  BY DEF GridIsLostByDiagnosticsOnly
<1>1. phase \notin BeforeHolding
  BY DEF BeforeHolding, Unplanned
<1>2. ASSUME NEW f \in folds, NEW g \in folds
      PROVE  Arms(estimates[f.signal]) = Arms(estimates[g.signal])
  <2> DEFINE d == estimates[f.signal]
             e == estimates[g.signal]
  <2>1. /\ f.signal \in DOMAIN estimates /\ g.signal \in DOMAIN estimates
        /\ Whole(d) /\ Whole(e) /\ d.model = e.model /\ d.mode = e.mode
    BY <1>1, ArmsOfTheRun
  <2>2. d.mode = "forward_backward" => BenchmarkSleeves(d) # Zero /\ BenchmarkSleeves(e) # Zero
    BY <2>1 DEF BenchmarkIsImplemented
  <2>3. d.mode = "flat" => DOMAIN d.forward = DOMAIN e.forward
    <3>1. SUFFICES ASSUME d.mode = "flat"  PROVE DOMAIN d.forward = DOMAIN e.forward
      OBVIOUS
    <3>2. DOMAIN d.forward \in {{}, d.model.nodes} /\ DOMAIN e.forward \in {{}, d.model.nodes}
      BY <2>1, <3>1 DEF Whole
    <3>3. DOMAIN d.forward = {} => DOMAIN e.forward = {}
      BY <3>1
    <3>4. DOMAIN e.forward = {} => DOMAIN d.forward = {}
      BY <2>1, <3>1
    <3> QED  BY <3>2, <3>3, <3>4
  <2> HIDE DEF d, e
  <2>4. Arms(d) = Arms(e)
    BY <2>1, <2>2, <2>3, EqualArms
  <2> QED  BY <2>4 DEF d, e
<1>3. \E arms : \A f \in folds : Arms(estimates[f.signal]) = arms
  BY <1>2
<1>4. OneGrid(points)
  BY <1>3, CurvesOfTheArms
<1> QED  BY <1>4 DEF BacktestTruths, BacktestInv, LedgerInv

\* When every fold was estimated, the curves of a run lose their common grid only in a
\* flat backtest, and only because the diagnostic forward pass failed in some folds and
\* not in others (_targets and run).  For every run in which the benchmark's sleeves are
\* never all zero, which SleevesKeepTheGrid of AuditProofs derives from what they are made of.
THEOREM GridAlwaysLostByDiagnostics ==
    Spec /\ []BenchmarkIsImplemented => []GridIsLostByDiagnosticsOnly
<1>1. BacktestTruths /\ BenchmarkIsImplemented => GridIsLostByDiagnosticsOnly
  BY GridIsKept
<1> QED  BY <1>1, BacktestsStaySound, PTL

-----------------------------------------------------------------------------
(* What a verdict is drawn from                                            *)

LEMMA NodesHaveProxies ==
    ASSUME NEW s \in Studies, NEW n \in NonRoot(s.config)
    PROVE  s.config.proxy[n] # None
<1>1. Valid(s.config) /\ n \in s.config.nodes /\ n # s.config.root
  BY StudiesAreOfTrees DEF NonRoot
<1> DEFINE parents == {p \in s.config.nodes : n \in s.config.children[p]}
<1>2. Cardinality(parents) = 1
  BY <1>1 DEF Valid, IsTree, OneParentEach
<1>3. parents # {}
  <2>1. SUFFICES ASSUME parents = {}  PROVE FALSE
    OBVIOUS
  <2> HIDE DEF parents
  <2> QED  BY <1>2, <2>1, FS_EmptySet
<1> QED  BY <1>1, <1>3 DEF Valid, IsTree, ChildrenHaveProxies

\* A node is compared with its proxy in every fold of a tree's estimates.
LEMMA NodeAndProxyAreHeld ==
    ASSUME BacktestTruths, phase \notin BeforeHolding, study.mode # "flat",
           NEW f \in folds, NEW n \in NonRoot(study.config)
    PROVE  {NodeArm("NODE", n), NodeArm("FATHER", n)} \subseteq Arms(estimates[f.signal])
<1> DEFINE e == estimates[f.signal]
<1>1. Whole(e) /\ e.model = study.config /\ e.mode = study.mode
  BY ArmsOfTheRun
<1>2. study \in Studies
  BY DEF BacktestTruths, HeldOnFolds
<1>3. n \in e.model.nodes /\ e.model.proxy[n] # None
  BY <1>1, <1>2, NodesHaveProxies DEF NonRoot
<1> HIDE DEF e
<1>4. e.mode \in {"forward", "forward_backward"} /\ n \in DOMAIN e.forward
      /\ (e.mode = "forward_backward" => n \in DOMAIN e.backward)
  BY <1>1, <1>3 DEF Whole, Modes
<1>5. NodeArm("FATHER", n) \in Arms(e)
  BY <1>3 DEF Arms
<1>6. NodeArm("NODE", n) \in Arms(e)
  <2>1. CASE e.mode = "forward"
    BY <1>4, <2>1 DEF Arms
  <2>2. CASE e.mode = "forward_backward"
    BY <1>4, <2>2 DEF Arms
  <2> QED  BY <1>4, <2>1, <2>2
<1> QED  BY <1>5, <1>6 DEF e

\* The day the burn-in is counted from was held, and its curves are known.
LEMMA FirstHeldDayIsHeld ==
    ASSUME BacktestTruths, phase \notin BeforeHolding \cup {"hold"}, folds # {},
           study.mode # "flat", NEW n \in NonRoot(study.config)
    PROVE  /\ FirstHeldDay \in Nat
           /\ {NodeArm("NODE", n), NodeArm("FATHER", n)} \subseteq DOMAIN points
           /\ FirstHeldDay \in Curve(NodeArm("NODE", n)) \cap Curve(NodeArm("FATHER", n))
<1> DEFINE held == UNION {f.holding : f \in folds}
<1>1. /\ PlannedOnce /\ LedgerInv /\ phase # "plan" /\ study \in Studies
      /\ \A f \in folds : f.holding \subseteq study.days
  BY FoldsAreTyped DEF BacktestTruths, BacktestInv, BeforeHolding, Unplanned, PlannedOnce
<1>2. held \subseteq Nat /\ held # {}
  <2>1. study.days \subseteq Nat
    BY <1>1, ScheduleIsNumbered
  <2> QED  BY <1>1, <2>1, FoldsHold
<1>3. FirstHeldDay \in held
  <2>1. FirstHeldDay = Min(held)
    BY DEF FirstHeldDay
  <2> HIDE DEF held
  <2> QED  BY <1>2, <2>1, FirstExists
<1>4. PICK f \in folds : FirstHeldDay \in f.holding
  BY <1>3
<1>5. Held(f)
  BY <1>1 DEF LedgerInv, NotHeld
<1>6. ASSUME NEW a \in Arms(estimates[f.signal])
      PROVE  a \in DOMAIN points /\ FirstHeldDay \in Curve(a)
  <2>1. a \in DOMAIN points /\ [day |-> FirstHeldDay, on |-> f.signal] \in points[a]
    BY <1>1, <1>4, <1>5 DEF LedgerInv
  <2> QED  BY <2>1 DEF Curve
<1>7. {NodeArm("NODE", n), NodeArm("FATHER", n)} \subseteq Arms(estimates[f.signal])
  BY NodeAndProxyAreHeld
<1> QED  BY <1>2, <1>3, <1>6, <1>7

\* The burn-in buys evidence: a verdict of _prepare_fold is never drawn on a node without
\* an out-of-sample day of its own and of its proxy, and each of those days was earned on
\* a fold before the one decided and before its signal, on whose day that fold is still
\* held (run_adaptive_pruning, accumulated_node_metrics).
THEOREM BurnInAlwaysBuysEvidence == Spec => []BurnInBuysEvidence
<1>1. BacktestTruths => BurnInBuysEvidence
  <2> SUFFICES ASSUME BacktestTruths, NEW x \in InHand, study.mode # "flat",
                      study.evidence = None, NEW n \in NonRoot(study.config)
               PROVE  /\ Evidence(n, x) # {}
                      /\ \A p \in points[NodeArm("NODE", n)] :
                           p.day \in Evidence(n, x) => p.day < x /\ p.on < x
    BY DEF BurnInBuysEvidence
  <2>1. x \in DOMAIN verdicts
    BY DEF InHand
  <2>2. phase \notin BeforeHolding \cup {"hold"}
    BY <2>1 DEF BacktestTruths, BacktestInv, PhaseInv, Adapting, BeforeHolding, Unplanned
  <2>3. PICK g \in AfterBurnIn : x = g.signal
    BY <2>1 DEF BacktestTruths, BacktestInv, PhaseInv, SignalsOf
  <2>4. g \in folds /\ x >= FirstHeldDay + study.burnIn
    BY <2>3 DEF AfterBurnIn, ReportFolds, BurnInCutoff
  <2>5. /\ FirstHeldDay \in Nat
        /\ {NodeArm("NODE", n), NodeArm("FATHER", n)} \subseteq DOMAIN points
        /\ FirstHeldDay \in Curve(NodeArm("NODE", n)) \cap Curve(NodeArm("FATHER", n))
    BY <2>2, <2>4, FirstHeldDayIsHeld
  <2>6. x \in Nat /\ study.burnIn \in Nat \ {0}
    BY <2>3, <2>4, WindowsAreApart, StudiesAreOfTrees DEF BacktestTruths, HeldOnFolds
  <2>7. FirstHeldDay < x
    BY <2>4, <2>5, <2>6
  <2>8. FirstHeldDay \in Evidence(n, x)
    BY <2>5, <2>7 DEF Evidence
  <2>9. ASSUME NEW p \in points[NodeArm("NODE", n)], p.day \in Evidence(n, x)
        PROVE  p.day < x /\ p.on < x
    <3>1. p.day < x
      BY <2>5, <2>9 DEF Evidence
    <3>2. PICK f \in folds : p.on = f.signal /\ p.day \in f.holding
      BY <2>5 DEF BacktestTruths, HeldOnFolds
    <3>3. study \in Studies /\ f \in PlannedFolds(study)
      BY DEF BacktestTruths, HeldOnFolds
    <3>4. f.signal \in Nat /\ p.day > f.signal /\ p.day \in study.days
      BY <3>2, <3>3, WindowsAreApart
    <3>5. p.day \in Nat
      BY <3>3, <3>4, ScheduleIsNumbered
    <3> QED  BY <2>6, <3>1, <3>2, <3>4, <3>5
  <2> QED  BY <2>8, <2>9
<1> QED  BY <1>1, BacktestsStaySound, PTL

-----------------------------------------------------------------------------
(* Series along the tree                                                   *)

SeriesOf(m, locals, columns, s, n) ==
    LocalSeries(m, n, locals[n], columns, [k \in m.children[n] \cap DOMAIN locals |-> s[k]])

IsSeries(m, locals, columns, s) ==
    s = [n \in DOMAIN locals |-> SeriesOf(m, locals, columns, s, n)]

\* Local weights of nodes whose children come after them.
Downwards(m, locals) ==
    /\ DOMAIN locals \subseteq Nat /\ IsFiniteSet(DOMAIN locals)
    /\ \A n \in DOMAIN locals : \A k \in m.children[n] \cap DOMAIN locals : n < k

\* The last nodes first: series from j on.
PartSeries(m, locals, columns, s, j) ==
    s = [n \in {i \in DOMAIN locals : j <= i} |-> SeriesOf(m, locals, columns, s, n)]

LEMMA SeriesBegin ==
    ASSUME NEW m, NEW locals, NEW columns, NEW j \in Nat, \A i \in DOMAIN locals : ~(j <= i)
    PROVE  \E s : PartSeries(m, locals, columns, s, j)
<1> DEFINE s == [n \in {} |-> 0]
<1>1. {i \in DOMAIN locals : j <= i} = {}
  OBVIOUS
<1>2. s = [n \in {} |-> SeriesOf(m, locals, columns, s, n)]
  OBVIOUS
<1>3. PartSeries(m, locals, columns, s, j)
  BY <1>1, <1>2 DEF PartSeries
<1> QED  BY <1>3

LEMMA SeriesGrow ==
    ASSUME NEW m, NEW locals, NEW columns, Downwards(m, locals), NEW j \in Nat, NEW f,
           PartSeries(m, locals, columns, f, j + 1)
    PROVE  \E s : PartSeries(m, locals, columns, s, j)
<1> DEFINE top == {i \in DOMAIN locals : j <= i}
           above == {i \in DOMAIN locals : j + 1 <= i}
           s == [n \in top |-> SeriesOf(m, locals, columns, f, n)]
<1>1. f = [n \in above |-> SeriesOf(m, locals, columns, f, n)]
  BY DEF PartSeries
<1>2. above \subseteq top
  BY DEF Downwards
<1>3. \A n \in above : f[n] = s[n]
  <2> HIDE DEF above
  <2>1. \A n \in above : f[n] = SeriesOf(m, locals, columns, f, n)
    BY <1>1
  <2> QED  BY <1>2, <2>1
<1>4. ASSUME NEW n \in top
      PROVE  SeriesOf(m, locals, columns, f, n) = SeriesOf(m, locals, columns, s, n)
  <2>1. ASSUME NEW k \in m.children[n] \cap DOMAIN locals  PROVE f[k] = s[k]
    <3>1. n < k /\ j <= n /\ n \in Nat /\ k \in Nat
      BY DEF Downwards
    <3>2. k \in above
      BY <3>1
    <3> HIDE DEF above, s
    <3> QED  BY <1>3, <3>2
  <2> HIDE DEF s
  <2>2. [k \in m.children[n] \cap DOMAIN locals |-> f[k]]
          = [k \in m.children[n] \cap DOMAIN locals |-> s[k]]
    BY <2>1
  <2> QED  BY <2>2 DEF SeriesOf
<1>5. s = [n \in top |-> SeriesOf(m, locals, columns, s, n)]
  <2>1. [n \in top |-> SeriesOf(m, locals, columns, f, n)]
          = [n \in top |-> SeriesOf(m, locals, columns, s, n)]
    <3> HIDE DEF s, top
    <3> QED  BY <1>4
  <2> QED  BY <2>1
<1>6. PartSeries(m, locals, columns, s, j)
  <2> HIDE DEF s
  <2> QED  BY <1>5 DEF PartSeries
<1> QED  BY <1>6

LEMMA SeriesExist ==
    ASSUME NEW m, NEW locals, NEW columns, Downwards(m, locals)
    PROVE  IsSeries(m, locals, columns, SyntheticSeries(m, locals, columns))
<1>1. PICK last \in Nat : \A i \in DOMAIN locals : i < last
  <2>1. CASE DOMAIN locals = {}
    BY <2>1
  <2>2. CASE DOMAIN locals # {}
    <3> DEFINE D == DOMAIN locals
    <3>1. D \subseteq Nat /\ IsFiniteSet(D) /\ D # {}
      BY <2>2 DEF Downwards
    <3> HIDE DEF D
    <3>2. Max(D) \in D /\ \A y \in D : y <= Max(D)
      BY <3>1, LastExists
    <3>3. PICK top \in D : \A y \in D : y <= top
      BY <3>2
    <3>4. top + 1 \in Nat /\ \A y \in D : y < top + 1
      BY <3>1, <3>3
    <3> QED  BY <3>4 DEF D
  <2> QED  BY <2>1, <2>2
<1> DEFINE bad == {j \in 0..last : ~ \E s : PartSeries(m, locals, columns, s, j)}
           j == Max(bad)
<1>2. bad = {}
  <2> SUFFICES ASSUME bad # {}  PROVE FALSE
    OBVIOUS
  <2>1. bad \subseteq Nat /\ bad \subseteq 0..last /\ IsFiniteSet(bad)
    <3>1. IsFiniteSet(0..last) /\ bad \subseteq 0..last /\ 0..last \subseteq Nat
      <4>1. IsFiniteSet(0..last)
        BY FS_Interval
      <4> QED  BY <4>1
    <3> HIDE DEF bad
    <3> QED  BY <3>1, FS_Subset
  <2>2. j \in bad /\ \A y \in bad : y <= j
    <3> HIDE DEF bad
    <3> QED  BY <2>1, LastExists
  <2> HIDE DEF j
  <2>3. j \in 0..last /\ ~ \E s : PartSeries(m, locals, columns, s, j)
    BY <2>2
  <2>4. CASE j = last
    <3>1. \A i \in DOMAIN locals : ~(last <= i)
      BY <1>1 DEF Downwards
    <3> QED  BY <2>3, <2>4, <3>1, SeriesBegin
  <2>5. CASE j # last
    <3>1. j + 1 \in 0..last /\ ~(j + 1 <= j) /\ j \in Nat
      BY <2>3, <2>5
    <3>2. j + 1 \notin bad
      <4> HIDE DEF bad
      <4> QED  BY <2>2, <3>1
    <3>3. PICK f : PartSeries(m, locals, columns, f, j + 1)
      BY <3>1, <3>2
    <3> QED  BY <2>3, <3>1, <3>3, SeriesGrow
  <2> QED  BY <2>4, <2>5
<1>3. PICK s : PartSeries(m, locals, columns, s, 0)
  BY <1>2
<1>4. {i \in DOMAIN locals : 0 <= i} = DOMAIN locals
  BY DEF Downwards
<1>5. IsSeries(m, locals, columns, s)
  BY <1>3, <1>4 DEF PartSeries, IsSeries
<1>6. SyntheticSeries(m, locals, columns) = CHOOSE x : IsSeries(m, locals, columns, x)
  BY DEF SyntheticSeries, IsSeries, SeriesOf
<1> QED  BY <1>5, <1>6

\* The series of a node depends on the nodes below it only.
LEMMA SeriesAgree ==
    ASSUME NEW m, NEW columns, NEW more, NEW less, NEW s, NEW t, Downwards(m, more),
           IsSeries(m, more, columns, s), IsSeries(m, less, columns, t),
           DOMAIN less \subseteq DOMAIN more,
           \A n \in DOMAIN less : /\ less[n] = more[n]
                                  /\ m.children[n] \cap DOMAIN more \subseteq DOMAIN less
    PROVE  \A n \in DOMAIN less : t[n] = s[n]
<1> DEFINE bad == {n \in DOMAIN less : t[n] # s[n]}
           n == Max(bad)
<1> SUFFICES ASSUME bad # {}  PROVE FALSE
  OBVIOUS
<1>1. bad \subseteq Nat /\ IsFiniteSet(bad)
  BY FS_Subset DEF Downwards
<1>2. n \in bad /\ \A y \in bad : y <= n
  <2> HIDE DEF bad
  <2> QED  BY <1>1, LastExists
<1> HIDE DEF n
<1>3. n \in DOMAIN less /\ n \in DOMAIN more /\ t[n] # s[n] /\ n \in Nat
  BY <1>1, <1>2
<1>4. t[n] = SeriesOf(m, less, columns, t, n) /\ s[n] = SeriesOf(m, more, columns, s, n)
  BY <1>3 DEF IsSeries
<1>5. m.children[n] \cap DOMAIN less = m.children[n] \cap DOMAIN more
  BY <1>3
<1>6. ASSUME NEW k \in m.children[n] \cap DOMAIN more  PROVE t[k] = s[k]
  <2>1. n < k /\ k \in Nat
    BY <1>3 DEF Downwards
  <2>2. k \notin bad
    <3>1. ~(k <= n)
      BY <1>3, <2>1
    <3> HIDE DEF bad
    <3> QED  BY <1>2, <3>1
  <2> QED  BY <1>3, <1>5, <2>2
<1>7. [k \in m.children[n] \cap DOMAIN less |-> t[k]]
        = [k \in m.children[n] \cap DOMAIN more |-> s[k]]
  BY <1>5, <1>6
<1> QED  BY <1>3, <1>4, <1>7 DEF SeriesOf

-----------------------------------------------------------------------------
(* Solved directly from the leaves up                                      *)

\* A node of estimate_direct_bottom_up, from those of its children.
DirectNode(answers, e, n, kids) ==
    LET series == [k \in e.model.children[n] |-> kids[k].series]
        kind   == IF e.model.children[n] = {} THEN "forward" ELSE "backward"
        posed  == Problem(e.model, n, kind, e.window, series, None)
        known  == /\ \A k \in DOMAIN kids : kids[k].known
                  /\ posed \in DOMAIN answers
                  /\ answers[posed] # Infeasible
    IN IF known
       THEN [known  |-> TRUE,
             local  |-> answers[posed],
             series |-> LocalSeries(e.model, n, answers[posed], e.columns, series)]
       ELSE [known |-> FALSE, local |-> Empty, series |-> Zero]

KidsOf(e, n, d) == [k \in e.model.children[n] |-> d[k]]

IsDirect(answers, e, d) ==
    d = [n \in e.model.nodes |-> DirectNode(answers, e, n, KidsOf(e, n, d))]

\* What the backward pass made of a node.
Made(e, n) ==
    [known  |-> TRUE,
     local  |-> e.backward[n],
     series |-> SyntheticSeries(e.model, e.backward, e.columns)[n]]

RefersToNoRoot(m) == \A n \in m.nodes : m.reference[n] # "forward_root_reference"

\* The tree an estimate is of, and what it made of it.
LEMMA BackwardIsDownwards ==
    ASSUME NEW e, Whole(e), Proper(e.model), e.mode = "forward_backward"
    PROVE  /\ DOMAIN e.backward = e.model.nodes /\ Downwards(e.model, e.backward)
           /\ \A n \in e.model.nodes : Downwards(e.model, Below(e, n))
<1>1. DOMAIN e.backward = e.model.nodes
  BY DEF Whole
<1>2. e.model.nodes \subseteq Nat /\ IsFiniteSet(e.model.nodes) /\ ParentsFirst(e.model)
  BY DEF Proper
<1>3. Downwards(e.model, e.backward)
  BY <1>1, <1>2 DEF Downwards, ParentsFirst
<1>4. ASSUME NEW n \in e.model.nodes  PROVE Downwards(e.model, Below(e, n))
  <2>1. DOMAIN Below(e, n) = {i \in e.model.nodes : i > n}
    BY <1>1 DEF Below
  <2>2. IsFiniteSet({i \in e.model.nodes : i > n})
    BY <1>2, FS_Subset
  <2> QED  BY <1>2, <2>1, <2>2 DEF Downwards, ParentsFirst
<1> QED  BY <1>1, <1>3, <1>4

\* A node was solved over the same children's series that its parents' synthetic ones are of.
LEMMA SameChildSeries ==
    ASSUME NEW e, Whole(e), Proper(e.model), e.mode = "forward_backward",
           NEW n \in e.model.nodes, NEW k \in e.model.children[n]
    PROVE  SyntheticSeries(e.model, Below(e, n), e.columns)[k]
             = SyntheticSeries(e.model, e.backward, e.columns)[k]
<1> DEFINE less == Below(e, n)
           t == SyntheticSeries(e.model, less, e.columns)
           s == SyntheticSeries(e.model, e.backward, e.columns)
<1>1. /\ DOMAIN e.backward = e.model.nodes
      /\ Downwards(e.model, e.backward) /\ Downwards(e.model, less)
  BY BackwardIsDownwards
<1>2. /\ DOMAIN less = {i \in e.model.nodes : i > n}
      /\ \A i \in DOMAIN less : less[i] = e.backward[i]
  BY <1>1 DEF Below
<1>3. e.model.nodes \subseteq Nat /\ ParentsFirst(e.model)
  BY DEF Proper
<1> HIDE DEF less
<1>4. IsSeries(e.model, less, e.columns, t) /\ IsSeries(e.model, e.backward, e.columns, s)
  BY <1>1, SeriesExist
<1>5. ASSUME NEW i \in DOMAIN less
      PROVE  e.model.children[i] \cap DOMAIN e.backward \subseteq DOMAIN less
  <2>1. i \in e.model.nodes /\ i > n /\ i \in Nat /\ n \in Nat
    BY <1>2, <1>3
  <2>2. \A j \in e.model.children[i] : j \in e.model.nodes /\ i < j /\ j \in Nat
    BY <1>3, <2>1 DEF ParentsFirst
  <2> QED  BY <1>2, <2>1, <2>2
<1>6. DOMAIN less \subseteq DOMAIN e.backward
  BY <1>1, <1>2
<1>7. k \in DOMAIN less
  BY <1>2, <1>3 DEF ParentsFirst
<1> HIDE DEF s, t
<1>8. \A i \in DOMAIN less : t[i] = s[i]
  BY <1>1, <1>2, <1>4, <1>5, <1>6, SeriesAgree
<1> QED  BY <1>7, <1>8 DEF s, t, less

LEMMA MadeDirectly ==
    ASSUME NEW answers, NEW e, SolvedBy(answers, e), Whole(e), Proper(e.model),
           e.mode = "forward_backward", RefersToNoRoot(e.model),
           NEW n \in e.model.nodes, NEW kids,
           kids = [k \in e.model.children[n] |-> Made(e, k)]
    PROVE  DirectNode(answers, e, n, kids) = Made(e, n)
<1> DEFINE m == e.model
           S == SyntheticSeries(m, e.backward, e.columns)
           series == [k \in m.children[n] |-> kids[k].series]
           kind   == IF m.children[n] = {} THEN "forward" ELSE "backward"
           posed  == Problem(m, n, kind, e.window, series, None)
<1>1. /\ DOMAIN e.backward = m.nodes /\ DOMAIN e.forward = m.nodes
      /\ \A k \in m.children[n] : k \in m.nodes
  BY DEF Whole, Proper, ParentsFirst
<1>2. series = [k \in m.children[n] |-> S[k]]
  <2>1. \A k \in m.children[n] : kids[k].series = S[k]
    BY DEF Made
  <2> QED  BY <2>1
<1>3. m.reference[n] # "forward_root_reference"
  BY DEF RefersToNoRoot
<1>4. Answered(answers, posed, e.backward[n])
  <2>1. CASE m.children[n] = {}
    <3>1. Answered(answers, ForwardPosed(e, n), e.forward[n]) /\ e.backward[n] = e.forward[n]
      BY <1>1, <2>1 DEF SolvedBy
    <3>2. ForwardPosed(e, n) = posed
      <4>1. Columns(m, n, "forward") = {Raw(i) : i \in m.instruments[n]}
        BY <2>1 DEF Columns
      <4>2. \A column \in Columns(m, n, "forward") : column[2] = "raw"
        BY <4>1 DEF Raw
      <4>3. Frame(m, n, "forward", Empty) = Frame(m, n, "forward", series)
        BY <4>2 DEF Frame
      <4>4. kind = "forward"
        BY <2>1
      <4> HIDE DEF series, kind
      <4> QED  BY <1>3, <4>3, <4>4 DEF ForwardPosed, Problem
    <3> QED  BY <3>1, <3>2
  <2>2. CASE m.children[n] # {}
    <3> DEFINE T == SyntheticSeries(m, Below(e, n), e.columns)
    <3>1. Answered(answers, BackwardPosed(e, n), e.backward[n])
      BY <1>1, <2>2 DEF SolvedBy
    <3>2. \A k \in m.children[n] : T[k] = series[k]
      BY <1>2, SameChildSeries
    <3>3. ASSUME NEW column \in Columns(m, n, "backward"), column[2] # "raw"
          PROVE  (CHOOSE k \in m.children[n] : Synth(m.proxy[k]) = column) \in m.children[n]
      <4>1. \E k \in m.children[n] : Synth(m.proxy[k]) = column
        BY <3>3 DEF Columns, ChildColumn, Raw
      <4> QED  BY <4>1
    <3> HIDE DEF series, T
    <3>4. Frame(m, n, "backward", T) = Frame(m, n, "backward", series)
      BY <3>2, <3>3 DEF Frame
    <3>5. kind = "backward"
      BY <2>2
    <3> HIDE DEF kind
    <3>6. BackwardPosed(e, n) = posed
      BY <1>3, <3>4, <3>5 DEF BackwardPosed, Problem, T
    <3> QED  BY <3>1, <3>6
  <2> QED  BY <2>1, <2>2
<1>5. LocalSeries(m, n, e.backward[n], e.columns, series) = S[n]
  <2>1. IsSeries(m, e.backward, e.columns, S)
    BY BackwardIsDownwards, SeriesExist
  <2> HIDE DEF S, series
  <2>2. S[n] = SeriesOf(m, e.backward, e.columns, S, n)
    BY <1>1, <2>1 DEF IsSeries
  <2>3. m.children[n] \cap DOMAIN e.backward = m.children[n]
    BY <1>1
  <2> QED  BY <1>2, <2>2, <2>3 DEF SeriesOf
<1>6. \A k \in DOMAIN kids : kids[k].known
  BY DEF Made
<1> HIDE DEF posed
<1>7. posed \in DOMAIN answers /\ answers[posed] = e.backward[n] /\ answers[posed] # Infeasible
  BY <1>4 DEF Answered
<1>8. DirectNode(answers, e, n, kids)
        = [known  |-> TRUE,
           local  |-> answers[posed],
           series |-> LocalSeries(m, n, answers[posed], e.columns, series)]
  BY <1>6, <1>7 DEF DirectNode, posed
<1> HIDE DEF series
<1> QED  BY <1>5, <1>7, <1>8 DEF Made

\* What estimate_direct_bottom_up makes of a tree is what the backward pass made of it.
LEMMA DirectIsBackward ==
    ASSUME NEW answers, NEW e, SolvedBy(answers, e), Whole(e), Proper(e.model),
           e.mode = "forward_backward", RefersToNoRoot(e.model), NEW d, IsDirect(answers, e, d)
    PROVE  \A n \in e.model.nodes : d[n] = Made(e, n)
<1> DEFINE bad == {n \in e.model.nodes : d[n] # Made(e, n)}
           n == Max(bad)
<1> SUFFICES ASSUME bad # {}  PROVE FALSE
  OBVIOUS
<1>1. e.model.nodes \subseteq Nat /\ IsFiniteSet(e.model.nodes) /\ ParentsFirst(e.model)
  BY DEF Proper
<1>2. n \in bad /\ \A y \in bad : y <= n
  <2>1. bad \subseteq Nat /\ IsFiniteSet(bad)
    BY <1>1, FS_Subset
  <2> HIDE DEF bad
  <2> QED  BY <2>1, LastExists
<1> HIDE DEF n
<1>3. n \in e.model.nodes /\ n \in Nat /\ d[n] # Made(e, n)
  BY <1>1, <1>2
<1>4. ASSUME NEW k \in e.model.children[n]  PROVE d[k] = Made(e, k)
  <2>1. k \in e.model.nodes /\ n < k /\ k \in Nat
    BY <1>1, <1>3 DEF ParentsFirst
  <2>2. k \notin bad
    <3>1. ~(k <= n)
      BY <1>3, <2>1
    <3> HIDE DEF bad
    <3> QED  BY <1>2, <3>1
  <2> QED  BY <2>1, <2>2
<1>5. KidsOf(e, n, d) = [k \in e.model.children[n] |-> Made(e, k)]
  BY <1>4 DEF KidsOf
<1>6. d[n] = DirectNode(answers, e, n, KidsOf(e, n, d))
  BY <1>3 DEF IsDirect
<1> QED  BY <1>3, <1>5, <1>6, MadeDirectly

LEMMA DirectExists ==
    ASSUME NEW answers, NEW e, SolvedBy(answers, e), Whole(e), Proper(e.model),
           e.mode = "forward_backward", RefersToNoRoot(e.model)
    PROVE  \E d : IsDirect(answers, e, d)
<1> DEFINE d == [n \in e.model.nodes |-> Made(e, n)]
<1>1. ASSUME NEW n \in e.model.nodes
      PROVE  DirectNode(answers, e, n, KidsOf(e, n, d)) = Made(e, n)
  <2>1. \A k \in e.model.children[n] : d[k] = Made(e, k)
    BY DEF Proper, ParentsFirst
  <2> HIDE DEF d
  <2>2. KidsOf(e, n, d) = [k \in e.model.children[n] |-> Made(e, k)]
    BY <2>1 DEF KidsOf
  <2> QED  BY <2>2, MadeDirectly
<1>2. IsDirect(answers, e, d)
  <2>1. d = [n \in e.model.nodes |-> Made(e, n)]
    OBVIOUS
  <2> HIDE DEF d
  <2> QED  BY <1>1, <2>1 DEF IsDirect
<1> QED  BY <1>2

\* What forward_backward returns owes nothing to its forward pass: where no node refers to
\* the forward root, estimate_direct_bottom_up, which has none, finds the same portfolio,
\* for every tree and whatever the solver answers.
THEOREM ForwardIsAlwaysDiagnostic == Spec => []ForwardIsDiagnostic
<1>1. BacktestInv => ForwardIsDiagnostic
  <2> SUFFICES ASSUME BacktestInv, NEW e \in Finished, e.mode = "forward_backward",
                      \A n \in e.model.nodes : e.model.reference[n] # "forward_root_reference"
               PROVE  /\ DirectBottomUp(e)[e.model.root].known
                      /\ Terminal(e)
                           = Compose(e.model,
                                     [n \in e.model.nodes |-> DirectBottomUp(e)[n].local],
                                     "backward")[e.model.root]
    BY DEF ForwardIsDiagnostic
  <2>1. e = Estimate /\ pass = "done"
    BY DEF Finished
  <2>2. Whole(e) /\ Proper(e.model) /\ SolvedBy(solved, e)
    <3>1. Whole(Estimate) /\ Proper(job.model) /\ SolvedBy(solved, Estimate)
      BY <2>1 DEF BacktestInv, PassInv, SolvedInv
    <3>2. Estimate.model = job.model
      BY DEF Estimate
    <3> QED  BY <2>1, <3>1, <3>2
  <2>3. RefersToNoRoot(e.model)
    BY DEF RefersToNoRoot
  <2> DEFINE d == DirectBottomUp(e)
  <2>4. IsDirect(solved, e, d)
    <3>1. DirectBottomUp(e) = CHOOSE x : IsDirect(solved, e, x)
      BY DEF DirectBottomUp, IsDirect, DirectNode, KidsOf
    <3>2. \E x : IsDirect(solved, e, x)
      BY <2>2, <2>3, DirectExists
    <3> QED  BY <3>1, <3>2
  <2> HIDE DEF d
  <2>5. \A n \in e.model.nodes : d[n] = Made(e, n)
    BY <2>2, <2>3, <2>4, DirectIsBackward
  <2>6. e.model.root \in e.model.nodes
    BY <2>2 DEF Proper
  <2>7. \A n \in e.model.nodes : Made(e, n).known /\ Made(e, n).local = e.backward[n]
    BY DEF Made
  <2>8. d[e.model.root].known
    BY <2>5, <2>6, <2>7
  <2>9. [n \in e.model.nodes |-> d[n].local] = e.backward
    <3>1. e.backward = [n \in e.model.nodes |-> e.backward[n]]
      BY <2>2 DEF Whole, IsFunction
    <3>2. \A n \in e.model.nodes : d[n].local = e.backward[n]
      BY <2>5, <2>7
    <3> QED  BY <3>1, <3>2
  <2>10. Terminal(e) = Compose(e.model, e.backward, "backward")[e.model.root]
    BY DEF Terminal
  <2> QED  BY <2>8, <2>9, <2>10 DEF d
<1> QED  BY <1>1, BacktestsStaySound, PTL DEF BacktestTruths
=============================================================================
