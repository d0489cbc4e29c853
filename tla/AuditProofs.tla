---------------------------- MODULE AuditProofs -----------------------------
(***************************************************************************)
(* What an estimate's weights add up to, for every tree and every solver   *)
(* whose answers are allocations: a node's synthetic series is what it     *)
(* holds, terminal weights and cash are one, and the nodes' cash, at their *)
(* global weights, is the portfolio's.                                     *)
(***************************************************************************)
EXTENDS BacktestProofs, SumProofs

-----------------------------------------------------------------------------
(* What the nodes of a tree are allocated over                             *)

Fields == {"root", "nodes", "children", "instruments", "proxy", "financed"}

Reserved(s) == {Cash} \cup {CashAt(n) : n \in s.config.nodes}

\* A tree of a study: its own, a contraction of it, or its flat one.
LaidOut(s, m) ==
    /\ Proper(m) /\ m.nodes \subseteq s.config.nodes /\ m.root = s.config.root
    /\ Fields \subseteq DOMAIN m
    /\ m.financed = s.config.financed
    /\ \A n \in m.nodes : m.instruments[n] \subseteq Exposures(s.config)
    /\ \A n \in m.nodes : \A k \in m.children[n] :
         /\ m.proxy[k] \in Exposures(s.config) \ m.instruments[n]
         /\ m.proxy[k] # None /\ ParentIs(m, k, n)
         /\ \A l \in m.children[n] : m.proxy[k] = m.proxy[l] => k = l
    /\ \A n \in NonRoot(m) : ParentIs(m, n, Parent(m, n))

LEMMA ProxiesDiffer ==
    ASSUME NEW m, ColumnsAreDistinct(m), NEW n \in m.nodes, IsFiniteSet(m.children[n]),
           NEW k \in m.children[n], NEW l \in m.children[n], m.proxy[k] = m.proxy[l]
    PROVE  k = l
<1> DEFINE C == m.children[n]
           P == ChildProxies(m, n)
           f == [i \in C |-> m.proxy[i]]
<1>1. f \in Surjection(C, P)
  BY DEF Surjection, ChildProxies
<1>2. Cardinality(C) = Cardinality(P)
  BY DEF ColumnsAreDistinct
<1> HIDE DEF P, f
<1>3. f \in Injection(C, P)
  BY <1>1, <1>2, FS_SurjSameCardinalityImpliesInj
<1> QED  BY <1>3 DEF Injection, IsInjective, f

\* A valid tree over the exposures of a study is one of its trees.
LEMMA ValidIsLaidOut ==
    ASSUME NEW s \in Studies, NEW m, Valid(m), Proper(m),
           Fields \subseteq DOMAIN m,
           m.nodes \subseteq s.config.nodes, m.root = s.config.root,
           m.financed = s.config.financed,
           \A n \in m.nodes : m.instruments[n] \subseteq Exposures(s.config)
                              /\ m.proxy[n] = s.config.proxy[n]
    PROVE  LaidOut(s, m)
<1>1. IsTree(m) /\ ColumnsAreDistinct(m) /\ IsFiniteSet(m.nodes) /\ ParentsFirst(m)
  BY DEF Valid, Proper
<1>2. \A n \in NonRoot(m) : ParentIs(m, n, Parent(m, n))
  BY <1>1, ParentIsOne
<1>3. ASSUME NEW n \in m.nodes, NEW k \in m.children[n]
      PROVE  /\ m.proxy[k] \in Exposures(s.config) \ m.instruments[n]
             /\ m.proxy[k] # None /\ ParentIs(m, k, n)
             /\ \A l \in m.children[n] : m.proxy[k] = m.proxy[l] => k = l
  <2>1. k \in m.nodes /\ m.proxy[k] # None /\ m.proxy[k] = s.config.proxy[k]
    BY <1>1 DEF IsTree, ChildrenHaveProxies, ParentsFirst
  <2>2. m.proxy[k] \in Exposures(s.config)
    BY <2>1 DEF Exposures, Proxies
  <2>3. m.proxy[k] \notin m.instruments[n]
    BY <1>1 DEF ColumnsAreDistinct, ChildProxies
  <2>4. k \in NonRoot(m)
    BY <1>1, <2>1, RootHasNoParent DEF NonRoot
  <2>5. ParentIs(m, k, n)
    BY <1>2, <2>4 DEF ParentIs
  <2>6. IsFiniteSet(m.children[n])
    <3>1. m.children[n] \in SUBSET m.nodes
      BY <1>1 DEF IsTree, ChildrenAreDeclared
    <3> QED  BY <1>1, <3>1, FS_Subset
  <2>7. \A l \in m.children[n] : m.proxy[k] = m.proxy[l] => k = l
    BY <1>1, <2>6, ProxiesDiffer
  <2> QED  BY <2>1, <2>2, <2>3, <2>5, <2>7
<1> QED  BY <1>2, <1>3 DEF LaidOut

LEMMA StudyIsLaidOut == ASSUME NEW s \in Studies  PROVE LaidOut(s, s.config)
<1>1. Valid(s.config) /\ Proper(s.config)
  BY StudiesAreOfTrees, StudyIsProper
<1>2. Fields \subseteq DOMAIN s.config
  BY StudiesAreOfTrees DEF Fields
<1>3. \A n \in s.config.nodes : s.config.instruments[n] \subseteq Exposures(s.config)
  BY DEF Exposures, TerminalInstruments
<1> QED  BY <1>1, <1>2, <1>3, ValidIsLaidOut

LEMMA CandidateIsLaidOut ==
    ASSUME NEW s \in Studies, NEW v, Valid(PruneConfig(s.config, v))
    PROVE  LaidOut(s, PruneConfig(s.config, v))
<1> DEFINE m == PruneConfig(s.config, v)
<1>1. Fields \subseteq DOMAIN s.config
  BY StudiesAreOfTrees DEF Fields
<1>2. /\ Fields \subseteq DOMAIN m
      /\ m.financed = s.config.financed
  BY <1>1 DEF PruneConfig, Fields
<1>3. Proper(m) /\ m.nodes \subseteq s.config.nodes /\ m.root = s.config.root
  BY CandidateIsProper, ContractionIsOfTheTree
<1>4. \A n \in m.nodes : m.instruments[n] \subseteq Exposures(s.config)
                         /\ m.proxy[n] = s.config.proxy[n]
  BY StudiesAreTreeShaped, ContractionHolds
<1> HIDE DEF m
<1>5. Valid(m)
  BY DEF m
<1>6. LaidOut(s, m)
  BY <1>2, <1>3, <1>4, <1>5, ValidIsLaidOut
<1> QED  BY <1>6 DEF m

LEMMA FlatIsLaidOut ==
    ASSUME NEW s \in Studies, NEW m, LaidOut(s, m)
    PROVE  LaidOut(s, FlatTree(m))
<1> DEFINE t == FlatTree(m)
<1>1. /\ t.root = m.root /\ t.nodes = {m.root} /\ t.financed = m.financed
      /\ t.children = [n \in {m.root} |-> {}]
      /\ t.instruments = [n \in {m.root} |-> TerminalInstruments(m)]
      /\ Fields \subseteq DOMAIN t
  BY DEF FlatTree, LaidOut, Fields
<1>2. TerminalInstruments(m) \subseteq Exposures(s.config) /\ m.root \in m.nodes
      /\ m.nodes \subseteq Nat \ {FlatNode}
  BY DEF LaidOut, TerminalInstruments, Proper
<1> HIDE DEF t
<1>3. NonRoot(t) = {} /\ \A n \in t.nodes : t.children[n] = {}
  BY <1>1 DEF NonRoot
<1>4. Proper(t)
  <2>1. IsFiniteSet({m.root})
    BY FS_Singleton
  <2> QED  BY <1>1, <1>2, <1>3, <2>1 DEF Proper, ParentsFirst
<1>5. LaidOut(s, t)
  BY <1>1, <1>2, <1>3, <1>4 DEF LaidOut
<1> QED  BY <1>5 DEF t

-----------------------------------------------------------------------------
(* The solver's answers are allocations                                    *)

AnyColumn == Names \X {"raw", "synth"}

\* Weights on all the columns, and on cash where a node is financed, that add up to one.
IsAllocation(columns, financed, a) ==
    /\ a \in [DOMAIN a -> Int] /\ SumOf(a) = Unit
    /\ columns \subseteq DOMAIN a
    /\ DOMAIN a \subseteq columns \cup (IF financed THEN {CashColumn} ELSE {})

\* What the solver promises: whatever it is asked, its answer is an allocation.
SolverAllocates ==
    \A detail : \A columns \in SUBSET AnyColumn, financed \in BOOLEAN :
        CashColumn \notin columns =>
            \A a \in Solutions(columns, financed, detail) \ {Infeasible} :
                IsAllocation(columns, financed, a)

Allocated(s, answers) ==
    \A p \in DOMAIN answers :
        answers[p] # Infeasible =>
            IsAllocation(DOMAIN p.frame, p.node \in s.config.financed, answers[p])

AllocatedInv ==
    /\ pass # "idle" => LaidOut(study, job.model)
    /\ Allocated(study, solved)

LEMMA NamesOfStudies ==
    ASSUME NEW s \in Studies
    PROVE  /\ Exposures(s.config) \subseteq Names /\ Reserved(s) \subseteq Names
           /\ Exposures(s.config) \cap Reserved(s) = {}
           /\ Exposures(s.config) \subseteq Instruments(s.config)
           /\ Cash \notin Instruments(s.config)
<1>1. /\ s.config.instruments \in [s.config.nodes -> SUBSET Names]
      /\ s.config.proxy \in [s.config.nodes -> Names \cup {None}]
      /\ s.config.root \in s.config.nodes
  BY StudiesAreOfTrees DEF Valid, IsTree
<1>2. Exposures(s.config) \subseteq Names
  BY <1>1 DEF Exposures, TerminalInstruments, Proxies
<1>3. Exposures(s.config) \subseteq Instruments(s.config)
  BY DEF Exposures, Instruments
<1>4. \A n \in s.config.nodes :
        /\ CashAt(n) \in Names \ {Cash}
        /\ {Cash, CashAt(n)} \cap Instruments(s.config) = {}
  BY CashIsNoTicker
<1>5. Cash \notin Instruments(s.config)
  BY <1>1, <1>4
<1>6. Reserved(s) \subseteq Names /\ Instruments(s.config) \cap Reserved(s) = {}
  BY <1>4, <1>5, CashIsAName DEF Reserved
<1> QED  BY <1>2, <1>3, <1>5, <1>6

LEMMA AnyColumnIsFinite == IsFiniteSet(AnyColumn)
<1>1. IsFiniteSet({"raw"})
  BY FS_Singleton
<1>2. IsFiniteSet({"raw"} \cup {"synth"})
  BY <1>1, FS_AddElement
<1>3. {"raw"} \cup {"synth"} = {"raw", "synth"}
  OBVIOUS
<1> HIDE DEF AnyColumn
<1>4. IsFiniteSet({"raw", "synth"})
  BY <1>2, <1>3, Zenon
<1> QED  BY <1>4, NamesAreFinite, FS_Product DEF AnyColumn

LEMMA ColumnsOfNodes ==
    ASSUME NEW s \in Studies, NEW m, LaidOut(s, m), NEW n \in m.nodes, NEW kind
    PROVE  Columns(m, n, kind) \in SUBSET AnyColumn /\ CashColumn \notin Columns(m, n, kind)
<1>1. /\ m.instruments[n] \subseteq Exposures(s.config)
      /\ \A k \in m.children[n] : m.proxy[k] \in Exposures(s.config)
  BY DEF LaidOut
<1>2. Exposures(s.config) \subseteq Names /\ Cash \notin Exposures(s.config)
  BY NamesOfStudies
<1>3. Columns(m, n, kind)
        \subseteq {<<x, side>> : x \in Exposures(s.config), side \in {"raw", "synth"}}
  BY <1>1 DEF Columns, ChildColumn, Raw, Synth
<1> QED  BY <1>2, <1>3 DEF AnyColumn, CashColumn, Raw

\* An allocation that holds no cash is one without it.
LEMMA SettledAllocates ==
    ASSUME NEW columns \in SUBSET AnyColumn, CashColumn \notin columns, NEW financed, NEW a,
           IsAllocation(columns, financed, a)
    PROVE  IsAllocation(columns, financed, Settled(a))
<1>1. CASE ~(a # Infeasible /\ CashHeld(a) = 0)
  <2>1. Settled(a) = a
    BY <1>1 DEF Settled
  <2> QED  BY <2>1
<1>2. CASE a # Infeasible /\ CashHeld(a) = 0
  <2> DEFINE rest == DOMAIN a \ {CashColumn}
             b == [column \in rest |-> a[column]]
  <2>1. Settled(a) = b
    BY <1>2 DEF Settled
  <2>2. /\ a \in [DOMAIN a -> Int] /\ SumOf(a) = Unit /\ columns \subseteq DOMAIN a
        /\ DOMAIN a \subseteq columns \cup (IF financed THEN {CashColumn} ELSE {})
    BY DEF IsAllocation
  <2>3. IsFiniteSet(DOMAIN a) /\ IntegerOn(a, rest)
    <3>1. IsFiniteSet(columns)
      BY AnyColumnIsFinite, FS_Subset
    <3>2. IsFiniteSet(columns \cup {CashColumn})
      BY <3>1, FS_AddElement
    <3>3. DOMAIN a \in SUBSET (columns \cup {CashColumn})
      BY <2>2
    <3>4. IsFiniteSet(DOMAIN a)
      BY <3>2, <3>3, FS_Subset
    <3> QED  BY <2>2, <3>4 DEF IntegerOn
  <2>4. \A x \in DOMAIN a \ rest : a[x] = 0
    BY <1>2 DEF CashHeld
  <2>5. SumOn(a, DOMAIN a) = SumOn(a, rest)
    <3>1. rest \in SUBSET DOMAIN a
      OBVIOUS
    <3> HIDE DEF rest
    <3> QED  BY <2>3, <2>4, <3>1, SumOfSupport
  <2>6. SumOn(a, DOMAIN a) = SumOf(a)
    <3>1. [x \in DOMAIN a |-> a[x]] = a
      BY <2>2
    <3> QED  BY <3>1 DEF SumOn
  <2>7. SumOf(b) = Unit
    BY <2>2, <2>5, <2>6 DEF SumOn
  <2>8. b \in [DOMAIN b -> Int] /\ DOMAIN b = rest
    BY <2>2
  <2>9. /\ columns \subseteq rest
        /\ rest \subseteq columns \cup (IF financed THEN {CashColumn} ELSE {})
    BY <2>2
  <2> HIDE DEF b, rest
  <2> QED  BY <2>1, <2>7, <2>8, <2>9 DEF IsAllocation
<1> QED  BY <1>1, <1>2

LEMMA RememberAllocates ==
    ASSUME SolverAllocates, study \in Studies, Allocated(study, solved),
           NEW m, LaidOut(study, m), NEW n \in m.nodes, NEW kind, NEW window, NEW childSeries,
           NEW shown, NEW problem, problem = Problem(m, n, kind, window, childSeries, shown),
           NEW rootSeries, NEW answer \in Answers(m, n, problem, rootSeries),
           Remember(m, n, problem, rootSeries, answer)
    PROVE  Allocated(study, solved')
<1>1. CASE Refused(m, n, rootSeries)
  <2>1. solved' = solved
    BY <1>1 DEF Remember
  <2> QED  BY <2>1
<1>2. CASE ~ Refused(m, n, rootSeries)
  <2>1. solved' = With(solved, problem, answer)
    BY <1>2 DEF Remember
  <2>2. /\ DOMAIN problem.frame = Columns(m, n, kind) /\ problem.node = n
        /\ (n \in m.financed) = (problem.node \in study.config.financed)
    BY DEF Problem, Frame, LaidOut
  <2>3. CASE problem \in DOMAIN solved
    <3>1. answer = solved[problem]
      BY <1>2, <2>3 DEF Answers
    <3>2. \A p \in DOMAIN solved' : p \in DOMAIN solved /\ solved'[p] = solved[p]
      BY <2>1, <2>3, <3>1 DEF With
    <3> QED  BY <3>2 DEF Allocated
  <2>4. CASE problem \notin DOMAIN solved
    <3> DEFINE financed == n \in m.financed
               columns == DOMAIN problem.frame
    <3>1. PICK a \in Solutions(columns, financed, job.detail) : answer = Settled(a)
      BY <1>2, <2>4 DEF Answers
    <3>2. columns \in SUBSET AnyColumn /\ CashColumn \notin columns
      BY <2>2, ColumnsOfNodes
    <3>3. financed \in BOOLEAN
      OBVIOUS
    <3>4. ASSUME answer # Infeasible  PROVE IsAllocation(columns, financed, answer)
      <4>1. a # Infeasible
        BY <3>1, <3>4 DEF Settled
      <4> HIDE DEF columns, financed
      <4>2. IsAllocation(columns, financed, a)
        BY <3>1, <3>2, <3>3, <4>1 DEF SolverAllocates
      <4> QED  BY <3>1, <3>2, <4>2, SettledAllocates
    <3>5. \A p \in DOMAIN solved' :
            \/ p = problem /\ solved'[p] = answer
            \/ p \in DOMAIN solved /\ solved'[p] = solved[p]
      BY <2>1 DEF With
    <3>6. ASSUME NEW p \in DOMAIN solved', solved'[p] # Infeasible
          PROVE  IsAllocation(DOMAIN p.frame, p.node \in study.config.financed, solved'[p])
      <4>1. CASE p = problem /\ solved'[p] = answer
        BY <2>2, <3>4, <3>6, <4>1
      <4>2. CASE p \in DOMAIN solved /\ solved'[p] = solved[p]
        BY <3>6, <4>2 DEF Allocated
      <4> QED  BY <3>5, <4>1, <4>2
    <3> QED  BY <3>6 DEF Allocated
  <2> QED  BY <2>3, <2>4
<1> QED  BY <1>1, <1>2

LEMMA AllocatedSolves ==
    ASSUME SolverAllocates, study \in Studies, PassInv, AllocatedInv, SolveStep
    PROVE  Allocated(study, solved') /\ job' = job /\ pass # "idle"
<1>1. /\ job' = job /\ pass # "idle"
      /\ LaidOut(study, job.model) /\ Allocated(study, solved)
      /\ LaidOut(study, FlatTree(job.model))
  <2>1. job' = job /\ pass # "idle"
    BY DEF SolveStep, SolveForward, ForwardFails, CopyLeaf, SolveBackward, BackwardFails,
           SolveFlat, FlatFails
  <2> QED  BY <2>1, FlatIsLaidOut DEF AllocatedInv
<1>2. CASE SolveForward \/ ForwardFails
  <2>1. NextForward \in job.model.nodes
    BY <1>2, NextForwardIsFirst DEF SolveForward, ForwardFails
  <2>2. PICK answer \in Answers(job.model, NextForward, ForwardProblem, RootSeries) :
          Remember(job.model, NextForward, ForwardProblem, RootSeries, answer)
    BY <1>2 DEF SolveForward, ForwardFails
  <2>3. Allocated(study, solved')
    BY <1>1, <2>1, <2>2, RememberAllocates DEF ForwardProblem
  <2> QED  BY <1>1, <2>3
<1>3. CASE SolveBackward \/ BackwardFails
  <2>1. NextBackward \in job.model.nodes
    BY <1>3, NextBackwardIsLast DEF SolveBackward, BackwardFails
  <2>2. PICK answer \in Answers(job.model, NextBackward, BackwardProblem, RootSeries) :
          Remember(job.model, NextBackward, BackwardProblem, RootSeries, answer)
    BY <1>3 DEF SolveBackward, BackwardFails
  <2>3. Allocated(study, solved')
    BY <1>1, <2>1, <2>2, RememberAllocates DEF BackwardProblem
  <2> QED  BY <1>1, <2>3
<1>4. CASE SolveFlat \/ FlatFails
  <2> DEFINE t == FlatTree(job.model)
             r == job.model.root
  <2>1. r \in t.nodes
    BY <1>1 DEF FlatTree, LaidOut, Fields
  <2>2. PICK answer \in Answers(t, r, FlatProblem, None) : Remember(t, r, FlatProblem, None, answer)
    BY <1>4 DEF SolveFlat, FlatFails
  <2>3. FlatProblem = Problem(t, r, "flat", job.window, Empty, None)
    BY DEF FlatProblem
  <2> HIDE DEF t, r
  <2>4. LaidOut(study, t)
    BY <1>1 DEF t
  <2>5. Allocated(study, solved')
    BY <1>1, <2>1, <2>2, <2>3, <2>4, RememberAllocates
  <2> QED  BY <1>1, <2>5
<1>5. CASE CopyLeaf
  BY <1>1, <1>5 DEF CopyLeaf
<1> QED  BY <1>2, <1>3, <1>4, <1>5 DEF SolveStep

LEMMA AllocatedStarts ==
    ASSUME AllocatedInv, study' = study, NEW m, LaidOut(study, m), NEW mode, NEW window,
           NEW columns, NEW detail, StartEstimate(m, mode, window, columns, detail)
    PROVE  AllocatedInv'
<1>1. solved' = solved /\ job'.model = m
  BY DEF StartEstimate
<1> QED  BY <1>1 DEF AllocatedInv

LEMMA AllocatedStep ==
    ASSUME SolverAllocates, study \in Studies, PassInv, AllocatedInv, [Next]_vars
    PROVE  AllocatedInv'
<1>1. study' = study
  BY DEF Next, vars, backtestVars, BacktestStep, Plan, EstimateFold, KeepEstimate, FoldFails,
         HoldFold, BeginAdaptive, PrepareFold, KeepCandidate, CandidateFails, AdaptFold, Stay
<1>2. CASE UNCHANGED hierarchyVars
  BY <1>1, <1>2 DEF AllocatedInv, hierarchyVars
<1>3. CASE UNCHANGED vars \/ Stay \/ Plan \/ HoldFold \/ BeginAdaptive \/ AdaptFold
  BY <1>2, <1>3 DEF Stay, vars, Plan, HoldFold, BeginAdaptive, AdaptFold
<1>4. CASE KeepEstimate \/ FoldFails \/ KeepCandidate \/ CandidateFails
  BY <1>1, <1>4 DEF KeepEstimate, FoldFails, KeepCandidate, CandidateFails, EndEstimate,
                    AllocatedInv
<1>5. CASE SolveStep
  BY <1>1, <1>5, AllocatedSolves DEF AllocatedInv
<1>6. CASE EstimateFold
  <2>1. LaidOut(study, study.config)
    BY StudyIsLaidOut
  <2> QED  BY <1>1, <1>6, <2>1, AllocatedStarts DEF EstimateFold
<1>7. CASE PrepareFold
  <2>1. PICK v : \/ /\ Valid(PruneConfig(study.config, v))
                    /\ \E x : StartEstimate(PruneConfig(study.config, v), study.mode, x,
                                            Instruments(study.config), study.detail)
                 \/ UNCHANGED hierarchyVars
    BY <1>7, PreparesAFold
  <2>2. CASE ~ UNCHANGED hierarchyVars
    <3>1. LaidOut(study, PruneConfig(study.config, v))
      BY <2>1, <2>2, CandidateIsLaidOut
    <3> QED  BY <1>1, <2>1, <2>2, <3>1, AllocatedStarts
  <2> QED  BY <1>2, <2>2
<1> QED  BY <1>3, <1>4, <1>5, <1>6, <1>7 DEF Next, BacktestStep

\* Whatever is solved, whichever tree it is of, the solver's answers that an estimate works
\* with are weights on all the columns of their node, and on cash only where the node is
\* financed, that add up to one: dropping a zero cash position keeps them so (_solve_local).
THEOREM AnswersStayAllocations ==
    ASSUME SolverAllocates  PROVE Spec => []AllocatedInv
<1>1. Init => AllocatedInv
  BY EmptyIsEmpty DEF Init, BacktestInit, EstimateInit, AllocatedInv, Allocated
<1>2. BacktestTruths /\ AllocatedInv /\ [Next]_vars => AllocatedInv'
  BY AllocatedStep DEF BacktestTruths, BacktestInv, PhaseInv
<1> QED  BY <1>1, <1>2, BacktestsStaySound, PTL DEF Spec

-----------------------------------------------------------------------------
(* The local weights of an estimate                                        *)

\* Each node's local weights are an allocation over what it is made of.
AllocationsOf(s, m, locals, kind) ==
    /\ DOMAIN locals = m.nodes
    /\ \A n \in m.nodes :
         IsAllocation(Columns(m, n, kind), n \in s.config.financed, locals[n])

LEMMA AnsweredAllocates ==
    ASSUME NEW s, NEW answers, Allocated(s, answers), NEW m, NEW n, NEW kind, NEW window,
           NEW childSeries, NEW shown, NEW a,
           Answered(answers, Problem(m, n, kind, window, childSeries, shown), a)
    PROVE  IsAllocation(Columns(m, n, kind), n \in s.config.financed, a)
<1> DEFINE p == Problem(m, n, kind, window, childSeries, shown)
<1>1. p.node = n /\ DOMAIN p.frame = Columns(m, n, kind)
  BY DEF Problem, Frame
<1> HIDE DEF p
<1>2. p \in DOMAIN answers /\ answers[p] = a /\ a # Infeasible
  BY DEF Answered, p
<1> QED  BY <1>1, <1>2 DEF Allocated

LEMMA EstimatesAllocate ==
    ASSUME NEW s \in Studies, NEW answers, Allocated(s, answers), NEW e, Whole(e),
           SolvedBy(answers, e), LaidOut(s, e.model)
    PROVE  /\ DOMAIN e.forward # {} => AllocationsOf(s, e.model, e.forward, "forward")
           /\ e.mode = "forward_backward" => AllocationsOf(s, e.model, e.backward, "backward")
           /\ e.mode = "flat" => AllocationsOf(s, FlatTree(e.model), e.flat, "flat")
<1>1. ASSUME NEW n \in DOMAIN e.forward
      PROVE  IsAllocation(Columns(e.model, n, "forward"), n \in s.config.financed, e.forward[n])
  <2>1. Answered(answers, ForwardPosed(e, n), e.forward[n])
    BY DEF SolvedBy
  <2> QED  BY <2>1, AnsweredAllocates DEF ForwardPosed
<1>2. DOMAIN e.forward # {} => AllocationsOf(s, e.model, e.forward, "forward")
  BY <1>1 DEF Whole, AllocationsOf
<1>3. ASSUME e.mode = "forward_backward"
      PROVE  AllocationsOf(s, e.model, e.backward, "backward")
  <2>1. DOMAIN e.backward = e.model.nodes /\ DOMAIN e.forward = e.model.nodes
    BY <1>3 DEF Whole
  <2>2. ASSUME NEW n \in e.model.nodes
        PROVE  IsAllocation(Columns(e.model, n, "backward"), n \in s.config.financed,
                            e.backward[n])
    <3>1. CASE e.model.children[n] = {}
      <4>1. Columns(e.model, n, "backward") = Columns(e.model, n, "forward")
        BY <3>1 DEF Columns
      <4>2. e.backward[n] = e.forward[n]
        BY <2>1, <3>1 DEF SolvedBy
      <4> QED  BY <1>1, <2>1, <4>1, <4>2
    <3>2. CASE e.model.children[n] # {}
      <4>1. Answered(answers, BackwardPosed(e, n), e.backward[n])
        BY <2>1, <3>2 DEF SolvedBy
      <4> QED  BY <4>1, AnsweredAllocates DEF BackwardPosed
    <3> QED  BY <3>1, <3>2
  <2> QED  BY <2>1, <2>2 DEF AllocationsOf
<1>4. ASSUME e.mode = "flat"  PROVE AllocationsOf(s, FlatTree(e.model), e.flat, "flat")
  <2>1. DOMAIN e.flat = {e.model.root} /\ FlatTree(e.model).nodes = {e.model.root}
    BY <1>4 DEF Whole, FlatTree, LaidOut, Fields
  <2>2. Answered(answers, FlatPosed(e), e.flat[e.model.root])
    BY <2>1 DEF SolvedBy
  <2>3. IsAllocation(Columns(FlatTree(e.model), e.model.root, "flat"),
                     e.model.root \in s.config.financed, e.flat[e.model.root])
    BY <2>2, AnsweredAllocates DEF FlatPosed
  <2> QED  BY <2>1, <2>3 DEF AllocationsOf
<1> QED  BY <1>2, <1>3, <1>4

LEMMA FinishedAllocates ==
    ASSUME BacktestTruths, AllocatedInv, NEW e \in Finished
    PROVE  /\ study \in Studies /\ LaidOut(study, e.model) /\ Whole(e)
           /\ DOMAIN e.forward # {} => AllocationsOf(study, e.model, e.forward, "forward")
           /\ e.mode = "forward_backward" =>
                AllocationsOf(study, e.model, e.backward, "backward")
           /\ e.mode = "flat" => AllocationsOf(study, FlatTree(e.model), e.flat, "flat")
<1>1. e = Estimate /\ pass = "done"
  BY DEF Finished
<1>2. study \in Studies /\ Whole(e) /\ SolvedBy(solved, e)
  BY <1>1 DEF BacktestTruths, BacktestInv, PhaseInv, PassInv, SolvedInv
<1>3. e.model = job.model
  BY <1>1 DEF Estimate
<1>4. LaidOut(study, e.model) /\ Allocated(study, solved)
  BY <1>1, <1>3 DEF AllocatedInv
<1> QED  BY <1>2, <1>4, EstimatesAllocate

-----------------------------------------------------------------------------
(* Sums over the columns of a node                                         *)

CashOf(a, h) == IF CashColumn \in DOMAIN a THEN h[CashColumn] ELSE 0

\* A sum over what a node is solved over: its tickers, its children, its cash.
LEMMA SumsSplit ==
    ASSUME NEW s \in Studies, NEW m, LaidOut(s, m), NEW n \in m.nodes, NEW kind, NEW financed,
           NEW a, IsAllocation(Columns(m, n, kind), financed, a),
           NEW h, IntegerOn(h, DOMAIN a),
           NEW direct, \A i \in m.instruments[n] : direct[i] = h[Raw(i)],
           NEW below, \A k \in m.children[n] : below[k] = h[ChildColumn(m, k, kind)]
    PROVE  /\ SumOn(h, DOMAIN a)
                = SumOn(direct, m.instruments[n]) + SumOn(below, m.children[n]) + CashOf(a, h)
           /\ IntegerOn(direct, m.instruments[n]) /\ IsFiniteSet(m.instruments[n])
           /\ IntegerOn(below, m.children[n]) /\ IsFiniteSet(m.children[n])
           /\ CashOf(a, h) \in Int
<1> DEFINE I == m.instruments[n]
           C == m.children[n]
           up == [i \in I |-> Raw(i)]
           to == [k \in C |-> ChildColumn(m, k, kind)]
           A == Indices(up, I)
           B == Indices(to, C)
<1>1. /\ I \subseteq Exposures(s.config)
      /\ \A k \in C : m.proxy[k] \in Exposures(s.config) \ I
      /\ \A k, l \in C : m.proxy[k] = m.proxy[l] => k = l
  BY DEF LaidOut
<1>2. A = {Raw(i) : i \in I} /\ B = {ChildColumn(m, k, kind) : k \in C}
  BY DEF Indices
<1>3. Columns(m, n, kind) = A \cup B /\ A \cap B = {}
  <2>1. Columns(m, n, kind) = A \cup B
    BY <1>2 DEF Columns
  <2>2. A \cap B = {}
    BY <1>1, <1>2 DEF ChildColumn, Raw, Synth
  <2> QED  BY <2>1, <2>2
<1>4. \A i, j \in I : up[i] = up[j] => i = j
  BY DEF Raw
<1>5. \A k, l \in C : to[k] = to[l] => k = l
  <2>1. \A k, l \in C : ChildColumn(m, k, kind) = ChildColumn(m, l, kind) =>
                          m.proxy[k] = m.proxy[l]
    BY DEF ChildColumn, Raw, Synth
  <2> QED  BY <1>1, <2>1
<1>6. IsFiniteSet(I) /\ IsFiniteSet(C)
  <2>1. I \in SUBSET Names
    BY <1>1, NamesOfStudies
  <2>2. C \in SUBSET m.nodes /\ IsFiniteSet(m.nodes)
    BY DEF LaidOut, Proper, ParentsFirst
  <2> QED  BY <2>1, <2>2, NamesAreFinite, FS_Subset
<1>7. /\ A \cup B \subseteq DOMAIN a
      /\ DOMAIN a \subseteq (A \cup B) \cup {CashColumn} /\ CashColumn \notin A \cup B
  BY <1>3, ColumnsOfNodes DEF IsAllocation
<1>8. /\ \A i \in I : h[up[i]] = direct[i] /\ direct[i] \in Int
      /\ \A k \in C : h[to[k]] = below[k] /\ below[k] \in Int
  <2>1. \A i \in I : up[i] = Raw(i) /\ Raw(i) \in A
    BY <1>2
  <2>2. \A k \in C : to[k] = ChildColumn(m, k, kind) /\ ChildColumn(m, k, kind) \in B
    BY <1>2
  <2> HIDE DEF A, B, up, to
  <2> QED  BY <1>7, <2>1, <2>2 DEF IntegerOn
<1>9. IntegerOn(direct, I) /\ IntegerOn(below, C)
  BY <1>8 DEF IntegerOn
<1> HIDE DEF up, to, I, C
<1>10. SumOn(h, A) = SumOn(direct, I) /\ IsFiniteSet(A)
  BY <1>4, <1>6, <1>8, <1>9, SumReindexed
<1>11. SumOn(h, B) = SumOn(below, C) /\ IsFiniteSet(B)
  BY <1>5, <1>6, <1>8, <1>9, SumReindexed
<1> DEFINE all == A \cup B
<1>12. IsFiniteSet(all) /\ IntegerOn(h, all)
  <2>1. IsFiniteSet(all)
    BY <1>10, <1>11, FS_Union
  <2>2. all \subseteq DOMAIN a
    BY <1>7
  <2> HIDE DEF all
  <2> QED  BY <2>1, <2>2 DEF IntegerOn
<1>13. SumOn(h, all) = SumOn(direct, I) + SumOn(below, C)
  <2> HIDE DEF A, B
  <2>1. SumOn(h, A \cup B) = SumOn(h, A) + SumOn(h, B)
    BY <1>3, <1>10, <1>11, <1>12, SumUnion
  <2> QED  BY <1>10, <1>11, <2>1
<1>14. SumOn(direct, I) \in Int /\ SumOn(below, C) \in Int
  BY <1>6, <1>9, SumOnIsWhole
<1>15. all \subseteq DOMAIN a /\ DOMAIN a \subseteq all \cup {CashColumn} /\ CashColumn \notin all
  BY <1>7
<1> HIDE DEF all
<1>16. CASE CashColumn \in DOMAIN a
  <2>1. DOMAIN a = all \cup {CashColumn} /\ h[CashColumn] \in Int
    BY <1>15, <1>16 DEF IntegerOn
  <2>2. IntegerOn(h, all \cup {CashColumn})
    BY <2>1 DEF IntegerOn
  <2>3. SumOn(h, all \cup {CashColumn}) = SumOn(h, all) + h[CashColumn]
    BY <1>12, <1>15, <2>2, SumGrows
  <2>4. SumOn(h, DOMAIN a) = SumOn(h, all) + h[CashColumn]
    BY <2>1, <2>3, Zenon
  <2>5. CashOf(a, h) = h[CashColumn]
    BY <1>16 DEF CashOf
  <2> QED  BY <1>6, <1>9, <1>13, <1>14, <2>1, <2>4, <2>5 DEF I, C
<1>17. CASE CashColumn \notin DOMAIN a
  <2>1. DOMAIN a = all
    BY <1>15, <1>17
  <2>2. SumOn(h, DOMAIN a) = SumOn(h, all)
    BY <2>1, Zenon
  <2>3. CashOf(a, h) = 0
    BY <1>17 DEF CashOf
  <2> QED  BY <1>6, <1>9, <1>13, <1>14, <2>2, <2>3 DEF I, C
<1> QED  BY <1>16, <1>17

-----------------------------------------------------------------------------
(* Along the tree                                                          *)

\* What a node has whenever its children have it, all have.
LEMMA LeavesUp ==
    ASSUME NEW m, Proper(m), NEW G,
           \A n \in m.nodes : m.children[n] \subseteq G => n \in G
    PROVE  m.nodes \subseteq G
<1> DEFINE bad == m.nodes \ G
           n == Max(bad)
<1> SUFFICES ASSUME bad # {}  PROVE FALSE
  OBVIOUS
<1>1. m.nodes \subseteq Nat /\ IsFiniteSet(m.nodes) /\ ParentsFirst(m)
  BY DEF Proper
<1>2. n \in bad /\ \A y \in bad : y <= n
  <2>1. bad \subseteq Nat /\ IsFiniteSet(bad)
    BY <1>1, FS_Subset
  <2> HIDE DEF bad
  <2> QED  BY <2>1, LastExists
<1> HIDE DEF n
<1>3. \A k \in m.children[n] : k \in m.nodes /\ k \in Nat /\ n \in Nat /\ ~(k <= n)
  BY <1>1, <1>2 DEF ParentsFirst
<1>4. m.children[n] \subseteq G
  BY <1>2, <1>3
<1> QED  BY <1>2, <1>4

\* What the root has, and a node whenever its parent has it, all have.
LEMMA RootDown ==
    ASSUME NEW m, Proper(m), \A n \in NonRoot(m) : ParentIs(m, n, Parent(m, n)), NEW G,
           m.root \in G, \A n \in NonRoot(m) : Parent(m, n) \in G => n \in G
    PROVE  m.nodes \subseteq G
<1> DEFINE bad == m.nodes \ G
           n == Min(bad)
<1> SUFFICES ASSUME bad # {}  PROVE FALSE
  OBVIOUS
<1>1. m.nodes \subseteq Nat /\ ParentsFirst(m)
  BY DEF Proper
<1>2. n \in bad /\ \A y \in bad : n <= y
  <2>1. bad \subseteq Nat
    BY <1>1
  <2> HIDE DEF bad
  <2> QED  BY <2>1, FirstExists
<1> HIDE DEF n
<1>3. n \in NonRoot(m)
  BY <1>2 DEF NonRoot
<1>4. /\ Parent(m, n) \in m.nodes /\ Parent(m, n) \in Nat /\ n \in Nat /\ ~(n <= Parent(m, n))
  BY <1>1, <1>3 DEF ParentIs, ParentsFirst, NonRoot
<1> QED  BY <1>2, <1>3, <1>4

\* A rank by which children come before their parents.
LEMMA HeightsExist ==
    ASSUME NEW m, Proper(m)
    PROVE  \E rank \in [m.nodes -> Nat] :
             \A n \in m.nodes : \A k \in m.children[n] : rank[k] < rank[n]
<1>1. m.nodes \subseteq Nat /\ IsFiniteSet(m.nodes) /\ m.nodes # {} /\ ParentsFirst(m)
  BY DEF Proper
<1>2. PICK last \in m.nodes : \A y \in m.nodes : y <= last
  BY <1>1, LastExists
<1> DEFINE rank == [n \in m.nodes |-> last - n]
<1>3. rank \in [m.nodes -> Nat]
  BY <1>1, <1>2
<1>4. \A n \in m.nodes : \A k \in m.children[n] : rank[k] < rank[n]
  <2>1. ASSUME NEW n \in m.nodes, NEW k \in m.children[n]  PROVE last - k < last - n
    BY <1>1, <1>2 DEF ParentsFirst
  <2>2. \A n \in m.nodes : \A k \in m.children[n] : k \in m.nodes
    BY <1>1 DEF ParentsFirst
  <2> QED  BY <2>1, <2>2
<1> QED  BY <1>3, <1>4

-----------------------------------------------------------------------------
(* Composition                                                             *)

WholeWeights == [Names -> Int]

ChildPart(m, locals, kind, t, n, x) ==
    [k \in m.children[n] |-> Times(locals[n][ChildColumn(m, k, kind)], t[k][x])]

ComposedAt(m, locals, kind, t, n) ==
    [x \in Names |->
        (IF x \in m.instruments[n] THEN locals[n][Raw(x)] ELSE 0)
      + SumOf(ChildPart(m, locals, kind, t, n, x))
      + (IF x = CashName(m, n) THEN CashHeld(locals[n]) ELSE 0)]

IsComposed(m, locals, kind, t) ==
    t = [n \in DOMAIN locals |-> ComposedAt(m, locals, kind, t, n)]

LEMMA UnitDivides ==
    /\ Unit \in Int /\ Unit > 0
    /\ \A a, b \in Int : Times(a, b) \in Int
BY UnitIsPositive DEF Times

LEMMA LocalWeightsAre ==
    ASSUME NEW s \in Studies, NEW m, LaidOut(s, m), NEW locals, NEW kind,
           AllocationsOf(s, m, locals, kind), NEW n \in m.nodes
    PROVE  /\ \A i \in m.instruments[n] : locals[n][Raw(i)] \in Int
           /\ \A k \in m.children[n] : locals[n][ChildColumn(m, k, kind)] \in Int
           /\ CashHeld(locals[n]) \in Int
           /\ IsFiniteSet(m.children[n]) /\ m.children[n] \subseteq m.nodes
<1>1. IsAllocation(Columns(m, n, kind), n \in s.config.financed, locals[n])
  BY DEF AllocationsOf
<1>2. locals[n] \in [DOMAIN locals[n] -> Int] /\ Columns(m, n, kind) \subseteq DOMAIN locals[n]
  BY <1>1 DEF IsAllocation
<1>3. /\ \A i \in m.instruments[n] : Raw(i) \in Columns(m, n, kind)
      /\ \A k \in m.children[n] : ChildColumn(m, k, kind) \in Columns(m, n, kind)
  BY DEF Columns
<1>4. CashHeld(locals[n]) \in Int
  BY <1>2 DEF CashHeld
<1>5. IsFiniteSet(m.children[n]) /\ m.children[n] \subseteq m.nodes
  <2>1. m.children[n] \in SUBSET m.nodes /\ IsFiniteSet(m.nodes)
    BY DEF LaidOut, Proper, ParentsFirst
  <2> QED  BY <2>1, FS_Subset
<1> QED  BY <1>2, <1>3, <1>4, <1>5

LEMMA ComposedIsWhole ==
    ASSUME NEW s \in Studies, NEW m, LaidOut(s, m), NEW locals, NEW kind,
           AllocationsOf(s, m, locals, kind), NEW n \in m.nodes, NEW t,
           \A k \in m.children[n] : t[k] \in WholeWeights
    PROVE  /\ ComposedAt(m, locals, kind, t, n) \in WholeWeights
           /\ \A x \in Names : Weights(ChildPart(m, locals, kind, t, n, x))
<1>1. /\ \A i \in m.instruments[n] : locals[n][Raw(i)] \in Int
      /\ \A k \in m.children[n] : locals[n][ChildColumn(m, k, kind)] \in Int
      /\ CashHeld(locals[n]) \in Int /\ IsFiniteSet(m.children[n])
  BY LocalWeightsAre
<1>2. ASSUME NEW x \in Names  PROVE Weights(ChildPart(m, locals, kind, t, n, x))
  <2>1. \A k \in m.children[n] : t[k][x] \in Int
    BY DEF WholeWeights
  <2> QED  BY <1>1, <2>1, UnitDivides DEF Weights, ChildPart
<1>3. \A x \in Names : SumOf(ChildPart(m, locals, kind, t, n, x)) \in Int
  BY <1>2, SumIsWhole
<1> QED  BY <1>1, <1>2, <1>3 DEF ComposedAt, WholeWeights

\* What _compose computes exists, and is a whole weight for every name.
LEMMA ComposeIs ==
    ASSUME NEW s \in Studies, NEW m, LaidOut(s, m), NEW locals, NEW kind,
           AllocationsOf(s, m, locals, kind)
    PROVE  /\ IsComposed(m, locals, kind, Compose(m, locals, kind))
           /\ Compose(m, locals, kind) \in [m.nodes -> WholeWeights]
<1> DEFINE D == m.nodes
           V == WholeWeights
           table == [D -> V]
           made(h) == [n \in D |-> ComposedAt(m, locals, kind, h, n)]
           make == [h \in table |-> made(h)]
           t == Compose(m, locals, kind)
<1>1. DOMAIN locals = D /\ Proper(m) /\ \A n \in D : m.children[n] \subseteq D
  BY DEF AllocationsOf, LaidOut, Proper, ParentsFirst
<1>2. PICK rank \in [D -> Nat] : \A n \in D : \A k \in m.children[n] : rank[k] < rank[n]
  BY <1>1, HeightsExist
<1>3. ASSUME NEW h \in table  PROVE made(h) \in table
  <2>1. \A n \in D : ComposedAt(m, locals, kind, h, n) \in V
    BY <1>1, ComposedIsWhole
  <2> QED  BY <2>1
<1>4. make \in [table -> table]
  <2> HIDE DEF made, table
  <2> QED  BY <1>3
<1>5. ASSUME NEW n \in D, NEW g \in table, NEW h \in table,
             \A k \in D : rank[k] < rank[n] => g[k] = h[k]
      PROVE  make[g][n] = make[h][n]
  <2>1. \A k \in m.children[n] : g[k] = h[k]
    BY <1>1, <1>2, <1>5
  <2>2. \A x : ChildPart(m, locals, kind, g, n, x) = ChildPart(m, locals, kind, h, n, x)
    BY <2>1 DEF ChildPart
  <2>3. ComposedAt(m, locals, kind, g, n) = ComposedAt(m, locals, kind, h, n)
    BY <2>2 DEF ComposedAt
  <2> QED  BY <2>3
<1>6. [x \in Names |-> 0] \in V
  BY DEF WholeWeights
<1>7. LooksDown(D, V, rank, make)
  <2> HIDE DEF D, V, make
  <2> QED  BY <1>5 DEF LooksDown
<1>8. PICK f \in table : make[f] = f
  <2> DEFINE zero == [x \in Names |-> 0]
  <2> HIDE DEF D, V, make, zero
  <2>1. zero \in V
    BY <1>6 DEF zero
  <2>2. make \in [[D -> V] -> [D -> V]]
    BY <1>4
  <2>3. HasFixpoint(D, V, make)
    <3>1. rank \in [D -> Nat]
      BY <1>2
    <3> QED  BY <1>7, <2>1, <2>2, <3>1, RecursionExists
  <2> QED  BY <2>3 DEF HasFixpoint
<1>9. IsComposed(m, locals, kind, f)
  <2>1. f = made(f)
    BY <1>8
  <2> QED  BY <1>1, <2>1 DEF IsComposed
<1>10. t = CHOOSE g : IsComposed(m, locals, kind, g)
  BY DEF Compose, IsComposed, ComposedAt, ChildPart
<1> HIDE DEF t, table
<1>11. IsComposed(m, locals, kind, t)
  BY <1>9, <1>10
<1> DEFINE G == {n \in D : t[n] \in V}
<1>12. ASSUME NEW n \in m.nodes, m.children[n] \subseteq G  PROVE n \in G
  <2>1. t[n] = ComposedAt(m, locals, kind, t, n)
    BY <1>1, <1>11 DEF IsComposed
  <2>2. \A k \in m.children[n] : t[k] \in WholeWeights
    BY <1>12
  <2>3. ComposedAt(m, locals, kind, t, n) \in WholeWeights
    BY <2>2, ComposedIsWhole
  <2> QED  BY <2>1, <2>3
<1>13. D \subseteq G
  <2> HIDE DEF G
  <2> QED  BY <1>1, <1>12, LeavesUp
<1>14. t = [n \in D |-> ComposedAt(m, locals, kind, t, n)]
  BY <1>1, <1>11 DEF IsComposed
<1>15. t \in [D -> V]
  <2>1. \A n \in D : ComposedAt(m, locals, kind, t, n) \in V
    <3>1. \A n \in D : t[n] = ComposedAt(m, locals, kind, t, n)
      BY <1>1, <1>11 DEF IsComposed
    <3> QED  BY <1>13, <3>1
  <2> QED  BY <1>14, <2>1
<1> QED  BY <1>11, <1>15 DEF t

-----------------------------------------------------------------------------
(* What a node holds is what its series are of                             *)

LEMMA TimesIs ==
    /\ \A w \in Int : Times(Unit, w) = w /\ Times(0, w) = 0 /\ Times(w, 0) = 0
    /\ \A v, w \in Int : Times(v, w) = Times(w, v)
<1>1. Unit \in Int /\ Unit > 0
  BY UnitIsPositive
<1>2. \A w \in Int : (Unit * w) \div Unit = w
  BY <1>1, Z3
<1>3. \A w \in Int : (0 * w) \div Unit = 0 /\ (w * 0) \div Unit = 0
  BY <1>1
<1>4. \A v, w \in Int : v * w = w * v
  OBVIOUS
<1> QED  BY <1>2, <1>3, <1>4 DEF Times

\* What the columns of a node are: tickers, its children's series, and its own cash.
LEMMA SourceIs ==
    ASSUME NEW s \in Studies, NEW m, LaidOut(s, m), NEW n \in m.nodes, NEW columns,
           Exposures(s.config) \subseteq columns, NEW series
    PROVE  /\ \A i \in m.instruments[n] : Source(m, n, Raw(i), columns, series) = Only(i)
           /\ \A k \in m.children[n] :
                Source(m, n, ChildColumn(m, k, "backward"), columns, series) = series[k]
           /\ (Cash \in columns => CashName(m, n) = Cash) =>
                Source(m, n, CashColumn, columns, series) = Only(CashName(m, n))
<1>1. ASSUME NEW i \in m.instruments[n]
      PROVE  Source(m, n, Raw(i), columns, series) = Only(i)
  <2>1. i \in columns
    BY DEF LaidOut
  <2>2. Raw(i)[2] = "raw" /\ Raw(i)[1] = i
    BY DEF Raw
  <2> QED  BY <2>1, <2>2 DEF Source
<1>2. ASSUME NEW k \in m.children[n]
      PROVE  Source(m, n, ChildColumn(m, k, "backward"), columns, series) = series[k]
  <2> DEFINE column == Synth(m.proxy[k])
             found == CHOOSE l \in m.children[n] : Synth(m.proxy[l]) = column
  <2>1. ChildColumn(m, k, "backward") = column
    BY DEF ChildColumn
  <2>2. column[2] = "synth" /\ column # CashColumn
    BY DEF Synth, CashColumn, Raw
  <2>3. \A l \in m.children[n] : Synth(m.proxy[l]) = column => l = k
    <3>1. \A l \in m.children[n] : m.proxy[k] = m.proxy[l] => k = l
      BY DEF LaidOut
    <3>2. \A l \in m.children[n] : Synth(m.proxy[l]) = column => m.proxy[k] = m.proxy[l]
      BY DEF Synth
    <3> QED  BY <3>1, <3>2
  <2>4. found = k
    BY <2>3
  <2> HIDE DEF column
  <2>5. Source(m, n, column, columns, series) = series[found]
    BY <2>2 DEF Source
  <2> QED  BY <2>1, <2>4, <2>5
<1>3. ASSUME Cash \in columns => CashName(m, n) = Cash
      PROVE  Source(m, n, CashColumn, columns, series) = Only(CashName(m, n))
  <2>1. CashColumn[2] = "raw" /\ CashColumn[1] = Cash
    BY DEF CashColumn, Raw
  <2> QED  BY <1>3, <2>1 DEF Source
<1> QED  BY <1>1, <1>2, <1>3

\* A node's series is what is composed of it, when its children's are.
LEMMA SleeveAt ==
    ASSUME NEW s \in Studies, NEW m, LaidOut(s, m), NEW locals,
           AllocationsOf(s, m, locals, "backward"), NEW n \in m.nodes, NEW columns,
           Exposures(s.config) \subseteq columns,
           CashColumn \in DOMAIN locals[n] /\ Cash \in columns => CashName(m, n) = Cash,
           NEW t, NEW series,
           \A k \in m.children[n] : series[k] = t[k] /\ t[k] \in WholeWeights
    PROVE  LocalSeries(m, n, locals[n], columns, series)
             = ComposedAt(m, locals, "backward", t, n)
<1> DEFINE a == locals[n]
           I == m.instruments[n]
           C == m.children[n]
           source(column) == Source(m, n, column, columns, series)
           parts == [column \in DOMAIN a |-> Scaled(source(column), a[column])]
           h(x) == [column \in DOMAIN a |-> Times(source(column)[x], a[column])]
           direct(x) == [i \in I |-> IF i = x THEN a[Raw(i)] ELSE 0]
           part(x) == ChildPart(m, locals, "backward", t, n, x)
<1>1. IsAllocation(Columns(m, n, "backward"), n \in s.config.financed, a)
  BY DEF AllocationsOf
<1>2. /\ \A i \in I : a[Raw(i)] \in Int
      /\ \A k \in C : a[ChildColumn(m, k, "backward")] \in Int
      /\ CashHeld(a) \in Int
  BY LocalWeightsAre
<1>3. /\ \A i \in I : source(Raw(i)) = Only(i)
      /\ \A k \in C : source(ChildColumn(m, k, "backward")) = t[k]
      /\ CashColumn \in DOMAIN a => source(CashColumn) = Only(CashName(m, n))
  BY SourceIs
<1>4. /\ a \in [DOMAIN a -> Int]
      /\ DOMAIN a \subseteq Columns(m, n, "backward") \cup {CashColumn}
      /\ Columns(m, n, "backward") \subseteq DOMAIN a
  BY <1>1 DEF IsAllocation
<1>5. \A name, x \in Names : Only(name)[x] = IF x = name THEN Unit ELSE 0
  BY DEF Only, Zero
<1>6. I \subseteq Names
  <2>1. I \subseteq Exposures(s.config)
    BY DEF LaidOut
  <2> QED  BY <2>1, NamesOfStudies
<1>7. CashName(m, n) \in Names
  <2>1. n \in s.config.nodes
    BY DEF LaidOut
  <2> QED  BY <2>1, CashIsAName, CashIsNoTicker DEF CashName
<1> HIDE DEF source
<1>8. ASSUME NEW x \in Names
      PROVE  SumOn(h(x), DOMAIN a) = ComposedAt(m, locals, "backward", t, n)[x]
  <2>1. \A i \in I : h(x)[Raw(i)] = direct(x)[i] /\ direct(x)[i] \in Int
    <3>1. ASSUME NEW i \in I  PROVE h(x)[Raw(i)] = direct(x)[i] /\ direct(x)[i] \in Int
      <4>1. Raw(i) \in DOMAIN a
        BY <1>4 DEF Columns
      <4>2. h(x)[Raw(i)] = Times(Only(i)[x], a[Raw(i)])
        BY <1>3, <4>1
      <4>3. Only(i)[x] = IF i = x THEN Unit ELSE 0
        BY <1>5, <1>6
      <4>4. a[Raw(i)] \in Int
        BY <1>2
      <4> HIDE DEF h
      <4> QED  BY <4>2, <4>3, <4>4, TimesIs
    <3> QED  BY <3>1
  <2>2. \A k \in C : /\ h(x)[ChildColumn(m, k, "backward")] = part(x)[k]
                     /\ part(x)[k] \in Int
    <3>1. ASSUME NEW k \in C
          PROVE  h(x)[ChildColumn(m, k, "backward")] = part(x)[k] /\ part(x)[k] \in Int
      <4> DEFINE w == a[ChildColumn(m, k, "backward")]
      <4>1. ChildColumn(m, k, "backward") \in DOMAIN a
        BY <1>4 DEF Columns
      <4>2. h(x)[ChildColumn(m, k, "backward")] = Times(t[k][x], w)
        BY <1>3, <4>1
      <4>3. part(x)[k] = Times(w, t[k][x])
        BY DEF ChildPart
      <4>4. t[k][x] \in Int /\ w \in Int
        BY <1>2 DEF WholeWeights
      <4> HIDE DEF h, part, w
      <4> QED  BY <4>2, <4>3, <4>4, TimesIs, UnitDivides
    <3> QED  BY <3>1
  <2>3. CashColumn \in DOMAIN a =>
          h(x)[CashColumn] = IF x = CashName(m, n) THEN CashHeld(a) ELSE 0
    <3> SUFFICES ASSUME CashColumn \in DOMAIN a
                 PROVE  h(x)[CashColumn] = IF x = CashName(m, n) THEN CashHeld(a) ELSE 0
      OBVIOUS
    <3>1. h(x)[CashColumn] = Times(Only(CashName(m, n))[x], a[CashColumn])
      BY <1>3
    <3>2. Only(CashName(m, n))[x] = IF x = CashName(m, n) THEN Unit ELSE 0
      BY <1>5, <1>7
    <3>3. CashHeld(a) = a[CashColumn] /\ a[CashColumn] \in Int
      BY <1>4 DEF CashHeld
    <3> HIDE DEF h
    <3> QED  BY <3>1, <3>2, <3>3, TimesIs
  <2>4. CashOf(a, h(x)) = IF x = CashName(m, n) THEN CashHeld(a) ELSE 0
    <3>1. CASE CashColumn \in DOMAIN a
      <4> HIDE DEF h
      <4> QED  BY <2>3, <3>1 DEF CashOf
    <3>2. CASE CashColumn \notin DOMAIN a
      BY <3>2 DEF CashOf, CashHeld
    <3> QED  BY <3>1, <3>2
  <2>5. IntegerOn(h(x), DOMAIN a)
    <3>1. \A column \in DOMAIN a : \/ column = CashColumn
                                   \/ \E i \in I : column = Raw(i)
                                   \/ \E k \in C : column = ChildColumn(m, k, "backward")
      BY <1>4 DEF Columns
    <3>2. CashColumn \in DOMAIN a => h(x)[CashColumn] \in Int
      <4> HIDE DEF h
      <4> QED  BY <1>2, <2>3
    <3> HIDE DEF h, direct, part
    <3> QED  BY <2>1, <2>2, <3>1, <3>2 DEF IntegerOn
  <2>6. SumOn(h(x), DOMAIN a)
          = SumOn(direct(x), I) + SumOn(part(x), C) + CashOf(a, h(x))
        /\ IsFiniteSet(I)
    <3> HIDE DEF h, direct, part, a
    <3> QED  BY <1>1, <2>1, <2>2, <2>5, SumsSplit
  <2>7. SumOn(direct(x), I) = IF x \in I THEN a[Raw(x)] ELSE 0
    <3> DEFINE w == IF x \in I THEN a[Raw(x)] ELSE 0
    <3>1. w \in Int
      BY <1>2
    <3>2. \A i \in I : direct(x)[i] = IF i = x THEN w ELSE 0
      OBVIOUS
    <3> HIDE DEF direct, w
    <3>3. SumOn(direct(x), I) = IF x \in I THEN w ELSE 0
      BY <2>6, <3>1, <3>2, SumOfOneOrNone
    <3> QED  BY <3>3 DEF w
  <2>8. SumOn(part(x), C) = SumOf(part(x))
    <3>1. [k \in C |-> part(x)[k]] = part(x)
      BY DEF ChildPart
    <3> QED  BY <3>1 DEF SumOn
  <2>9. ComposedAt(m, locals, "backward", t, n)[x]
          = (IF x \in I THEN a[Raw(x)] ELSE 0) + SumOf(part(x))
          + (IF x = CashName(m, n) THEN CashHeld(a) ELSE 0)
    <3> HIDE DEF part
    <3> QED  BY DEF ComposedAt, part
  <2> HIDE DEF h, direct, part
  <2> QED  BY <2>4, <2>6, <2>7, <2>8, <2>9
<1>9. ASSUME NEW x \in Names
      PROVE  [column \in DOMAIN parts |-> parts[column][x]] = [column \in DOMAIN a |-> h(x)[column]]
  BY <1>9 DEF Scaled
<1>10. LocalSeries(m, n, a, columns, series) = Total(parts)
  BY DEF LocalSeries, source
<1>11. Total(parts) = [x \in Names |-> SumOn(h(x), DOMAIN a)]
  <2>1. \A x \in Names : SumOf([column \in DOMAIN parts |-> parts[column][x]])
                           = SumOn(h(x), DOMAIN a)
    <3> HIDE DEF parts, h
    <3> QED  BY <1>9, Zenon DEF SumOn
  <2> HIDE DEF parts, h
  <2> QED  BY <2>1 DEF Total
<1>12. ComposedAt(m, locals, "backward", t, n)
         = [x \in Names |-> ComposedAt(m, locals, "backward", t, n)[x]]
  BY DEF ComposedAt
<1> HIDE DEF h, parts
<1> QED  BY <1>8, <1>10, <1>11, <1>12

\* A financed root has no proxy, and is the only node that is financed.
OneCash ==
    study.config.root \in study.config.financed =>
        /\ study.config.proxy[study.config.root] = None
        /\ study.config.financed = {study.config.root}

\* Where the data have a column for cash, it is the root's, and the root's only.
LEMMA OnlyTheRootLends ==
    ASSUME study \in Studies, OneCash, NEW n \in study.config.financed, Cash \in ReferenceColumns
    PROVE  CashName(study.config, n) = Cash
<1>1. Cash \notin Instruments(study.config)
  BY NamesOfStudies
<1>2. Cash \in FinancingColumns(study.config)
  BY <1>1 DEF ReferenceColumns
<1>3. PICK k \in study.config.financed :
        Cash = IF k = study.config.root THEN Cash ELSE CashAt(k)
  BY <1>2 DEF FinancingColumns
<1>4. k \in study.config.nodes
  BY StudiesAreOfTrees
<1>5. study.config.root \in study.config.financed
  BY <1>3, <1>4, CashIsNoTicker
<1>6. n = study.config.root /\ study.config.proxy[n] = None
  BY <1>5 DEF OneCash
<1> QED  BY <1>6 DEF CashName

\* The one estimate whose data have a column for cash has it for the node's own.
LEMMA CashIsOwn ==
    ASSUME BacktestTruths, AllocatedInv, OneCash, NEW e \in Finished,
           e.mode = "forward_backward", NEW n \in e.model.nodes,
           CashColumn \in DOMAIN e.backward[n], Cash \in e.columns
    PROVE  CashName(e.model, n) = Cash
<1>1. e = Estimate /\ pass = "done"
  BY DEF Finished
<1>2. e.columns = job.columns /\ e.model = job.model
  BY <1>1 DEF Estimate
<1>3. study \in Studies /\ JobInv
  BY DEF BacktestTruths, BacktestInv, PhaseInv
<1>4. Cash \notin Instruments(study.config)
  BY <1>3, NamesOfStudies
<1>5. e.model = study.config /\ Cash \in ReferenceColumns
  BY <1>1, <1>2, <1>3, <1>4 DEF JobInv
<1>6. AllocationsOf(study, e.model, e.backward, "backward") /\ LaidOut(study, e.model)
  BY FinishedAllocates
<1>7. n \in study.config.financed
  <2>1. CashColumn \notin Columns(e.model, n, "backward")
    BY <1>3, <1>6, ColumnsOfNodes
  <2>2. IsAllocation(Columns(e.model, n, "backward"), n \in study.config.financed, e.backward[n])
    BY <1>6 DEF AllocationsOf
  <2> QED  BY <2>1, <2>2 DEF IsAllocation
<1> QED  BY <1>3, <1>5, <1>7, OnlyTheRootLends

LEMMA SleevesHold ==
    ASSUME BacktestTruths, AllocatedInv, OneCash
    PROVE  SleevesAreWhatTheyHold
<1> SUFFICES ASSUME NEW e \in Finished, e.mode = "forward_backward"
             PROVE  SyntheticSeries(e.model, e.backward, e.columns)
                      = Compose(e.model, e.backward, "backward")
  BY DEF SleevesAreWhatTheyHold
<1> DEFINE m == e.model
           S == SyntheticSeries(m, e.backward, e.columns)
           t == Compose(m, e.backward, "backward")
           G == {n \in m.nodes : S[n] = t[n]}
<1>1. study \in Studies /\ LaidOut(study, m) /\ Whole(e)
  BY FinishedAllocates
<1>2. AllocationsOf(study, m, e.backward, "backward")
  BY FinishedAllocates
<1>3. Proper(m)
  BY <1>1 DEF LaidOut
<1>4. DOMAIN e.backward = m.nodes /\ Downwards(m, e.backward)
  BY <1>1, <1>3, BackwardIsDownwards
<1>5. IsSeries(m, e.backward, e.columns, S)
  BY <1>4, SeriesExist
<1>6. IsComposed(m, e.backward, "backward", t) /\ t \in [m.nodes -> WholeWeights]
  BY <1>1, <1>2, ComposeIs
<1>7. Exposures(study.config) \subseteq e.columns
  <2>1. e.columns = job.columns /\ pass # "idle"
    BY DEF Finished, Estimate
  <2>2. Instruments(study.config) \subseteq e.columns
    BY <2>1 DEF BacktestTruths, BacktestInv, JobInv, ReferenceColumns
  <2> QED  BY <1>1, <2>2, NamesOfStudies
<1> HIDE DEF S, t
<1>8. ASSUME NEW n \in m.nodes, m.children[n] \subseteq G  PROVE n \in G
  <2> DEFINE series == [k \in m.children[n] \cap DOMAIN e.backward |-> S[k]]
  <2>1. S[n] = LocalSeries(m, n, e.backward[n], e.columns, series)
    BY <1>4, <1>5 DEF IsSeries, SeriesOf
  <2>2. \A k \in m.children[n] : series[k] = t[k] /\ t[k] \in WholeWeights
    BY <1>4, <1>6, <1>8
  <2>3. CashColumn \in DOMAIN e.backward[n] /\ Cash \in e.columns => CashName(m, n) = Cash
    BY CashIsOwn
  <2> HIDE DEF series, G
  <2>4. S[n] = ComposedAt(m, e.backward, "backward", t, n)
    <3> HIDE DEF m
    <3>1. LocalSeries(m, n, e.backward[n], e.columns, series)
            = ComposedAt(m, e.backward, "backward", t, n)
      BY <1>1, <1>2, <1>7, <2>2, <2>3, SleeveAt
    <3> QED  BY <2>1, <3>1
  <2>5. t[n] = ComposedAt(m, e.backward, "backward", t, n)
    BY <1>4, <1>6 DEF IsComposed
  <2> QED  BY <2>4, <2>5 DEF G
<1>9. m.nodes \subseteq G
  <2> HIDE DEF G, m
  <2> QED  BY <1>3, <1>8, LeavesUp
<1>10. S = [n \in m.nodes |-> S[n]] /\ t = [n \in m.nodes |-> t[n]]
  <2>1. S = [n \in m.nodes |-> SeriesOf(m, e.backward, e.columns, S, n)]
    BY <1>4, <1>5 DEF IsSeries
  <2> QED  BY <1>6, <2>1
<1>11. S = t
  BY <1>9, <1>10
<1> QED  BY <1>11 DEF S, t

\* What a parent was shown is what it holds: the synthetic series a backward pass makes of a
\* node (_local_series) is the return of the terminal positions composed for it (_compose),
\* for every tree, contraction and window, unless a financed root lends its rate to the cash
\* of another node.
THEOREM SleevesAlwaysHold ==
    ASSUME SolverAllocates  PROVE Spec => [](OneCash => SleevesAreWhatTheyHold)
<1>1. BacktestTruths /\ AllocatedInv => (OneCash => SleevesAreWhatTheyHold)
  BY SleevesHold
<1> QED  BY <1>1, BacktestsStaySound, AnswersStayAllocations, PTL

-----------------------------------------------------------------------------
(* Sums of terminal weights                                                *)

\* A product that is a weight again: nothing of it is rounded away.
Exact(a, b) == Unit * Times(a, b) = a * b

Direct(m, locals, n) == [x \in Names |-> IF x \in m.instruments[n] THEN locals[n][Raw(x)] ELSE 0]

\* The share of a child's terminal weights that its parent has.
Share(m, locals, kind, t, n, k) ==
    [x \in Names |-> Times(locals[n][ChildColumn(m, k, kind)], t[k][x])]

Shares(m, locals, kind, t, n, C) ==
    [k \in m.children[n] |-> SumOn(Share(m, locals, kind, t, n, k), C)]

ExactAt(m, locals, kind, t, n) ==
    \A k \in m.children[n] : \A x \in Names :
        Exact(locals[n][ChildColumn(m, k, kind)], t[k][x])

LEMMA UnitCancels == \A a, b \in Int : Unit * a = Unit * b => a = b
<1>1. Unit \in Int /\ Unit > 0
  BY UnitIsPositive
<1>2. ASSUME NEW a \in Int, NEW b \in Int, Unit * a = Unit * b  PROVE a = b
  <2>1. Unit * (a - b) = 0
    BY <1>1, <1>2
  <2>2. a - b \in Int
    OBVIOUS
  <2>3. a - b = 0
    BY <1>1, <2>1, <2>2, Z3
  <2> QED  BY <2>3
<1> QED  BY <1>2

LEMMA ShareIsExact ==
    ASSUME NEW m, NEW locals, NEW kind, NEW t, NEW n, NEW k \in m.children[n],
           t[k] \in WholeWeights, locals[n][ChildColumn(m, k, kind)] \in Int,
           ExactAt(m, locals, kind, t, n), NEW C \in SUBSET Names
    PROVE  /\ IntegerOn(Share(m, locals, kind, t, n, k), Names)
           /\ SumOn(Share(m, locals, kind, t, n, k), C) \in Int
           /\ SumOn(t[k], C) \in Int
           /\ Unit * SumOn(Share(m, locals, kind, t, n, k), C)
                = locals[n][ChildColumn(m, k, kind)] * SumOn(t[k], C)
<1> DEFINE w == locals[n][ChildColumn(m, k, kind)]
           share == Share(m, locals, kind, t, n, k)
           product == [x \in C |-> w * t[k][x]]
<1>1. \A x \in Names : t[k][x] \in Int /\ share[x] = Times(w, t[k][x]) /\ Exact(w, t[k][x])
  BY DEF WholeWeights, Share, ExactAt
<1>2. w \in Int /\ Unit \in Int /\ IsFiniteSet(C)
  BY UnitDivides, NamesAreFinite, FS_Subset
<1> HIDE DEF w, share
<1>3. \A x \in Names : share[x] \in Int
  BY <1>1, <1>2, UnitDivides
<1>4. IntegerOn(share, C) /\ IntegerOn(t[k], C) /\ IntegerOn(share, Names)
  BY <1>1, <1>3 DEF IntegerOn
<1>5. \A x \in C : product[x] = w * t[k][x] /\ product[x] = Unit * share[x]
  BY <1>1 DEF Exact
<1> HIDE DEF product
<1>6. SumOn(product, C) = w * SumOn(t[k], C)
  BY <1>2, <1>4, <1>5, SumScaled
<1>7. SumOn(product, C) = Unit * SumOn(share, C)
  BY <1>2, <1>4, <1>5, SumScaled
<1>8. SumOn(share, C) \in Int /\ SumOn(t[k], C) \in Int
  BY <1>2, <1>4, SumOnIsWhole
<1> QED  BY <1>4, <1>6, <1>7, <1>8 DEF w, share

\* What a node gives to some names: directly, through its children, and in cash.
LEMMA TermsSplit ==
    ASSUME NEW s \in Studies, NEW m, LaidOut(s, m), NEW locals, NEW kind,
           AllocationsOf(s, m, locals, kind), NEW t \in [m.nodes -> WholeWeights],
           IsComposed(m, locals, kind, t), NEW n \in m.nodes, ExactAt(m, locals, kind, t, n),
           NEW C \in SUBSET Names, CashName(m, n) \in C
    PROVE  /\ SumOn(t[n], C) = SumOn(Direct(m, locals, n), C)
                                 + SumOn(Shares(m, locals, kind, t, n, C), m.children[n])
                                 + CashHeld(locals[n])
           /\ IntegerOn(Shares(m, locals, kind, t, n, C), m.children[n])
           /\ SumOn(Direct(m, locals, n), C) \in Int
           /\ SumOn(t[n], C) \in Int
<1> DEFINE K == m.children[n]
           direct == Direct(m, locals, n)
           cash == [x \in Names |-> IF x = CashName(m, n) THEN CashHeld(locals[n]) ELSE 0]
           sleeves == [x \in Names |-> SumOf(ChildPart(m, locals, kind, t, n, x))]
           share == [k \in K |-> Share(m, locals, kind, t, n, k)]
           rows == Shares(m, locals, kind, t, n, C)
           more == [x \in Names |-> direct[x] + sleeves[x]]
<1>1. /\ \A i \in m.instruments[n] : locals[n][Raw(i)] \in Int
      /\ \A k \in K : locals[n][ChildColumn(m, k, kind)] \in Int
      /\ CashHeld(locals[n]) \in Int
      /\ IsFiniteSet(K) /\ K \subseteq m.nodes
  BY LocalWeightsAre
<1>2. IsFiniteSet(C)
  BY NamesAreFinite, FS_Subset
<1>3. \A k \in K : t[k] \in WholeWeights
  BY <1>1
<1>4. \A k \in K : /\ IntegerOn(share[k], Names) /\ rows[k] = SumOn(share[k], C)
                   /\ rows[k] \in Int
  BY <1>1, <1>3, ShareIsExact DEF Shares
<1>5. \A x \in C : /\ sleeves[x] = SumOn(Column(share, K, x), K)
                   /\ sleeves[x] \in Int
  <2>1. ASSUME NEW x \in C
        PROVE  sleeves[x] = SumOn(Column(share, K, x), K) /\ sleeves[x] \in Int
    <3>1. ChildPart(m, locals, kind, t, n, x) = Column(share, K, x)
      BY DEF ChildPart, Share, Column
    <3>2. Weights(ChildPart(m, locals, kind, t, n, x))
      BY <1>3, ComposedIsWhole
    <3>3. SumOf(ChildPart(m, locals, kind, t, n, x)) \in Int
      BY <3>2, SumIsWhole
    <3> DEFINE column == Column(share, K, x)
    <3>4. [k \in K |-> column[k]] = column
      BY DEF Column
    <3> HIDE DEF share, column
    <3>5. SumOn(column, K) = SumOf(ChildPart(m, locals, kind, t, n, x))
      BY <3>1, <3>4, Zenon DEF SumOn, column
    <3> QED  BY <3>3, <3>5 DEF column
  <2> QED  BY <2>1
<1>6. \A x \in C : direct[x] \in Int /\ cash[x] \in Int
  BY <1>1 DEF Direct
<1>7. t[n] = ComposedAt(m, locals, kind, t, n)
  BY DEF IsComposed, AllocationsOf
<1>8. ASSUME NEW x \in C  PROVE t[n][x] = more[x] + cash[x]
  <2> DEFINE sum == SumOf(ChildPart(m, locals, kind, t, n, x))
  <2>1. ComposedAt(m, locals, kind, t, n)[x]
          = (IF x \in m.instruments[n] THEN locals[n][Raw(x)] ELSE 0) + sum
          + (IF x = CashName(m, n) THEN CashHeld(locals[n]) ELSE 0)
    <3> HIDE DEF sum
    <3> QED  BY DEF ComposedAt, sum
  <2>2. /\ direct[x] = IF x \in m.instruments[n] THEN locals[n][Raw(x)] ELSE 0
        /\ more[x] = direct[x] + sum
        /\ cash[x] = IF x = CashName(m, n) THEN CashHeld(locals[n]) ELSE 0
    BY DEF Direct
  <2> HIDE DEF sum, direct, more, cash
  <2> QED  BY <1>7, <2>1, <2>2
<1>9. \A x \in C : more[x] = direct[x] + sleeves[x] /\ more[x] \in Int
  <2>1. \A x \in C : more[x] = direct[x] + sleeves[x]
    OBVIOUS
  <2>2. \A x \in C : direct[x] \in Int /\ sleeves[x] \in Int
    BY <1>5, <1>6
  <2> HIDE DEF direct, sleeves, more
  <2> QED  BY <2>1, <2>2
<1>10. \A x \in C : cash[x] = IF x = CashName(m, n) THEN CashHeld(locals[n]) ELSE 0
  OBVIOUS
<1> HIDE DEF direct, cash, sleeves, share, rows, more, K
<1>11. /\ IntegerOn(more, C) /\ IntegerOn(cash, C)
       /\ IntegerOn(direct, C) /\ IntegerOn(sleeves, C)
       /\ \A k \in K : IntegerOn(share[k], C)
  BY <1>4, <1>5, <1>6, <1>9 DEF IntegerOn
<1>12. SumOn(t[n], C) = SumOn(more, C) + SumOn(cash, C)
  BY <1>2, <1>8, <1>11, SumPlus
<1>13. SumOn(more, C) = SumOn(direct, C) + SumOn(sleeves, C)
  BY <1>2, <1>9, <1>11, SumPlus
<1>14. SumOn(cash, C) = CashHeld(locals[n])
  <2> DEFINE held == CashHeld(locals[n])
             name == CashName(m, n)
  <2>1. held \in Int /\ name \in C /\ \A x \in C : cash[x] = IF x = name THEN held ELSE 0
    BY <1>1, <1>10
  <2> HIDE DEF held, name
  <2>2. SumOn(cash, C) = IF name \in C THEN held ELSE 0
    BY <1>2, <2>1, SumOfOneOrNone
  <2> QED  BY <2>1, <2>2 DEF held
<1>15. SumOn(rows, K) = SumOn(sleeves, C)
  BY <1>1, <1>2, <1>4, <1>5, <1>11, SumExchanged
<1>16. IntegerOn(rows, K) /\ SumOn(direct, C) \in Int /\ SumOn(rows, K) \in Int
  BY <1>1, <1>2, <1>4, <1>6, SumOnIsWhole DEF IntegerOn
<1>17. SumOn(t[n], C) = SumOn(direct, C) + SumOn(rows, K) + CashHeld(locals[n])
  BY <1>12, <1>13, <1>14, <1>15
<1>18. SumOn(t[n], C) \in Int
  BY <1>1, <1>16, <1>17
<1> QED  BY <1>16, <1>17, <1>18 DEF direct, rows, K

\* Every node's terminal weights add up to one.
LEMMA EachAddsUp ==
    ASSUME NEW s \in Studies, NEW m, LaidOut(s, m), NEW locals, NEW kind,
           AllocationsOf(s, m, locals, kind), NEW t \in [m.nodes -> WholeWeights],
           IsComposed(m, locals, kind, t),
           \A n \in m.nodes : ExactAt(m, locals, kind, t, n)
    PROVE  \A n \in m.nodes : SumOn(t[n], Names) = Unit
<1> DEFINE G == {n \in m.nodes : SumOn(t[n], Names) = Unit}
<1>1. ASSUME NEW n \in m.nodes, m.children[n] \subseteq G  PROVE n \in G
  <2> DEFINE a == locals[n]
             I == m.instruments[n]
             K == m.children[n]
             direct == Direct(m, locals, n)
             below == [k \in K |-> a[ChildColumn(m, k, kind)]]
             shares == Shares(m, locals, kind, t, n, Names)
  <2>1. /\ \A i \in I : a[Raw(i)] \in Int
        /\ \A k \in K : a[ChildColumn(m, k, kind)] \in Int
        /\ IsFiniteSet(K) /\ K \subseteq m.nodes
    BY LocalWeightsAre
  <2>2. IsAllocation(Columns(m, n, kind), n \in s.config.financed, a)
    BY DEF AllocationsOf
  <2>3. a \in [DOMAIN a -> Int] /\ SumOf(a) = Unit
    BY <2>2 DEF IsAllocation
  <2>4. I \subseteq Names
    <3>1. I \subseteq Exposures(s.config)
      BY DEF LaidOut
    <3> QED  BY <3>1, NamesOfStudies
  <2>5. CashName(m, n) \in Names
    <3>1. n \in s.config.nodes
      BY DEF LaidOut
    <3> QED  BY <3>1, CashIsAName, CashIsNoTicker DEF CashName
  <2>6. ASSUME NEW k \in K  PROVE shares[k] = below[k]
    <3> DEFINE w == a[ChildColumn(m, k, kind)]
               share == SumOn(Share(m, locals, kind, t, n, k), Names)
    <3>1. t[k] \in WholeWeights /\ SumOn(t[k], Names) = Unit
      BY <1>1, <2>1
    <3>2. ExactAt(m, locals, kind, t, n) /\ w \in Int /\ Names \in SUBSET Names
      BY <2>1
    <3>3. share \in Int /\ Unit * share = w * SumOn(t[k], Names)
      BY <3>1, <3>2, ShareIsExact
    <3>4. shares[k] = share /\ below[k] = w
      BY DEF Shares
    <3>5. w * Unit = Unit * w
      BY <3>2, UnitDivides
    <3> HIDE DEF w, share
    <3>6. share = w
      BY <3>1, <3>2, <3>3, <3>5, UnitCancels
    <3> QED  BY <3>4, <3>6
  <2>7. SumOn(a, DOMAIN a) = Unit
    <3>1. [x \in DOMAIN a |-> a[x]] = a
      BY <2>3
    <3> HIDE DEF a
    <3> QED  BY <2>3, <3>1 DEF SumOn
  <2>8. CashOf(a, a) = CashHeld(a)
    BY DEF CashOf, CashHeld
  <2>9. /\ \A i \in I : direct[i] = a[Raw(i)] /\ direct[i] \in Int
        /\ \A x \in Names \ I : direct[x] = 0
    BY <2>1, <2>4 DEF Direct
  <2>10. \A k \in K : below[k] = a[ChildColumn(m, k, kind)]
    OBVIOUS
  <2> HIDE DEF a, direct, below, shares, I, K
  <2>11. IntegerOn(a, DOMAIN a)
    BY <2>3 DEF IntegerOn
  <2>12. SumOn(a, DOMAIN a) = SumOn(direct, I) + SumOn(below, K) + CashOf(a, a)
    BY <2>2, <2>9, <2>10, <2>11, SumsSplit DEF I, K
  <2>13. SumOn(direct, Names) = SumOn(direct, I)
    <3>1. IntegerOn(direct, I) /\ I \in SUBSET Names
      BY <2>4, <2>9 DEF IntegerOn
    <3> QED  BY <2>9, <3>1, NamesAreFinite, SumOfSupport
  <2>14. SumOn(shares, K) = SumOn(below, K)
    BY <2>6, SumSame
  <2>15. SumOn(t[n], Names) = SumOn(direct, Names) + SumOn(shares, K) + CashHeld(a)
    <3>1. Names \in SUBSET Names
      OBVIOUS
    <3>2. SumOn(t[n], Names) = SumOn(Direct(m, locals, n), Names)
            + SumOn(Shares(m, locals, kind, t, n, Names), m.children[n]) + CashHeld(locals[n])
      BY <2>5, <3>1, TermsSplit
    <3> QED  BY <3>2 DEF direct, shares, K, a
  <2>16. SumOn(t[n], Names) = Unit
    BY <2>7, <2>8, <2>12, <2>13, <2>14, <2>15
  <2> QED  BY <2>16
<1>2. m.nodes \subseteq G
  <2> HIDE DEF G
  <2> QED  BY <1>1, LeavesUp DEF LaidOut
<1> QED  BY <1>2

-----------------------------------------------------------------------------
(* Global weights                                                          *)

GlobalAt(m, locals, g, n) ==
    IF n = m.root THEN Unit
    ELSE Times(g[Parent(m, n)], ChildWeight(m, locals[Parent(m, n)], n))

IsGlobal(m, locals, g) == g = [n \in DOMAIN locals |-> GlobalAt(m, locals, g, n)]

\* A child is looked up under the column its parent was solved with.
LEMMA ChildWeightIs ==
    ASSUME NEW s \in Studies, NEW m, LaidOut(s, m), NEW locals, NEW kind,
           AllocationsOf(s, m, locals, kind), NEW n \in m.nodes, NEW k \in m.children[n]
    PROVE  /\ ChildWeight(m, locals[n], k) = locals[n][ChildColumn(m, k, kind)]
           /\ locals[n][ChildColumn(m, k, kind)] \in Int
<1>1. IsAllocation(Columns(m, n, kind), n \in s.config.financed, locals[n])
  BY DEF AllocationsOf
<1>2. /\ Columns(m, n, kind) \subseteq DOMAIN locals[n]
      /\ DOMAIN locals[n] \subseteq Columns(m, n, kind) \cup {CashColumn}
  BY <1>1 DEF IsAllocation
<1>3. locals[n][ChildColumn(m, k, kind)] \in Int
  BY LocalWeightsAre
<1>4. m.proxy[k] \in Exposures(s.config) /\ m.proxy[k] \notin m.instruments[n]
  BY DEF LaidOut
<1>5. CASE kind = "backward"
  <2>1. ChildColumn(m, k, kind) = Synth(m.proxy[k])
    BY <1>5 DEF ChildColumn
  <2>2. m.proxy[k] # Cash
    BY <1>4, NamesOfStudies
  <2>3. Raw(m.proxy[k]) # CashColumn
    BY <2>2 DEF CashColumn, Raw
  <2>4. Raw(m.proxy[k]) \notin Columns(m, n, kind)
    BY <1>4, <1>5 DEF Columns, ChildColumn, Raw, Synth
  <2>5. Raw(m.proxy[k]) \notin DOMAIN locals[n]
    BY <1>2, <2>3, <2>4
  <2> QED  BY <1>3, <2>1, <2>5 DEF ChildWeight
<1>6. CASE kind # "backward"
  <2>1. ChildColumn(m, k, kind) = Raw(m.proxy[k])
    BY <1>6 DEF ChildColumn
  <2>2. ChildColumn(m, k, kind) \in DOMAIN locals[n]
    BY <1>2 DEF Columns
  <2> QED  BY <1>3, <2>1, <2>2 DEF ChildWeight
<1> QED  BY <1>5, <1>6

LEMMA GlobalWeightsAre ==
    ASSUME NEW s \in Studies, NEW m, LaidOut(s, m), NEW locals, NEW kind,
           AllocationsOf(s, m, locals, kind), NEW g, g = GlobalWeights(m, locals)
    PROVE  /\ g \in [m.nodes -> Int] /\ g[m.root] = Unit
           /\ \A n \in m.nodes : \A k \in m.children[n] :
                g[k] = Times(g[n], locals[n][ChildColumn(m, k, kind)])
<1> DEFINE D == m.nodes
           rank == [n \in D |-> n]
           made(h) == [n \in D |-> GlobalAt(m, locals, h, n)]
           make == [h \in [D -> Int] |-> made(h)]
<1>1. /\ DOMAIN locals = D /\ Proper(m) /\ ParentsFirst(m) /\ m.root \in D /\ D \subseteq Nat
      /\ \A n \in NonRoot(m) : ParentIs(m, n, Parent(m, n))
      /\ \A n \in D : \A k \in m.children[n] : ParentIs(m, k, n)
  BY DEF AllocationsOf, LaidOut, Proper
<1>2. \A n \in D \ {m.root} : /\ Parent(m, n) \in D /\ n \in m.children[Parent(m, n)]
                              /\ Parent(m, n) < n
  BY <1>1 DEF NonRoot, ParentIs, ParentsFirst
<1>3. \A n \in D \ {m.root} : ChildWeight(m, locals[Parent(m, n)], n) \in Int
  BY <1>2, ChildWeightIs
<1>4. Unit \in Int
  BY UnitDivides
<1>5. ASSUME NEW h \in [D -> Int]  PROVE made(h) \in [D -> Int]
  <2>1. \A n \in D : GlobalAt(m, locals, h, n) \in Int
    BY <1>2, <1>3, <1>4, UnitDivides DEF GlobalAt
  <2> QED  BY <2>1
<1>6. make \in [[D -> Int] -> [D -> Int]]
  <2> HIDE DEF made
  <2> QED  BY <1>5
<1>7. LooksDown(D, Int, rank, make)
  <2>1. ASSUME NEW n \in D, NEW h \in [D -> Int], NEW f \in [D -> Int],
               \A k \in D : rank[k] < rank[n] => h[k] = f[k]
        PROVE  make[h][n] = make[f][n]
    <3>1. n # m.root => h[Parent(m, n)] = f[Parent(m, n)]
      BY <1>2, <2>1
    <3>2. GlobalAt(m, locals, h, n) = GlobalAt(m, locals, f, n)
      BY <3>1 DEF GlobalAt
    <3> QED  BY <3>2
  <2> HIDE DEF D, rank, make
  <2> QED  BY <2>1 DEF LooksDown
<1>8. PICK f \in [D -> Int] : make[f] = f
  <2>1. rank \in [D -> Nat]
    BY <1>1
  <2>2. HasFixpoint(D, Int, make)
    <3> HIDE DEF D, rank, make
    <3>1. 0 \in Int
      OBVIOUS
    <3> QED  BY <1>6, <1>7, <2>1, <3>1, RecursionExists
  <2> QED  BY <2>2 DEF HasFixpoint
<1>9. IsGlobal(m, locals, f)
  <2>1. f = made(f)
    BY <1>8
  <2> QED  BY <1>1, <2>1 DEF IsGlobal
<1>10. g = CHOOSE h : IsGlobal(m, locals, h)
  BY DEF GlobalWeights, IsGlobal, GlobalAt
<1>11. IsGlobal(m, locals, g)
  BY <1>9, <1>10
<1>12. g = [n \in D |-> GlobalAt(m, locals, g, n)]
  BY <1>1, <1>11 DEF IsGlobal
<1>13. \A n \in D : g[n] = GlobalAt(m, locals, g, n)
  <2>1. DOMAIN g = D
    BY <1>12
  <2> QED  BY <1>1, <1>11 DEF IsGlobal
<1>14. g[m.root] = Unit
  BY <1>1, <1>13 DEF GlobalAt
<1>15. ASSUME NEW n \in D, NEW k \in m.children[n]
       PROVE  g[k] = Times(g[n], locals[n][ChildColumn(m, k, kind)])
  <2>1. k \in D /\ k # m.root /\ Parent(m, k) = n
    <3>1. k \in D /\ n < k /\ m.root <= n /\ k \in Nat /\ n \in Nat /\ m.root \in Nat
      BY <1>1 DEF ParentsFirst, Proper
    <3>2. k \in NonRoot(m)
      BY <3>1 DEF NonRoot
    <3>3. Parent(m, k) = n
      BY <1>1, <3>2 DEF ParentIs
    <3> QED  BY <3>1, <3>3
  <2> QED  BY <1>13, <2>1, ChildWeightIs DEF GlobalAt
<1> DEFINE G == {n \in D : g[n] \in Int}
<1>16. m.nodes \subseteq G
  <2>1. m.root \in G
    BY <1>1, <1>4, <1>14
  <2>2. ASSUME NEW n \in NonRoot(m), Parent(m, n) \in G  PROVE n \in G
    <3>1. n \in D \ {m.root}
      BY DEF NonRoot
    <3>2. g[n] = Times(g[Parent(m, n)], ChildWeight(m, locals[Parent(m, n)], n))
      BY <1>13, <3>1 DEF GlobalAt
    <3> QED  BY <1>3, <2>2, <3>1, <3>2, UnitDivides
  <2> HIDE DEF G, D
  <2> QED  BY <1>1, <2>1, <2>2, RootDown
<1>17. g \in [D -> Int]
  <2>1. \A n \in D : g[n] \in Int
    BY <1>16
  <2>2. \A n \in D : GlobalAt(m, locals, g, n) \in Int
    BY <1>13, <2>1
  <2> QED  BY <1>12, <2>2
<1> QED  BY <1>14, <1>15, <1>17

-----------------------------------------------------------------------------
(* The nodes' cash, at their global weights, is the portfolio's            *)

ExactGlobally(m, locals, kind, g) ==
    \A n \in m.nodes :
        /\ Exact(g[n], CashHeld(locals[n]))
        /\ \A k \in m.children[n] : Exact(g[n], locals[n][ChildColumn(m, k, kind)])

\* The weight a node gives to C, in the portfolio: its children's, and its own cash.
LEMMA WeightPassesDown ==
    ASSUME NEW s \in Studies, NEW m, LaidOut(s, m), NEW locals, NEW kind,
           AllocationsOf(s, m, locals, kind), NEW t \in [m.nodes -> WholeWeights],
           IsComposed(m, locals, kind, t), NEW n \in m.nodes, ExactAt(m, locals, kind, t, n),
           NEW C \in SUBSET Names, CashName(m, n) \in C, C \cap Exposures(s.config) = {},
           NEW g \in [m.nodes -> Int], ExactGlobally(m, locals, kind, g),
           \A k \in m.children[n] : g[k] = Times(g[n], locals[n][ChildColumn(m, k, kind)]),
           NEW v, \A k \in m.nodes : v[k] = g[k] * SumOn(t[k], C)
    PROVE  v[n] = SumOn(v, m.children[n]) + Unit * Times(g[n], CashHeld(locals[n]))
<1> DEFINE K == m.children[n]
           shares == Shares(m, locals, kind, t, n, C)
           p == [k \in K |-> g[n] * shares[k]]
           cash == CashHeld(locals[n])
           direct == Direct(m, locals, n)
<1>1. /\ cash \in Int /\ g[n] \in Int /\ IsFiniteSet(K) /\ K \subseteq m.nodes
      /\ \A k \in K : locals[n][ChildColumn(m, k, kind)] \in Int
  BY LocalWeightsAre
<1>2. SumOn(t[n], C) = SumOn(direct, C) + SumOn(shares, K) + cash /\ IntegerOn(shares, K)
  BY TermsSplit
<1>3. SumOn(direct, C) = 0
  <2>1. \A x \in C : direct[x] = 0
    <3>1. \A x \in C : x \notin m.instruments[n]
      BY DEF LaidOut
    <3> QED  BY <3>1 DEF Direct
  <2>2. IsFiniteSet(C)
    BY NamesAreFinite, FS_Subset
  <2> HIDE DEF direct
  <2> QED  BY <2>1, <2>2, SumOfZeros
<1>4. SumOn(shares, K) \in Int
  BY <1>1, <1>2, SumOnIsWhole
<1>5. ASSUME NEW k \in K  PROVE p[k] = v[k]
  <2> DEFINE w == locals[n][ChildColumn(m, k, kind)]
             c == SumOn(t[k], C)
             share == SumOn(Share(m, locals, kind, t, n, k), C)
  <2>1. t[k] \in WholeWeights /\ k \in m.nodes
    BY <1>1
  <2>2. share \in Int /\ c \in Int /\ Unit * share = w * c
    BY <1>1, <2>1, ShareIsExact
  <2>3. Unit * g[k] = g[n] * w
    BY DEF ExactGlobally, Exact
  <2>4. p[k] = g[n] * share /\ v[k] = g[k] * c
    BY <2>1 DEF Shares
  <2>5. w \in Int /\ g[n] \in Int /\ g[k] \in Int /\ Unit \in Int
    BY <1>1, <2>1, UnitDivides
  <2> HIDE DEF w, c, share, p
  <2>6. Unit * (g[n] * share) = Unit * (g[k] * c)
    <3>1. Unit * (g[n] * share) = g[n] * (Unit * share)
      BY <2>2, <2>5
    <3>2. g[n] * (w * c) = (g[n] * w) * c
      BY <2>2, <2>5
    <3>3. (Unit * g[k]) * c = Unit * (g[k] * c)
      BY <2>2, <2>5
    <3> QED  BY <2>2, <2>3, <3>1, <3>2, <3>3
  <2>7. g[n] * share \in Int /\ g[k] * c \in Int
    BY <2>2, <2>5
  <2> QED  BY <2>4, <2>6, <2>7, UnitCancels
<1>6. \A k \in K : p[k] = g[n] * shares[k]
  OBVIOUS
<1>7. v[n] = g[n] * SumOn(t[n], C)
  OBVIOUS
<1>8. Unit * Times(g[n], cash) = g[n] * cash
  BY DEF ExactGlobally, Exact
<1> HIDE DEF K, shares, p, cash, direct
<1>9. SumOn(p, K) = g[n] * SumOn(shares, K)
  BY <1>1, <1>2, <1>6, SumScaled
<1>10. SumOn(p, K) = SumOn(v, K)
  BY <1>5, SumSame
<1>11. g[n] * (SumOn(shares, K) + cash) = g[n] * SumOn(shares, K) + g[n] * cash
  BY <1>1, <1>4
<1>12. SumOn(t[n], C) = SumOn(shares, K) + cash
  BY <1>1, <1>2, <1>3, <1>4
<1>13. v[n] = SumOn(v, K) + Unit * Times(g[n], cash)
  BY <1>7, <1>8, <1>9, <1>10, <1>11, <1>12
<1> QED  BY <1>13 DEF K, cash

\* So, from the root down, the weight of names nobody holds directly is the nodes' cash.
LEMMA CashIsExplained ==
    ASSUME NEW s \in Studies, NEW m, LaidOut(s, m), NEW locals, NEW kind,
           AllocationsOf(s, m, locals, kind), NEW t \in [m.nodes -> WholeWeights],
           IsComposed(m, locals, kind, t),
           \A n \in m.nodes : ExactAt(m, locals, kind, t, n),
           NEW C \in SUBSET Names, \A n \in m.nodes : CashName(m, n) \in C,
           C \cap Exposures(s.config) = {},
           NEW g \in [m.nodes -> Int], ExactGlobally(m, locals, kind, g), g[m.root] = Unit,
           \A n \in m.nodes : \A k \in m.children[n] :
               g[k] = Times(g[n], locals[n][ChildColumn(m, k, kind)]),
           NEW u, \A n \in m.nodes : u[n] = Times(g[n], CashHeld(locals[n]))
    PROVE  SumOn(u, m.nodes) = SumOn(t[m.root], C)
<1> DEFINE N == m.nodes
           R == NonRoot(m)
           c(n) == SumOn(t[n], C)
           v == [n \in N |-> g[n] * c(n)]
           kids == [n \in N |-> SumOn(v, m.children[n])]
           scaled == [n \in N |-> Unit * u[n]]
<1>1. /\ IsFiniteSet(N) /\ m.root \in N /\ ParentsFirst(m) /\ N \subseteq Nat
      /\ \A n \in N : m.root <= n
      /\ \A n \in R : ParentIs(m, n, Parent(m, n))
      /\ \A n \in N : \A k \in m.children[n] : ParentIs(m, k, n)
  BY DEF LaidOut, Proper
<1>2. Unit \in Int /\ \A n \in N : u[n] \in Int /\ g[n] \in Int /\ c(n) \in Int
  <2>1. \A n \in N : CashHeld(locals[n]) \in Int
    BY LocalWeightsAre
  <2>2. ASSUME NEW n \in N  PROVE c(n) \in Int
    <3>1. CashName(m, n) \in C /\ ExactAt(m, locals, kind, t, n)
      OBVIOUS
    <3> QED  BY <3>1, TermsSplit
  <2>3. ASSUME NEW n \in N  PROVE u[n] \in Int /\ g[n] \in Int
    <3> DEFINE x == g[n]
               y == CashHeld(locals[n])
    <3>1. x \in Int /\ y \in Int /\ u[n] = Times(x, y)
      BY <2>1
    <3> HIDE DEF x, y
    <3>2. Times(x, y) \in Int
      BY <3>1, UnitDivides
    <3> QED  BY <3>1, <3>2 DEF x
  <2> HIDE DEF c
  <2> QED  BY <2>2, <2>3, UnitDivides
<1>3. \A n \in N : v[n] = g[n] * SumOn(t[n], C) /\ v[n] \in Int
  BY <1>2
<1>4. ASSUME NEW n \in N  PROVE v[n] = kids[n] + scaled[n]
  <2>1. v[n] = SumOn(v, m.children[n]) + Unit * Times(g[n], CashHeld(locals[n]))
    <3> HIDE DEF v
    <3> QED  BY <1>3, WeightPassesDown
  <2>2. kids[n] = SumOn(v, m.children[n]) /\ scaled[n] = Unit * Times(g[n], CashHeld(locals[n]))
    OBVIOUS
  <2> QED  BY <2>1, <2>2
<1>5. \A n \in N : /\ kids[n] = SumOn(v, m.children[n]) /\ scaled[n] = Unit * u[n]
                   /\ IsFiniteSet(m.children[n]) /\ IntegerOn(v, m.children[n])
  <2>1. ASSUME NEW n \in N
        PROVE  IsFiniteSet(m.children[n]) /\ IntegerOn(v, m.children[n])
    <3>1. m.children[n] \in SUBSET N
      BY <1>1 DEF ParentsFirst
    <3>2. IsFiniteSet(m.children[n])
      BY <1>1, <3>1, FS_Subset
    <3> HIDE DEF v
    <3> QED  BY <1>3, <3>1, <3>2 DEF IntegerOn
  <2>2. \A n \in N : kids[n] = SumOn(v, m.children[n]) /\ scaled[n] = Unit * u[n]
    OBVIOUS
  <2> QED  BY <2>1, <2>2
<1>6. v[m.root] = Unit * c(m.root)
  BY <1>1
<1> HIDE DEF v, kids, scaled, R
<1>7. \A n \in N : kids[n] \in Int /\ scaled[n] \in Int
  BY <1>2, <1>5, SumOnIsWhole
<1>8. IntegerOn(v, N) /\ IntegerOn(u, N) /\ IntegerOn(kids, N) /\ IntegerOn(scaled, N)
  BY <1>2, <1>3, <1>7 DEF IntegerOn
<1>9. SumOn(v, N) = SumOn(kids, N) + SumOn(scaled, N)
  BY <1>1, <1>4, <1>8, SumPlus
<1>10. SumOn(scaled, N) = Unit * SumOn(u, N)
  BY <1>1, <1>2, <1>5, <1>8, SumScaled
<1>11. SumOn(kids, N) = SumOn(v, Joined(m.children, N))
  <2>1. \A i, j \in N : i # j => m.children[i] \cap m.children[j] = {}
    BY <1>1 DEF ParentIs
  <2> QED  BY <1>1, <1>5, <2>1, SumOfParts
<1>12. Joined(m.children, N) = R
  <2>1. \A n \in N : \A k \in m.children[n] : k \in N /\ k # m.root
    BY <1>1 DEF ParentsFirst
  <2>2. \A k \in R : Parent(m, k) \in N /\ k \in m.children[Parent(m, k)]
    BY <1>1 DEF ParentIs
  <2>3. R = N \ {m.root}
    BY DEF R, NonRoot
  <2>4. Joined(m.children, N) \subseteq R
    BY <2>1, <2>3 DEF Joined
  <2>5. R \subseteq Joined(m.children, N)
    BY <2>2 DEF Joined
  <2> QED  BY <2>4, <2>5
<1>13. SumOn(v, N) = SumOn(v, R) + v[m.root]
  <2>1. m.root \notin R /\ N = R \cup {m.root} /\ R \in SUBSET N
    BY <1>1 DEF R, NonRoot
  <2>2. IsFiniteSet(R)
    BY <1>1, <2>1, FS_Subset
  <2> DEFINE root == m.root
  <2>3. IntegerOn(v, R \cup {root}) /\ root \notin R
    BY <1>8, <2>1
  <2>4. SumOn(v, R \cup {root}) = SumOn(v, R) + v[root]
    <3> HIDE DEF root
    <3> QED  BY <2>2, <2>3, SumGrows
  <2>5. SumOn(v, N) = SumOn(v, R \cup {m.root})
    BY <2>1, Zenon
  <2> QED  BY <2>4, <2>5
<1>14. SumOn(kids, N) = SumOn(v, R)
  BY <1>11, <1>12, Zenon
<1>15. SumOn(v, R) \in Int /\ SumOn(u, N) \in Int /\ c(m.root) \in Int /\ v[m.root] \in Int
  <2>1. SumOn(kids, N) \in Int /\ SumOn(u, N) \in Int
    BY <1>1, <1>8, SumOnIsWhole
  <2> QED  BY <1>1, <1>2, <1>3, <1>14, <2>1
<1>16. Unit * SumOn(u, N) = Unit * c(m.root)
  <2>1. Unit * SumOn(u, N) \in Int
    BY <1>2, <1>15
  <2> QED  BY <1>6, <1>9, <1>10, <1>13, <1>14, <1>15, <2>1
<1> HIDE DEF c
<1>17. SumOn(u, N) = c(m.root)
  BY <1>15, <1>16, UnitCancels
<1> QED  BY <1>17 DEF c

-----------------------------------------------------------------------------
(* The audits of an estimate                                               *)

ExactWeights(m, locals, kind) ==
    /\ \A n \in m.nodes : ExactAt(m, locals, kind, Compose(m, locals, kind), n)
    /\ ExactGlobally(m, locals, kind, GlobalWeights(m, locals))

\* The products of weights that an estimate's audits take are weights again.
NothingIsRounded ==
    \A e \in Finished :
        /\ DOMAIN e.forward # {} => ExactWeights(e.model, e.forward, "forward")
        /\ e.mode = "forward_backward" => ExactWeights(e.model, e.backward, "backward")
        /\ e.mode = "flat" => ExactWeights(FlatTree(e.model), e.flat, "flat")

LEMMA WeightsAddUp ==
    ASSUME NEW s \in Studies, NEW m, LaidOut(s, m), NEW locals, NEW kind,
           AllocationsOf(s, m, locals, kind), ExactWeights(m, locals, kind)
    PROVE  AddsUp(m, locals, kind)
<1> DEFINE t == Compose(m, locals, kind)
           g == GlobalWeights(m, locals)
           C == {Cash} \cup {CashAt(n) : n \in m.nodes}
           u == [n \in m.nodes |-> Times(g[n], CashHeld(locals[n]))]
           terminal == t[m.root]
<1>1. IsComposed(m, locals, kind, t) /\ t \in [m.nodes -> WholeWeights]
  BY ComposeIs
<1>2. m.root \in m.nodes /\ m.nodes \subseteq s.config.nodes
  BY DEF LaidOut, Proper
<1>3. /\ g \in [m.nodes -> Int] /\ g[m.root] = Unit
      /\ \A n \in m.nodes : \A k \in m.children[n] :
           g[k] = Times(g[n], locals[n][ChildColumn(m, k, kind)])
  BY GlobalWeightsAre
<1>4. /\ \A n \in m.nodes : ExactAt(m, locals, kind, t, n)
      /\ ExactGlobally(m, locals, kind, g)
  BY DEF ExactWeights
<1>5. C \in SUBSET Names /\ C \cap Exposures(s.config) = {}
  <2>1. C \subseteq Reserved(s)
    BY <1>2 DEF Reserved
  <2> HIDE DEF C
  <2> QED  BY <2>1, NamesOfStudies
<1>6. \A n \in m.nodes : CashName(m, n) \in C
  BY DEF CashName
<1>7. \A n \in m.nodes : u[n] = Times(g[n], CashHeld(locals[n]))
  OBVIOUS
<1>8. [n \in m.nodes |-> u[n]] = u
  OBVIOUS
<1>9. terminal \in [Names -> Int]
  BY <1>1, <1>2 DEF WholeWeights
<1>10. AddsUp(m, locals, kind) =
         (/\ terminal \in [Names -> Int]
          /\ SumOf(terminal) = Unit
          /\ SumOf(u) = SumOn(terminal, C))
  BY DEF AddsUp, SumOn
<1> HIDE DEF t, g, C, u
<1>11. SumOn(t[m.root], Names) = Unit
  BY <1>1, <1>2, <1>4, EachAddsUp
<1>12. SumOn(u, m.nodes) = SumOn(t[m.root], C)
  BY <1>1, <1>3, <1>4, <1>5, <1>6, <1>7, CashIsExplained
<1>13. SumOf(terminal) = Unit
  <2>1. [x \in Names |-> terminal[x]] = terminal
    BY <1>9
  <2>2. SumOn(terminal, Names) = SumOf(terminal)
    <3> HIDE DEF terminal
    <3> QED  BY <2>1, Zenon DEF SumOn
  <2> QED  BY <1>11, <2>2
<1>14. SumOf(u) = SumOn(terminal, C)
  BY <1>8, <1>12 DEF SumOn
<1> QED  BY <1>9, <1>10, <1>13, <1>14

LEMMA AuditsExplain ==
    ASSUME BacktestTruths, AllocatedInv, NothingIsRounded
    PROVE  AuditsExplainThePortfolio
<1> SUFFICES ASSUME NEW e \in Finished
             PROVE  /\ DOMAIN e.forward # {} => AddsUp(e.model, e.forward, "forward")
                    /\ e.mode = "forward_backward" => AddsUp(e.model, e.backward, "backward")
                    /\ e.mode = "flat" => AddsUp(FlatTree(e.model), e.flat, "flat")
  BY DEF AuditsExplainThePortfolio
<1>1. /\ study \in Studies /\ LaidOut(study, e.model)
      /\ DOMAIN e.forward # {} => AllocationsOf(study, e.model, e.forward, "forward")
      /\ e.mode = "forward_backward" => AllocationsOf(study, e.model, e.backward, "backward")
      /\ e.mode = "flat" => AllocationsOf(study, FlatTree(e.model), e.flat, "flat")
  BY FinishedAllocates
<1>2. LaidOut(study, FlatTree(e.model))
  BY <1>1, FlatIsLaidOut
<1>3. /\ DOMAIN e.forward # {} => ExactWeights(e.model, e.forward, "forward")
      /\ e.mode = "forward_backward" => ExactWeights(e.model, e.backward, "backward")
      /\ e.mode = "flat" => ExactWeights(FlatTree(e.model), e.flat, "flat")
  BY DEF NothingIsRounded
<1>4. DOMAIN e.forward # {} => AddsUp(e.model, e.forward, "forward")
  BY <1>1, <1>3, WeightsAddUp
<1>5. e.mode = "forward_backward" => AddsUp(e.model, e.backward, "backward")
  BY <1>1, <1>3, WeightsAddUp
<1>6. e.mode = "flat" => AddsUp(FlatTree(e.model), e.flat, "flat")
  BY <1>1, <1>2, <1>3, WeightsAddUp
<1> QED  BY <1>4, <1>5, <1>6

\* The audits explain the portfolio: the terminal weights of an estimate, cash included, add up
\* to one, and what the nodes hold in cash, at the global weights that _finalize_audits gives
\* them, is what the portfolio holds, in every mode and at every depth, where no product of
\* weights is rounded.
THEOREM AuditsAlwaysExplain ==
    ASSUME SolverAllocates
    PROVE  Spec => [](NothingIsRounded => AuditsExplainThePortfolio)
<1>1. BacktestTruths /\ AllocatedInv => (NothingIsRounded => AuditsExplainThePortfolio)
  BY AuditsExplain
<1> QED  BY <1>1, BacktestsStaySound, AnswersStayAllocations, PTL

-----------------------------------------------------------------------------
(* The benchmark and the sleeves that implement it                         *)

\* What the benchmark holds does not cancel.  Its weights add up to one wherever the program
\* ships or tests a configuration, though no validation asks for it.
BenchmarkIsHeld ==
    /\ Benchmark \in [DOMAIN Benchmark -> Int] /\ DOMAIN Benchmark \subseteq Names
    /\ SumOf(Benchmark) # 0

Sleeves(m, x) == {k \in m.children[m.root] : m.proxy[k] = x}

Implements(m, locals, x) ==
    IF Sleeves(m, x) = {} THEN Only(x)
                          ELSE Compose(m, locals, "backward")[CHOOSE k \in Sleeves(m, x) : TRUE]

\* The products that make the sleeves of an estimate, and the benchmark of the sleeves, are
\* weights again.
ExactSleeves(m, locals) ==
    /\ \A n \in m.nodes : ExactAt(m, locals, "backward", Compose(m, locals, "backward"), n)
    /\ \A x \in DOMAIN Benchmark : \A y \in Names :
           Exact(Implements(m, locals, x)[y], Benchmark[x])

SleevesAreExact ==
    \A x \in DOMAIN estimates :
        estimates[x].mode = "forward_backward" =>
            ExactSleeves(estimates[x].model, estimates[x].backward)

LEMMA OnlyIsOne ==
    ASSUME NEW x \in Names  PROVE Only(x) \in WholeWeights /\ SumOn(Only(x), Names) = Unit
<1>1. Unit \in Int
  BY UnitDivides
<1>2. /\ Only(x) \in WholeWeights /\ Only(x)[x] = Unit
      /\ \A y \in Names \ {x} : Only(x)[y] = 0
  BY <1>1 DEF Only, Zero, WholeWeights
<1>3. Only(x)[x] \in Int
  BY <1>1, <1>2
<1>4. SumOn(Only(x), Names) = Only(x)[x]
  <2> DEFINE h == Only(x)
  <2>1. h[x] \in Int /\ \A y \in Names \ {x} : h[y] = 0
    BY <1>2, <1>3
  <2> HIDE DEF h
  <2>2. SumOn(h, Names) = h[x]
    BY <2>1, NamesAreFinite, SumOfOne
  <2> QED  BY <2>2 DEF h
<1> QED  BY <1>2, <1>4

\* What implements a ticker is worth one, as the ticker is.
LEMMA ImplementationsAreWhole ==
    ASSUME NEW s \in Studies, NEW m, LaidOut(s, m), NEW locals,
           AllocationsOf(s, m, locals, "backward"),
           \A n \in m.nodes : ExactAt(m, locals, "backward", Compose(m, locals, "backward"), n),
           NEW x \in Names
    PROVE  /\ Implements(m, locals, x) \in WholeWeights
           /\ SumOn(Implements(m, locals, x), Names) = Unit
<1> DEFINE t == Compose(m, locals, "backward")
<1>1. IsComposed(m, locals, "backward", t) /\ t \in [m.nodes -> WholeWeights]
  BY ComposeIs
<1>2. \A n \in m.nodes : SumOn(t[n], Names) = Unit
  <2>1. \A n \in m.nodes : ExactAt(m, locals, "backward", t, n)
    OBVIOUS
  <2> HIDE DEF t
  <2> QED  BY <1>1, <2>1, EachAddsUp
<1>3. CASE Sleeves(m, x) = {}
  BY <1>3, OnlyIsOne DEF Implements
<1>4. CASE Sleeves(m, x) # {}
  <2> DEFINE k == CHOOSE k \in Sleeves(m, x) : TRUE
  <2>1. k \in Sleeves(m, x)
    BY <1>4
  <2>2. k \in m.nodes
    <3>1. m.root \in m.nodes /\ m.children[m.root] \in SUBSET m.nodes
      BY DEF LaidOut, Proper, ParentsFirst
    <3> QED  BY <2>1, <3>1 DEF Sleeves
  <2>3. Implements(m, locals, x) = t[k]
    BY <1>4 DEF Implements
  <2> HIDE DEF k, t
  <2> QED  BY <1>1, <1>2, <2>2, <2>3
<1> QED  BY <1>3, <1>4

LEMMA SleevesAreHeld ==
    ASSUME NEW s \in Studies, NEW m, LaidOut(s, m), NEW locals,
           AllocationsOf(s, m, locals, "backward"), ExactSleeves(m, locals), BenchmarkIsHeld
    PROVE  ImplementedBenchmark(m, locals, Benchmark) # Zero
<1> DEFINE B == DOMAIN Benchmark
           made(x) == Implements(m, locals, x)
           parts == [x \in B |-> Scaled(made(x), Benchmark[x])]
           whole == Total(parts)
<1>1. B \subseteq Names /\ IsFiniteSet(B) /\ \A x \in B : Benchmark[x] \in Int
  BY NamesAreFinite, FS_Subset DEF BenchmarkIsHeld
<1>2. ImplementedBenchmark(m, locals, Benchmark) = whole
  BY DEF ImplementedBenchmark, Implements, Sleeves
<1>3. ASSUME NEW x \in B
      PROVE  IntegerOn(parts[x], Names) /\ Benchmark[x] = SumOn(parts[x], Names)
  <2> DEFINE h == made(x)
             w == Benchmark[x]
             share == parts[x]
             product == [y \in Names |-> w * h[y]]
  <2>1. h \in WholeWeights /\ SumOn(h, Names) = Unit
    BY <1>1, ImplementationsAreWhole DEF ExactSleeves
  <2>2. w \in Int /\ Unit \in Int
    BY <1>1, UnitDivides
  <2>3. ASSUME NEW y \in Names
        PROVE  share[y] = Times(h[y], w) /\ Unit * share[y] = h[y] * w
    <3>1. Exact(made(x)[y], Benchmark[x])
      BY DEF ExactSleeves
    <3> QED  BY <3>1 DEF Exact, Scaled
  <2>4. \A y \in Names : h[y] \in Int
    BY <2>1 DEF WholeWeights
  <2> HIDE DEF h, w, share
  <2>5. \A y \in Names : share[y] \in Int
    BY <2>2, <2>3, <2>4, UnitDivides
  <2>6. \A y \in Names : product[y] = w * h[y] /\ product[y] = Unit * share[y]
    BY <2>2, <2>3, <2>4
  <2> HIDE DEF product
  <2>7. IntegerOn(h, Names) /\ IntegerOn(share, Names)
    BY <2>4, <2>5 DEF IntegerOn
  <2>8. SumOn(product, Names) = w * SumOn(h, Names)
    BY <2>2, <2>6, <2>7, NamesAreFinite, SumScaled
  <2>9. SumOn(product, Names) = Unit * SumOn(share, Names)
    BY <2>2, <2>6, <2>7, NamesAreFinite, SumScaled
  <2>10. SumOn(share, Names) \in Int
    BY <2>7, NamesAreFinite, SumOnIsWhole
  <2>11. Unit * w = Unit * SumOn(share, Names)
    BY <2>1, <2>2, <2>8, <2>9
  <2>12. w = SumOn(share, Names)
    BY <2>2, <2>10, <2>11, UnitCancels
  <2> QED  BY <2>7, <2>12 DEF share, w
<1>4. \A y \in Names : whole[y] = SumOn(Column(parts, B, y), B)
  <2>1. ASSUME NEW y \in Names  PROVE whole[y] = SumOn(Column(parts, B, y), B)
    <3>1. whole[y] = SumOf([x \in B |-> parts[x][y]])
      <4>1. DOMAIN parts = B
        OBVIOUS
      <4> HIDE DEF parts, B
      <4> QED  BY <4>1 DEF Total
    <3> HIDE DEF parts, whole
    <3>2. [x \in B |-> Column(parts, B, y)[x]] = [x \in B |-> parts[x][y]]
      BY DEF Column
    <3> QED  BY <3>1, <3>2 DEF SumOn
  <2> QED  BY <2>1
<1> HIDE DEF parts, whole, B
<1>5. SumOn(Benchmark, B) = SumOn(whole, Names)
  BY <1>1, <1>3, <1>4, NamesAreFinite, SumExchanged
<1>6. SumOn(Benchmark, B) # 0
  <2>1. [x \in B |-> Benchmark[x]] = Benchmark
    BY DEF BenchmarkIsHeld, B
  <2>2. SumOn(Benchmark, B) = SumOf(Benchmark)
    BY <2>1, Zenon DEF SumOn
  <2> QED  BY <2>2 DEF BenchmarkIsHeld
<1>7. SumOn(Zero, Names) = 0
  <2>1. \A y \in Names : Zero[y] = 0
    BY DEF Zero
  <2> QED  BY <2>1, NamesAreFinite, SumOfZeros
<1> QED  BY <1>2, <1>5, <1>6, <1>7

LEMMA BenchmarkStaysHeld ==
    ASSUME BacktestTruths, AllocatedInv, SleevesAreExact, BenchmarkIsHeld
    PROVE  BenchmarkIsImplemented
<1> SUFFICES ASSUME NEW x \in DOMAIN estimates, estimates[x].mode = "forward_backward"
             PROVE  BenchmarkSleeves(estimates[x]) # Zero
  BY DEF BenchmarkIsImplemented
<1> DEFINE e == estimates[x]
<1>1. Whole(e) /\ e.model = study.config /\ SolvedBy(solved, e) /\ study \in Studies
  BY DEF BacktestTruths, BacktestInv, KeptInv, SolvedInv, PhaseInv
<1>2. ExactSleeves(e.model, e.backward) /\ e.mode = "forward_backward"
  BY DEF SleevesAreExact
<1> HIDE DEF e
<1>3. LaidOut(study, e.model)
  BY <1>1, StudyIsLaidOut
<1>4. AllocationsOf(study, e.model, e.backward, "backward")
  BY <1>1, <1>2, <1>3, EstimatesAllocate DEF AllocatedInv
<1>5. BenchmarkSleeves(e) # Zero
  BY <1>1, <1>2, <1>3, <1>4, SleevesAreHeld DEF BenchmarkSleeves
<1> QED  BY <1>5 DEF e

\* The curves of a run keep their common grid unless a flat backtest's diagnostics failed in
\* some folds only: in a forward_backward run the benchmark's sleeves
\* (_implemented_benchmark_weights), an arm of the folds where they hold anything, hold in
\* every fold what the benchmark holds, where no product of weights is rounded.
THEOREM SleevesKeepTheGrid ==
    ASSUME SolverAllocates, BenchmarkIsHeld
    PROVE  Spec => [](SleevesAreExact => GridIsLostByDiagnosticsOnly)
<1>1. BacktestTruths /\ AllocatedInv => (SleevesAreExact => GridIsLostByDiagnosticsOnly)
  BY BenchmarkStaysHeld, GridIsKept
<1> QED  BY <1>1, BacktestsStaySound, AnswersStayAllocations, PTL

-----------------------------------------------------------------------------
(* What pruning changes                                                    *)

\* The same data to local weights: they earn the same from either columns.
ShownAlike(m, locals, some, others) ==
    \A n \in DOMAIN locals : \A series :
        LocalSeries(m, n, locals[n], some, series) = LocalSeries(m, n, locals[n], others, series)

LEMMA SeriesAlike ==
    ASSUME NEW m, NEW locals, Downwards(m, locals), NEW some, NEW others,
           ShownAlike(m, locals, some, others)
    PROVE  SyntheticSeries(m, locals, some) = SyntheticSeries(m, locals, others)
<1> DEFINE s == SyntheticSeries(m, locals, some)
           t == SyntheticSeries(m, locals, others)
<1>1. IsSeries(m, locals, some, s) /\ IsSeries(m, locals, others, t)
  BY SeriesExist
<1> HIDE DEF s, t
<1>2. \A n \in DOMAIN locals : SeriesOf(m, locals, others, t, n) = SeriesOf(m, locals, some, t, n)
  BY DEF ShownAlike, SeriesOf
<1>3. IsSeries(m, locals, some, t)
  BY <1>1, <1>2 DEF IsSeries
<1>4. \A n \in DOMAIN locals : t[n] = s[n]
  BY <1>1, <1>3, SeriesAgree
<1>5. s = [n \in DOMAIN locals |-> s[n]] /\ t = [n \in DOMAIN locals |-> t[n]]
  <2>1. s = [n \in DOMAIN locals |-> SeriesOf(m, locals, some, s, n)]
    BY <1>1 DEF IsSeries
  <2>2. t = [n \in DOMAIN locals |-> SeriesOf(m, locals, some, t, n)]
    BY <1>3 DEF IsSeries
  <2> QED  BY <2>1, <2>2
<1>6. s = t
  BY <1>4, <1>5
<1> QED  BY <1>6 DEF s, t

\* The columns of financing add nothing to what an allocation earns, if the only cash is one.
LEMMA FinancingAddsNothing ==
    ASSUME study \in Studies, OneCash, LaidOut(study, study.config), NEW n \in study.config.nodes,
           NEW kind, NEW a, NEW series,
           IsAllocation(Columns(study.config, n, kind), n \in study.config.financed, a)
    PROVE  LocalSeries(study.config, n, a, Instruments(study.config), series)
             = LocalSeries(study.config, n, a, ReferenceColumns, series)
<1> DEFINE m == study.config
           few == Instruments(m)
           more == ReferenceColumns
<1>1. ASSUME NEW column \in DOMAIN a
      PROVE  Source(m, n, column, few, series) = Source(m, n, column, more, series)
  <2>1. few \subseteq more /\ Exposures(m) \subseteq few /\ Cash \notin few
    BY NamesOfStudies DEF ReferenceColumns
  <2>2. CASE column \in Columns(m, n, kind)
    <3>1. /\ m.instruments[n] \subseteq few
          /\ \A k \in m.children[n] : m.proxy[k] \in few
      BY <2>1 DEF LaidOut
    <3>2. column # CashColumn
      BY <2>2, ColumnsOfNodes
    <3>3. column[2] = "raw" => column[1] \in few
      BY <2>2, <3>1 DEF Columns, ChildColumn, Raw, Synth
    <3> HIDE DEF few, more, m
    <3> QED  BY <2>1, <3>2, <3>3 DEF Source
  <2>3. CASE column \notin Columns(m, n, kind)
    <3>1. column = CashColumn /\ n \in m.financed
      BY <2>3 DEF IsAllocation
    <3>2. column[2] = "raw" /\ column[1] = Cash
      BY <3>1 DEF CashColumn, Raw
    <3>3. Cash \in more => CashName(m, n) = Cash
      BY <2>1, <3>1, OnlyTheRootLends
    <3> HIDE DEF few, more, m
    <3> QED  BY <2>1, <3>1, <3>2, <3>3 DEF Source
  <2> QED  BY <2>2, <2>3
<1> HIDE DEF few, more, m
<1>2. [column \in DOMAIN a |-> Scaled(Source(m, n, column, few, series), a[column])]
        = [column \in DOMAIN a |-> Scaled(Source(m, n, column, more, series), a[column])]
  BY <1>1
<1>3. LocalSeries(m, n, a, few, series) = LocalSeries(m, n, a, more, series)
  BY <1>2 DEF LocalSeries
<1> QED  BY <1>3 DEF m, few, more

\* The solver's answers and the tree leave nothing open in an estimate.
LEMMA SameForward ==
    ASSUME NEW answers, NEW d, NEW e, SolvedBy(answers, d), SolvedBy(answers, e),
           Whole(d), Whole(e), Proper(d.model), d.mode # "flat",
           d.model = e.model, d.mode = e.mode, d.window = e.window,
           ShownAlike(d.model, d.forward, d.columns, e.columns)
    PROVE  d.forward = e.forward
<1>1. /\ DOMAIN d.forward = d.model.nodes /\ DOMAIN e.forward = d.model.nodes
      /\ d.forward = [x \in d.model.nodes |-> d.forward[x]]
      /\ e.forward = [x \in d.model.nodes |-> e.forward[x]]
      /\ d.model.root \in d.model.nodes
  BY DEF Whole, Proper, IsFunction
<1>2. ASSUME NEW n \in d.model.nodes, ForwardPosed(d, n) = ForwardPosed(e, n)
      PROVE  d.forward[n] = e.forward[n]
  <2>1. Answered(answers, ForwardPosed(d, n), d.forward[n])
    BY <1>1 DEF SolvedBy
  <2>2. Answered(answers, ForwardPosed(e, n), e.forward[n])
    BY <1>1 DEF SolvedBy
  <2> QED  BY <1>2, <2>1, <2>2 DEF Answered
<1>3. ForwardPosed(d, d.model.root) = ForwardPosed(e, d.model.root)
  BY DEF ForwardPosed
<1>4. d.forward[d.model.root] = e.forward[d.model.root]
  BY <1>1, <1>2, <1>3
<1>5. RootOf(d) = RootOf(e)
  <2>1. LocalSeries(d.model, d.model.root, d.forward[d.model.root], d.columns, Empty)
          = LocalSeries(d.model, d.model.root, d.forward[d.model.root], e.columns, Empty)
    BY <1>1 DEF ShownAlike
  <2> QED  BY <1>1, <1>4, <2>1 DEF RootOf
<1>6. \A n \in d.model.nodes : ForwardPosed(d, n) = ForwardPosed(e, n)
  BY <1>5 DEF ForwardPosed
<1>7. \A n \in d.model.nodes : d.forward[n] = e.forward[n]
  BY <1>2, <1>6
<1> QED  BY <1>1, <1>7

LEMMA SameBackward ==
    ASSUME NEW answers, NEW d, NEW e, SolvedBy(answers, d), SolvedBy(answers, e),
           Whole(d), Whole(e), Proper(d.model), d.mode = "forward_backward",
           d.model = e.model, d.mode = e.mode, d.window = e.window,
           ShownAlike(d.model, d.forward, d.columns, e.columns),
           ShownAlike(d.model, d.backward, d.columns, e.columns)
    PROVE  d.backward = e.backward
<1> DEFINE differ == {n \in d.model.nodes : d.backward[n] # e.backward[n]}
           n == Max(differ)
<1>1. /\ DOMAIN d.backward = d.model.nodes /\ DOMAIN e.backward = d.model.nodes
      /\ d.backward = [x \in d.model.nodes |-> d.backward[x]]
      /\ e.backward = [x \in d.model.nodes |-> e.backward[x]]
      /\ d.model.nodes \subseteq Nat /\ IsFiniteSet(d.model.nodes)
  BY DEF Whole, Proper, IsFunction
<1>2. d.forward = e.forward
  BY SameForward
<1>3. RootOf(d) = RootOf(e)
  <2>1. d.model.root \in DOMAIN d.forward /\ d.model.root \in DOMAIN e.forward
    BY DEF Whole, Proper
  <2>2. LocalSeries(d.model, d.model.root, d.forward[d.model.root], d.columns, Empty)
          = LocalSeries(d.model, d.model.root, d.forward[d.model.root], e.columns, Empty)
    BY <2>1 DEF ShownAlike
  <2> QED  BY <1>2, <2>1, <2>2 DEF RootOf
<1>4. SUFFICES ASSUME differ # {}  PROVE FALSE
  <2>1. differ = {} => \A x \in d.model.nodes : d.backward[x] = e.backward[x]
    OBVIOUS
  <2> HIDE DEF differ
  <2> QED  BY <1>1, <2>1
<1>5. n \in differ /\ \A y \in differ : y <= n
  <2>1. differ \subseteq Nat /\ IsFiniteSet(differ)
    BY <1>1, FS_Subset
  <2> HIDE DEF differ
  <2> QED  BY <1>4, <2>1, LastExists
<1>6. n \in d.model.nodes /\ d.backward[n] # e.backward[n]
  BY <1>5
<1>7. \A k \in d.model.nodes : k > n => d.backward[k] = e.backward[k]
  <2>1. ASSUME NEW k \in d.model.nodes, k > n, d.backward[k] # e.backward[k]  PROVE FALSE
    <3>1. k \in differ
      BY <2>1
    <3>2. k \in Nat /\ n \in Nat
      BY <1>1, <1>6
    <3> HIDE DEF differ, n
    <3>3. k <= n
      BY <1>5, <3>1
    <3> QED  BY <2>1, <3>2, <3>3
  <2> QED  BY <2>1
<1> HIDE DEF differ, n
<1>8. Below(d, n) = Below(e, n)
  BY <1>1, <1>7 DEF Below
<1>9. BackwardPosed(d, n) = BackwardPosed(e, n)
  <2> DEFINE L == Below(d, n)
  <2>1. /\ DOMAIN L \subseteq DOMAIN d.backward
        /\ \A k \in DOMAIN L : L[k] = d.backward[k]
    BY DEF Below
  <2>2. Downwards(d.model, L)
    <3>1. DOMAIN L \subseteq Nat /\ IsFiniteSet(DOMAIN L)
      BY <1>1, <2>1, FS_Subset
    <3>2. \A i \in DOMAIN L : \A k \in d.model.children[i] \cap DOMAIN L : i < k
      BY <1>1, <2>1 DEF Proper, ParentsFirst
    <3> QED  BY <3>1, <3>2 DEF Downwards
  <2>3. ShownAlike(d.model, L, d.columns, e.columns)
    BY <2>1 DEF ShownAlike
  <2>4. L = Below(e, n)
    BY <1>8
  <2> HIDE DEF L
  <2>5. SyntheticSeries(d.model, L, d.columns) = SyntheticSeries(d.model, L, e.columns)
    BY <2>2, <2>3, SeriesAlike
  <2> QED  BY <1>3, <2>4, <2>5 DEF BackwardPosed, L
<1>10. CASE d.model.children[n] = {}
  BY <1>1, <1>2, <1>6, <1>10 DEF SolvedBy
<1>11. CASE d.model.children[n] # {}
  <2>1. Answered(answers, BackwardPosed(d, n), d.backward[n])
    BY <1>1, <1>6, <1>11 DEF SolvedBy
  <2>2. Answered(answers, BackwardPosed(e, n), e.backward[n])
    BY <1>1, <1>6, <1>11 DEF SolvedBy
  <2> QED  BY <1>6, <1>9, <2>1, <2>2 DEF Answered
<1> QED  BY <1>10, <1>11

LEMMA SameFlat ==
    ASSUME NEW answers, NEW d, NEW e, SolvedBy(answers, d), SolvedBy(answers, e),
           Whole(d), Whole(e), d.mode = "flat",
           d.model = e.model, d.mode = e.mode, d.window = e.window
    PROVE  d.flat = e.flat
<1>1. /\ DOMAIN d.flat = {d.model.root} /\ DOMAIN e.flat = {d.model.root}
      /\ d.flat = [x \in {d.model.root} |-> d.flat[x]]
      /\ e.flat = [x \in {d.model.root} |-> e.flat[x]]
  BY DEF Whole, IsFunction
<1>2. FlatPosed(d) = FlatPosed(e)
  BY DEF FlatPosed
<1>3. d.flat[d.model.root] = e.flat[d.model.root]
  BY <1>1, <1>2 DEF SolvedBy, Answered
<1> QED  BY <1>1, <1>3

LEMMA SameTargets ==
    ASSUME NEW answers, NEW d, NEW e, SolvedBy(answers, d), SolvedBy(answers, e),
           Whole(d), Whole(e), Proper(d.model),
           d.model = e.model, d.mode = e.mode, d.window = e.window,
           ShownAlike(d.model, d.forward, d.columns, e.columns),
           d.mode = "forward_backward" => ShownAlike(d.model, d.backward, d.columns, e.columns)
    PROVE  Terminal(d) = Terminal(e) /\ ForwardTerminal(d) = ForwardTerminal(e)
<1>1. CASE d.mode = "flat"
  <2>1. d.flat = e.flat
    BY <1>1, SameFlat
  <2> QED  BY <1>1, <2>1 DEF Terminal, ForwardTerminal
<1>2. CASE d.mode = "forward"
  <2>1. d.forward = e.forward
    BY <1>2, SameForward
  <2> QED  BY <1>2, <2>1 DEF Terminal, ForwardTerminal
<1>3. CASE d.mode = "forward_backward"
  <2>1. d.forward = e.forward /\ d.backward = e.backward
    BY <1>3, SameForward, SameBackward
  <2> QED  BY <1>3, <2>1 DEF Terminal, ForwardTerminal
<1> QED  BY <1>1, <1>2, <1>3 DEF Whole, Modes

\* A candidate in which nothing is pruned sees what the reference run saw.
LEMMA CandidatesSeeAlike ==
    ASSUME BacktestTruths, AllocatedInv, OneCash, NEW d, Whole(d), SolvedBy(solved, d),
           d.model = study.config
    PROVE  /\ ShownAlike(d.model, d.forward, Instruments(study.config), ReferenceColumns)
           /\ d.mode = "forward_backward" =>
                ShownAlike(d.model, d.backward, Instruments(study.config), ReferenceColumns)
<1>1. study \in Studies
  BY DEF BacktestTruths, BacktestInv, PhaseInv
<1>2. LaidOut(study, study.config) /\ Allocated(study, solved)
  BY <1>1, StudyIsLaidOut DEF AllocatedInv
<1>3. ASSUME NEW locals, NEW kind, AllocationsOf(study, study.config, locals, kind)
      PROVE  ShownAlike(study.config, locals, Instruments(study.config), ReferenceColumns)
  BY <1>1, <1>2, <1>3, FinancingAddsNothing DEF ShownAlike, AllocationsOf
<1>4. DOMAIN d.forward # {} => AllocationsOf(study, study.config, d.forward, "forward")
  BY <1>1, <1>2, EstimatesAllocate
<1>5. d.mode = "forward_backward" => AllocationsOf(study, study.config, d.backward, "backward")
  BY <1>1, <1>2, EstimatesAllocate
<1>6. DOMAIN d.forward = {} =>
        ShownAlike(study.config, d.forward, Instruments(study.config), ReferenceColumns)
  BY DEF ShownAlike
<1> QED  BY <1>3, <1>4, <1>5, <1>6

\* Where the verdicts prune nothing, and before the burn-in ends, run_adaptive_pruning
\* holds the targets of the reference run: its own estimate of the same tree, made later
\* and in any order, is the same, as the solver answers the same problems, although it is made
\* without the financing columns that the reference run has; unless a financed root lends its
\* rate to the cash of another node.
THEOREM OnlyPruningEverChangesTargets ==
    ASSUME SolverAllocates  PROVE Spec => [](OneCash => OnlyPruningChangesTargets)
<1>1. BacktestTruths /\ AllocatedInv => (OneCash => OnlyPruningChangesTargets)
  <2> SUFFICES ASSUME BacktestTruths, AllocatedInv, OneCash, NEW x \in DOMAIN adapted,
                      x \notin DOMAIN prepared \/ Candidate(x) = study.config
               PROVE  /\ adapted[x].final = Terminal(estimates[x])
                      /\ adapted[x].forward = ForwardTerminal(estimates[x])
    BY DEF OnlyPruningChangesTargets
  <2>0. KeptInv /\ PhaseInv /\ SolvedInv
    BY DEF BacktestTruths, BacktestInv
  <2>1. /\ adapted[x].final = Terminal(InForce(x))
        /\ adapted[x].forward = ForwardTerminal(InForce(x))
        /\ x \in SignalsOf(folds)
    <3>1. /\ adapted[x] = [final   |-> Terminal(InForce(x)),
                           forward |-> ForwardTerminal(InForce(x))]
          /\ x \in SignalsOf(folds)
      BY <2>0 DEF PhaseInv
    <3> QED  BY <3>1
  <2>2. CASE x \notin DOMAIN prepared
    BY <2>1, <2>2 DEF InForce
  <2>3. CASE x \in DOMAIN prepared
    <3> DEFINE d == prepared[x]
               e == estimates[x]
    <3>1. phase \in Adapting /\ study \in Studies
      BY <2>0, <2>3 DEF PhaseInv
    <3>2. study.adaptive /\ SignalsOf(folds) \subseteq DOMAIN estimates
      BY <2>0, <3>1 DEF PhaseInv, Adapting, BeforeHolding, Unplanned
    <3>3. x \in DOMAIN estimates /\ InForce(x) = d
      BY <2>1, <2>3, <3>2 DEF InForce
    <3>4. d.columns = Instruments(study.config) /\ e.columns = ReferenceColumns
      BY <2>0, <2>3, <3>3 DEF KeptInv
    <3>5. /\ Whole(d) /\ Whole(e) /\ d.model = study.config /\ e.model = study.config
          /\ d.mode = e.mode /\ d.window = e.window
      BY <2>0, <2>3, <3>3 DEF KeptInv
    <3>6. SolvedBy(solved, d) /\ SolvedBy(solved, e)
      BY <2>0, <2>3, <3>3 DEF SolvedInv
    <3>7. Proper(d.model)
      BY <3>1, <3>5, StudyIsProper
    <3> HIDE DEF d, e
    <3>8. /\ ShownAlike(d.model, d.forward, d.columns, e.columns)
          /\ d.mode = "forward_backward" =>
               ShownAlike(d.model, d.backward, d.columns, e.columns)
      BY <3>4, <3>5, <3>6, CandidatesSeeAlike
    <3>9. Terminal(d) = Terminal(e) /\ ForwardTerminal(d) = ForwardTerminal(e)
      BY <3>5, <3>6, <3>7, <3>8, SameTargets
    <3> QED  BY <2>1, <3>3, <3>9 DEF d, e
  <2> QED  BY <2>2, <2>3
<1> QED  BY <1>1, BacktestsStaySound, AnswersStayAllocations, PTL
=============================================================================
