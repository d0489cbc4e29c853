------------------------------ MODULE Hierarchy ------------------------------
(***************************************************************************)
(* One estimate of a tree on one training window (v2/hierarchy.py): local  *)
(* solves node by node, a forward pass over raw proxies, a backward pass   *)
(* over the children's synthetic series, or a single flat solve; and the   *)
(* composition of local weights into terminal ones.                        *)
(*                                                                         *)
(* A weight is a multiple of 1/Unit.  A return series is the exposures it  *)
(* is made of: a function from Names to weights.  So two series are equal  *)
(* when they are the same combination of the same columns.                 *)
(*                                                                         *)
(* The solver is a deterministic function that the estimate calls and does *)
(* not know: solved holds its answers so far, chosen freely the first time *)
(* a problem is posed and repeated after that.                             *)
(***************************************************************************)
EXTENDS PortfolioTree

CONSTANTS
    Names,            \* tickers and the names of financing instruments
    Unit,             \* a weight of one
    Cash,             \* "cash:RF" and "cash:BORROW", the root's names
    CashAt(_),        \* the same, qualified by a node's id
    Infeasible,       \* the answer of a solve that raises
    Solutions(_, _, _)\* the solver's possible answers over a node's columns

Modes == {"flat", "forward", "forward_backward"}

ASSUME UnitIsPositive == Unit \in Nat \ {0}
ASSUME CashIsAName == Cash \in Names
ASSUME NamesAreFinite == IsFiniteSet(Names)

VARIABLES
    job,      \* the estimate in progress: [model, mode, window, columns, detail], or None
    pass,     \* "idle", "forward", "backward", "flat", "done" or "failed"
    forward,  \* the local weights of the nodes solved forward
    backward, \* the same, backward
    flat,     \* the same, of the flat solve
    solved    \* the solver's answers

hierarchyVars == <<job, pass, forward, backward, flat, solved>>

Empty == [x \in {} |-> x]

SumOf(f) == MapThenSumSet(LAMBDA x : f[x], DOMAIN f)

With(f, x, value) == [y \in DOMAIN f \cup {x} |-> IF y = x THEN value ELSE f[y]]

-----------------------------------------------------------------------------
(* Series and local frames *)

Zero == [x \in Names |-> 0]
Only(name) == [Zero EXCEPT ![name] = Unit]

Times(a, b) == (a * b) \div Unit

Scaled(series, weight) == [x \in Names |-> Times(series[x], weight)]

Total(parts) ==
    [x \in Names |-> SumOf([e \in DOMAIN parts |-> parts[e][x]])]

Raw(name) == <<name, "raw">>
Synth(name) == <<name, "synth">>
CashColumn == Raw(Cash)

ChildColumn(m, k, kind) == IF kind = "backward" THEN Synth(m.proxy[k]) ELSE Raw(m.proxy[k])

Columns(m, n, kind) ==
    {Raw(i) : i \in m.instruments[n]} \cup {ChildColumn(m, k, kind) : k \in m.children[n]}

(* financing_instrument, with is_root as _solve_local and _compose pass it *)
CashName(m, n) == IF m.proxy[n] = None THEN Cash ELSE CashAt(n)

(* _local_series looks a column up in the data first, then among the       *)
(* children, and cash pays the node's own rate only when neither has it.   *)
Source(m, n, column, columns, childSeries) ==
    IF column[2] = "raw" /\ column[1] \in columns
    THEN Only(column[1])
    ELSE IF column = CashColumn
         THEN Only(CashName(m, n))
         ELSE childSeries[CHOOSE k \in m.children[n] : Synth(m.proxy[k]) = column]

LocalSeries(m, n, local, columns, childSeries) ==
    Total([column \in DOMAIN local |->
              Scaled(Source(m, n, column, columns, childSeries), local[column])])

(* The synthetic series of every node in done, from its children's. *)
SyntheticSeries(m, locals, columns) ==
    LET s[n \in DOMAIN locals] ==
            LocalSeries(m, n, locals[n], columns,
                        [k \in m.children[n] \cap DOMAIN locals |-> s[k]])
    IN s

-----------------------------------------------------------------------------
(* Composition and audits *)

CashHeld(local) == IF CashColumn \in DOMAIN local THEN local[CashColumn] ELSE 0

(* MUTANT: a child is composed at its own scale. *)
ComposeUnscaled(m, locals, kind) ==
    LET t[n \in DOMAIN locals] ==
        [x \in Names |->
            (IF x \in m.instruments[n] THEN locals[n][Raw(x)] ELSE 0)
          + SumOf([k \in m.children[n] |-> t[k][x]])
          + (IF x = CashName(m, n) THEN CashHeld(locals[n]) ELSE 0)]
    IN t

(* _compose, for every node solved: direct instruments, each child's       *)
(* terminal weights scaled by the weight its parent gave it, and cash.     *)
Compose(m, locals, kind) ==
    LET t[n \in DOMAIN locals] ==
        [x \in Names |->
            (IF x \in m.instruments[n] THEN locals[n][Raw(x)] ELSE 0)
          + SumOf([k \in m.children[n] |->
                      Times(locals[n][ChildColumn(m, k, kind)], t[k][x])])
          + (IF x = CashName(m, n) THEN CashHeld(locals[n]) ELSE 0)]
    IN t

(* _child_weight asks for the raw proxy before the synthetic one. *)
ChildWeight(m, local, k) ==
    IF Raw(m.proxy[k]) \in DOMAIN local THEN local[Raw(m.proxy[k])]
                                        ELSE local[Synth(m.proxy[k])]

(* MUTANT: the weight a node has in its parent is taken for its global one. *)
ParentWeights(m, locals) ==
    LET g[n \in DOMAIN locals] ==
            IF n = m.root THEN Unit ELSE ChildWeight(m, locals[Parent(m, n)], n)
    IN g

(* global_node_weight, as _finalize_audits walks it from the root *)
GlobalWeights(m, locals) ==
    LET g[n \in DOMAIN locals] ==
            IF n = m.root
            THEN Unit
            ELSE LET p == Parent(m, n)
                 IN Times(g[p], ChildWeight(m, locals[p], n))
    IN g

-----------------------------------------------------------------------------
(* References *)

(* _mean_reference: a declared map must weigh the node's components, all   *)
(* of them and nothing else, under their raw names.                        *)
MeanReferenceFails(m, n) == m.anchor[n] \notin {None, Universe(m, n)}

RiskReferenceFails(m, n, rootSeries) ==
    \/ m.reference[n] = "forward_root_reference" /\ (n = m.root \/ rootSeries = None)
    \/ m.reference[n] = "father_proxy" /\ m.proxy[n] = None

ReferenceFails(m, n, rootSeries) ==
    RiskReferenceFails(m, n, rootSeries) \/ MeanReferenceFails(m, n)

(* What a solve is given: the window, the node's settings, the columns and *)
(* what they are, and the root's series if the node refers to it.          *)
Frame(m, n, kind, childSeries) ==
    [column \in Columns(m, n, kind) |->
        IF column[2] = "raw"
        THEN Only(column[1])
        ELSE childSeries[CHOOSE k \in m.children[n] : Synth(m.proxy[k]) = column]]

Problem(m, n, kind, window, childSeries, rootSeries) ==
    [window    |-> window,
     node      |-> n,
     frame     |-> Frame(m, n, kind, childSeries),
     reference |-> IF m.reference[n] = "forward_root_reference" THEN rootSeries ELSE None]

(* A zero cash position is dropped from the answer. *)
Settled(answer) ==
    IF answer # Infeasible /\ CashHeld(answer) = 0
    THEN [column \in DOMAIN answer \ {CashColumn} |-> answer[column]]
    ELSE answer

(* classify raises a ValueError, which nothing in an estimate catches.     *)
Unclassifiable(m, n, rootSeries) == n \in m.unclassified /\ ~ ReferenceFails(m, n, rootSeries)

(* _solve_local: a reference that cannot be resolved raises before the     *)
(* solver is asked.                                                        *)
Refused(m, n, rootSeries) == ReferenceFails(m, n, rootSeries) \/ n \in m.unclassified

Answers(m, n, problem, rootSeries) ==
    IF Refused(m, n, rootSeries)
    THEN {Infeasible}
    ELSE IF problem \in DOMAIN solved
         THEN {solved[problem]}
         ELSE {Settled(a) : a \in Solutions(DOMAIN problem.frame, n \in m.financed, job.detail)}

Remember(m, n, problem, rootSeries, answer) ==
    solved' = IF Refused(m, n, rootSeries) THEN solved ELSE With(solved, problem, answer)

-----------------------------------------------------------------------------
(* The three passes.  Ids are in preorder: a parent comes before its       *)
(* children.                                                               *)

RootSeries ==
    IF job.model.root \in DOMAIN forward
    THEN LocalSeries(job.model, job.model.root, forward[job.model.root], job.columns, Empty)
    ELSE None

StartEstimate(m, mode, window, columns, detail) ==
    /\ pass = "idle"
    /\ job' = [model |-> m, mode |-> mode, window |-> window, columns |-> columns,
               detail |-> detail]
    /\ pass' = "forward"
    /\ UNCHANGED <<forward, backward, flat, solved>>

NextForward == Min(job.model.nodes \ DOMAIN forward)

ForwardProblem == Problem(job.model, NextForward, "forward", job.window, Empty, RootSeries)

(* MUTANT: every estimate ends with the forward pass. *)
ForwardIsEnough == "done"

AfterForward ==
    CASE job.mode = "forward" -> "done"
      [] job.mode = "forward_backward" -> "backward"
      [] job.mode = "flat" -> "flat"

SolveForward ==
    /\ pass = "forward"
    /\ \E answer \in Answers(job.model, NextForward, ForwardProblem, RootSeries) \ {Infeasible} :
          /\ Remember(job.model, NextForward, ForwardProblem, RootSeries, answer)
          /\ forward' = With(forward, NextForward, answer)
    /\ pass' = IF DOMAIN forward' = job.model.nodes THEN AfterForward ELSE pass
    /\ UNCHANGED <<job, backward, flat>>

(* MUTANT: a failed diagnostic pass fails the flat estimate. *)
FailureSpreads == "failed"

(* MUTANT: a failed forward pass is only fatal to the backward one. *)
FailureIsSwallowed == IF job.mode = "forward_backward" THEN "failed" ELSE AfterForward

(* Only the flat estimate outlives a failed forward pass. *)
AfterForwardFailure ==
    IF job.mode = "flat" /\ ~ Unclassifiable(job.model, NextForward, RootSeries)
    THEN "flat" ELSE "failed"

(* The nodes that had been solved are forgotten. *)
ForwardFails ==
    /\ pass = "forward"
    /\ Infeasible \in Answers(job.model, NextForward, ForwardProblem, RootSeries)
    /\ Remember(job.model, NextForward, ForwardProblem, RootSeries, Infeasible)
    /\ forward' = Empty
    /\ pass' = AfterForwardFailure
    /\ UNCHANGED <<job, backward, flat>>

NextBackward == Max(job.model.nodes \ DOMAIN backward)

(* MUTANT: ancestors are solved over the forward pass's child series. *)
ForwardChildSeries == SyntheticSeries(job.model, forward, job.columns)

BackwardChildSeries == SyntheticSeries(job.model, backward, job.columns)

BackwardProblem ==
    Problem(job.model, NextBackward, "backward", job.window, BackwardChildSeries, RootSeries)

AfterBackward == IF NextBackward = job.model.root THEN "done" ELSE "backward"

(* A leaf's forward result is its backward one. *)
CopyLeaf ==
    /\ pass = "backward"
    /\ job.model.children[NextBackward] = {}
    /\ backward' = With(backward, NextBackward, forward[NextBackward])
    /\ pass' = AfterBackward
    /\ UNCHANGED <<job, forward, flat, solved>>

SolveBackward ==
    /\ pass = "backward"
    /\ job.model.children[NextBackward] # {}
    /\ \E answer \in Answers(job.model, NextBackward, BackwardProblem, RootSeries) \ {Infeasible} :
          /\ Remember(job.model, NextBackward, BackwardProblem, RootSeries, answer)
          /\ backward' = With(backward, NextBackward, answer)
    /\ pass' = AfterBackward
    /\ UNCHANGED <<job, forward, flat>>

BackwardFails ==
    /\ pass = "backward"
    /\ job.model.children[NextBackward] # {}
    /\ Infeasible \in Answers(job.model, NextBackward, BackwardProblem, RootSeries)
    /\ Remember(job.model, NextBackward, BackwardProblem, RootSeries, Infeasible)
    /\ pass' = "failed"
    /\ UNCHANGED <<job, forward, backward, flat>>

(* "__global_flat__": one node with the root's settings and every terminal *)
(* instrument, and no proxy.                                               *)
FlatTree(m) ==
    [m EXCEPT !.nodes = {m.root},
              !.children = [n \in {m.root} |-> {}],
              !.instruments = [n \in {m.root} |-> TerminalInstruments(m)],
              !.proxy = [n \in {m.root} |-> None]]

FlatProblem == Problem(FlatTree(job.model), job.model.root, "flat", job.window, Empty, None)

SolveFlat ==
    /\ pass = "flat"
    /\ \E answer \in Answers(FlatTree(job.model), job.model.root, FlatProblem, None)
                     \ {Infeasible} :
          /\ Remember(FlatTree(job.model), job.model.root, FlatProblem, None, answer)
          /\ flat' = With(flat, job.model.root, answer)
    /\ pass' = "done"
    /\ UNCHANGED <<job, forward, backward>>

FlatFails ==
    /\ pass = "flat"
    /\ Infeasible \in Answers(FlatTree(job.model), job.model.root, FlatProblem, None)
    /\ Remember(FlatTree(job.model), job.model.root, FlatProblem, None, Infeasible)
    /\ pass' = "failed"
    /\ UNCHANGED <<job, forward, backward, flat>>

SolveStep ==
    \/ SolveForward
    \/ ForwardFails
    \/ CopyLeaf
    \/ SolveBackward
    \/ BackwardFails
    \/ SolveFlat
    \/ FlatFails

EstimateInit ==
    /\ job = None
    /\ pass = "idle"
    /\ forward = Empty
    /\ backward = Empty
    /\ flat = Empty
    /\ solved = Empty

-----------------------------------------------------------------------------
(* V2Estimate, and what is read from it *)

Estimate == [model    |-> job.model, mode |-> job.mode, window |-> job.window,
             columns  |-> job.columns,
             forward  |-> forward, backward |-> backward, flat |-> flat]

(* The caller has the estimate or the exception; nothing else survives. *)
EndEstimate ==
    /\ job' = None
    /\ pass' = "idle"
    /\ forward' = Empty
    /\ backward' = Empty
    /\ flat' = Empty
    /\ UNCHANGED solved

Terminal(e) ==
    CASE e.mode = "forward" -> Compose(e.model, e.forward, "forward")[e.model.root]
      [] e.mode = "forward_backward" -> Compose(e.model, e.backward, "backward")[e.model.root]
      [] e.mode = "flat" -> Compose(FlatTree(e.model), e.flat, "flat")[e.model.root]

(* forward_node_results is filled by forward_backward only. *)
ForwardTerminal(e) ==
    IF e.mode = "forward_backward"
    THEN Compose(e.model, e.forward, "forward")[e.model.root]
    ELSE Terminal(e)

(* _implemented_benchmark_weights: the benchmark, its proxies replaced by  *)
(* the sleeves that implement them.                                        *)
ImplementedBenchmark(m, locals, benchmark) ==
    LET terminal == Compose(m, locals, "backward")
        sleeve(x) == {k \in m.children[m.root] : m.proxy[k] = x}
        implemented(x) == IF sleeve(x) = {} THEN Only(x)
                                            ELSE terminal[CHOOSE k \in sleeve(x) : TRUE]
    IN Total([x \in DOMAIN benchmark |-> Scaled(implemented(x), benchmark[x])])

(* estimate_direct_bottom_up: leaves solved directly, then composed upwards *)
(* with no forward pass.  The local weights, where the solver's answers to  *)
(* the problems it poses are known.                                        *)
DirectBottomUp(e) ==
    LET d[n \in e.model.nodes] ==
            LET kids   == [k \in e.model.children[n] |-> d[k]]
                series == [k \in e.model.children[n] |-> kids[k].series]
                kind   == IF e.model.children[n] = {} THEN "forward" ELSE "backward"
                posed  == Problem(e.model, n, kind, e.window, series, None)
                known  == /\ \A k \in DOMAIN kids : kids[k].known
                          /\ posed \in DOMAIN solved
                          /\ solved[posed] # Infeasible
            IN IF known
               THEN [known  |-> TRUE,
                     local  |-> solved[posed],
                     series |-> LocalSeries(e.model, n, solved[posed], e.columns, series)]
               ELSE [known |-> FALSE, local |-> Empty, series |-> Zero]
    IN d
=============================================================================
