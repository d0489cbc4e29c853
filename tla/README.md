# LazyPortfolio: formal models

LazyPortfolio optimises hierarchical portfolios ("trees") and lets people and an
LLM-backed Node Advisor change them. Two kinds of hard behaviour meet in it. Around
the numeric engine things run at once, crash, retry and go stale: a SQLite file
shared by a threaded HTTP server, its background worker and any other process that
opens the same file. Inside the engine long sequences of steps (regimes, fallbacks,
passes over the tree, folds, contractions) have to keep promises that no single
result shows. The models cover both: `TreeApproval`, `JobQueue` and `StudioCache`
the first, `LocalSolver`, `Hierarchy`, `WalkForward` and `AdaptivePruning` the second.

## 1. The system

| Component (code) | State | Operations | Interacts by |
|---|---|---|---|
| Tree revisions (`advisor/repository.py`, `v2/db.py`) | `tree_revisions`, `tree_heads` | `create_tree`, `save_revision`, `get_head` | the shared tables |
| Proposals (`advisor/proposal_repository.py`, `state_machine.py`, `contracts.py`) | `change_proposals` | `create`, `transition`, `get`, `list_by_tree` | the shared tables |
| Approval (`advisor/approval_service.py`) | `proposal_approvals`, `outbox_events` | `apply_proposal`, `_expire` | reads and writes all of the above in one transaction |
| Advisor services (`project/advisor/services.py`) | none of its own | `create_proposal`, `approve_proposal`, `reject_proposal`, `post_message_and_enqueue`, two job handlers | calls the repositories; called by HTTP threads and the worker |
| Snapshots (`advisor/snapshot.py`) | none; reads the market data hub's database | `load_snapshot`, `data_fingerprint`, `recompute_snapshot_fingerprint` | a database that another program updates |
| Job queue and worker (`project/advisor/jobs.py`, `_start_advisor_worker`) | `agent_jobs` | enqueue, claim, heartbeat, complete, reap | workers of several processes on one table |
| Conversations (`advisor/conversation_repository.py`) | `agent_conversations`, `agent_messages` | `add_message` and reads | requests write, handlers read and reply |
| Legacy store and migration (`v2/store.py`, `advisor/migration.py`) | `trees`, `legacy_tree_names` | write, read, delete; migrate | the same file as the revisions |
| Studio server (`project/tree_studio.py`, `v2/run_history.py`) | three memory caches; `runs`, `run_artifacts` | estimate, backtest, study, pruning, export, clear | request threads behind a lock, the hub, the disk |
| Walk-forward backtest (`v2/backtest.py`, `walk_forward.py`, `calendar.py`) | folds and one ledger per arm | fold windows, rebalance, daily step | process pool for the estimates |
| Pruning (`v2/tree_pruning.py`, `v2/adaptive_pruning.py`) | a tree being contracted | classify, prune, run per fold | consumes backtest reports |
| Hierarchical estimate and solver (`v2/hierarchy.py`, `v2/solver.py`) | results per node | forward, backward and flat passes; local solves | calls between nodes of the tree |
| Node universe and validation (`advisor/node_universe.py`, `v2/validation.py`) | none | normalise, validate views, edit a node | called by proposals and saves |

What makes each of them correct:

* **Revisions, proposals, approval**: the history of a tree is a line; a proposal
  is decided once, and applied only to the revision it was drafted on, with
  evidence (approval row, event) exactly when it was; a retried or concurrent
  approval never counts twice; what was answered is in the tables; expired and
  outdated proposals are not applied; one writer does not undo another.
* **Jobs**: every queued job is finished, none runs twice at once while its worker
  is well, a finished one is never reopened or re-judged.
* **Snapshot**: a proposal's numbers and its fingerprint are of the same data.
* **Caches**: what is served was computed from the configuration asked for, the way
  that endpoint computes it, on data at least as new as the request; an answered run
  is on disk; a bounded cache stays bounded.
* **Solver**: whatever route or fallback stage ended a solve, the cap and a `hard_fail`
  limit hold, and the bounds where the portfolio was audited; a claim of optimality is
  about the problem that was asked, and true; the stage log tells the truth about the
  portfolio.
* **Estimate**: the backward result does not depend on the forward diagnostic; a
  sleeve's synthetic series is the return of what the sleeve holds; audits add up.
* **Backtest**: no fold sees its future; holding periods tile the days; all arms of a
  report share one grid.
* **Pruning**: a contracted tree is a tree whose every node is reachable and whose
  exposure is kept; decisions use out-of-sample days only; what is not pruned does
  not change.
* **Legacy store**: a name has one tree, migrated once (not modelled).

Hard behaviour: every call reads outside the write transaction and writes inside
it; two server processes may share one file; a crash may fall between two commits;
the hub changes under a running computation. `PROJECT.json` lists each such hazard
at its line, with the property that covers it.

## 2. Modules

* `TreeApproval` - the core: revisions, heads, proposals, approvals and events,
  with clients that call `save_revision`, `create_proposal`, `reject_proposal` and
  `apply_proposal`, and the world (data, time, crashes) around them.
* `AtomicApproval` - what all of that promises, with one step per call and no
  clients. `TreeApproval` implements it (`ImplementsAtomicApproval`).
* `TreeApprovalProofs` - theorems about `TreeApproval`, checked by TLAPS;
  `JobQueueProofs`, `StudioCacheProofs`, `LocalSolverProofs`, `AdaptivePruningProofs`
  and `BacktestProofs` (extends it) are the same for those components. `AuditProofs`
  (extends `BacktestProofs` and `SumProofs`) has what is about sums of weights, and
  `SumProofs` the facts about finite sums it rests on (section 4).
* `MCTreeApproval` - the small instances for TLC: ids as numbers taken in order,
  and the symmetry sets.
* `JobQueue` - `agent_jobs` and the worker loop. It is independent of
  `TreeApproval`: what a handler does to the proposals is a `create_proposal` call,
  which `TreeApproval` has; here it is only counted.
* `StudioCache` - the numeric endpoints of Tree Studio with their three memory caches
  and the tables behind them. `ResultService` is what they promise a client;
  `StudioCache` implements it. `MCStudioCache` is the instance.
* `LocalSolver` - one node's solve: regimes, hrp and the convex routes with the checks
  of their own, the search and the staged fallback with their final audit.
  `MCLocalSolver` is the instance.
* `PortfolioTree` - the tree of a configuration, its validation and its contraction.
* `Hierarchy` (extends `PortfolioTree`) - one estimate of a tree on one window.
* `WalkForward` (extends `Hierarchy`) - a backtest: an estimate per fold, then ledgers.
* `AdaptivePruning` (extends `WalkForward`) - the adaptive run on top of a reference
  backtest, the whole specification, and the properties of the four.
* `MCBacktest` - studies for it: `MCBacktest.cfg` and `MCChildCash.cfg`.

### How TreeApproval reads against the code

The state is the rows: `treeOf`, `parent` and `config` are `tree_revisions`,
`head` is `tree_heads`, `status` and `payload` are `change_proposals`, `approval`
and `outbox` are the tables of those names. `pc`, `op` and `answer` are a call in
flight: its next step, its local variables, and how it ended. Every SELECT outside
a write transaction is a step; SQLite's write lock is held from the first
INSERT/UPDATE to the commit, so those statements are one step (`sqlite3` opens
its implicit transaction at the first write, as the docstring of
`approval_service.py` says, and WAL readers see committed data only).

`apply_proposal` is `BeginApprove`, `LookupKey`, `ReadProposal` (steps 1 and 2),
`CheckExpiry` (3), `CheckHead` (4), `CheckData` (6), then `CommitApply` or
`Rollback` (7 to 11), with `Expire` on the way out of a failed check. Step 5,
the check of the patch's path, never fails for a proposal made by
`create_proposal`, the only producer, and is left out.

Abstractions, each with its reason:

* a configuration is a function from nodes to the revision that last wrote them:
  this is what "somebody's edit was lost" can tell apart;
* ids are values not yet used (`uuid4`);
* `content_hash` is the identity of the proposal it was computed over: the payload
  is immutable and holds the id, so a hash matches its own proposal only;
* the market data is a version number. A fingerprint is the version that the
  hub's coverage rows show, or `Unavailable` when the hub cannot be read:
  `_coverage_fingerprint` then returns the same sentinel every time, so a proposal
  drafted during one outage passes the check during another;
* time is the set of proposals whose expiry has passed, and grows at any moment;
* an exception before the commit (lock timeout, invalid tree) is a crash of that
  call: nothing written, no result answered.

`save_revision` has no caller outside the tests today; it is modelled because it
is the public way to write a revision and must be safe next to an approval.

### How JobQueue reads against the code

`status` is `agent_jobs.status`, `rows` the order in which `claim_next_job` reads;
`candidates` is what a worker has read and not tried yet, taken in that order (`IsNext`).
A worker's `pc` follows `_reap_then_run`: reap (SELECT, then one transaction of
guarded UPDATEs), claim (SELECT, then one UPDATE per candidate), heartbeat, handler
(a proposal, then a reply), `complete_job`. `old` is the set of running jobs whose
heartbeat lies before the reaper's cutoff: an orphan gets there for certain, and a
live worker's job gets there when its handler takes longer than the 60 s, because
nothing beats during a handler. `Crash` is a dead process or a worker thread ended
by an exception outside the handler.

### How StudioCache reads against the code

`runCache`, `artifactCache` and `rawCache` are the dicts of `StudioHandler` and
`_run_full_backtest` in insertion order, `runs` and `reports` the tables by cache
key, `saved` the stored tree. A thread's `pc` follows one POST: fingerprint (`Ask`),
memory, disk, the producer with a fingerprint of its own and the load of the data,
the store, the link to a saved tree, `record_run`, `attach_artifact`. A lock guards
each look at a cache and each store, so those are the steps. A result is what it was
computed from: tree, settings, how the walk-forward loop was run, version of the data.
What the client is promised, `ResultService`, has no cache and no disk.

### How LocalSolver reads against the code

The numerics are a finite set of portfolios, each known by what the solver measures
of it: risk, realized volatility, tracking error, gain, and its numerical error: `rough`
is off its bounds, and `over` above the level its volatility stands for, by more than
the 1e-6 of `_audit_hard_constraints`.

Each route checks what it returns in its own way, or not at all:

| Route | Takes | Checks before it returns |
|---|---|---|
| hrp (`SolveHrp`) | one portfolio, or raises | bounds and budget by 2e-6, so a rough one passes |
| LP, QP (`SolveLp`, `SolveQp`) | the optimum within the bounds, or gives up (`Best`) | nothing after zeroing and renormalization: it may be rough |
| SOCP (`SolveSocp`) | what passes its checks (`ConeSet`), or gives up: an inaccurate optimum is taken too | cap and tracking limit by 1e-6 (`KeepsCap`), not the bounds |
| search, fallback | any portfolio within the search's tolerance of 2e-6, or none: SLSQP stops at local optima and its starts are finitely many | `_audit_hard_constraints`: bounds and cap (`PassesAudit`) |

Of the fallback's projections only what minimises the tracking error, which is convex,
is the minimum. A convex route that gives up falls to the search (`FallToSearch`). All
control is kept: the refusals before a regime and in it (the target's and the cap's
reference series may be missing separately), `_normalize_direct_constraints`, the choice
of route by the *resolved* constraints, the fallback's stages A, B, C, the two
relaxations when both policies allow them, the witness, the audit, the second regime and
the choice.

### How Hierarchy, WalkForward and AdaptivePruning read against the code

A weight is a multiple of `1/Unit` and a return series is the combination of columns
it consists of, so "the synthetic series of a node is the return of what the node
holds" is an equation between two functions. The solver is deterministic and unknown:
`solved` remembers its answers, chosen freely the first time a problem is posed, so
that two ways of computing the same thing can be compared (`DirectBottomUp` follows
`estimate_direct_bottom_up`). `Problem` is everything a solve is given. One solve is
one step; `forward`, `backward` and `flat` are the dicts of results.

A study is a call of the backtest: configuration, mode, days with data, frequencies,
windows, workers, pruning policy. Days are numbered calendar days; `Period` puts a day
into the period whose label is the next period end, which may be a day without trading,
as pandas does. `folds`, `estimates` and `points` are the three phases of `run`. A
ledger is kept as which day an arm earned on which fold's target: drift of weights,
costs and metrics are floats. `PruneConfig` is the loop of `prune_config`, one
operator per branch. A verdict of `classify_node` is free, except that without
evidence it is "prune". The pool of `run_adaptive_pruning` reads only what the
reference run left behind, so its calls are taken one at a time in any order.

## 3. What TLC checks

| Run (`.cfg`) | Instance | Shows |
|---|---|---|
| `approvals` (`MCTreeApproval`) | 1 tree, 2 nodes, 3 revisions, 1 proposal, 1 key, two clients in all roles, 1 data change, hub outages | types; linear history; audit trail; final decisions; no stale approval; no lost update; refinement of `AtomicApproval` |
| `two_trees` (`MCTwoTrees`) | 2 trees, 1 node, 4 revisions, 2 proposals, 1 key, two clients | a key buys one approval across trees; a success answered is durable; refinement |
| `jobs` (`MCJobQueue`) | 2 jobs, 2 workers, 1 crash, 1 slow handler | claims, completion and reaping; every enqueued job is finished |
| `studio` (`MCStudioCache`) | 2 threads, 1 tree under 2 settings, 5 requests, caches of 2, 1 and 2 entries, 1 refresh of the hub, 1 save, 1 restart | entries are true of their keys; answered runs are kept; links are true; eviction; refinement of `ResultService` |
| `solver` (`MCLocalSolver`) | 6 portfolios, one of them rough and one over, 4 universes, every combination of objective, financing, target, cap, limit and policies | the cap, and audited bounds; `hard_fail`; a claim of optimality is about the problem asked; the stage log; independent regimes; every solve ends |
| `backtest` (`MCBacktest`) | three families of studies, below | look-ahead, tiling, the forward diagnostic, sleeves, audits, the flat estimate, the common grid, contraction, evidence, targets |
| `status_diagram` (`MCStatusDiagram`), `stale_revision` (`MCStaleRevision`), `snapshot` (`MCSnapshot`), `reaping` (`MCJobReaping`), `cap_mode` (`MCCapMode`), `child_cash` (`MCChildCash`) | small | six claims of the docs the code does not keep (section 5) |

`backtest` is one run over three families. *Calendars*: one node, one answer per
solve; the nine weekdays of two weeks and a bit, with any one missing or a whole
week, daily, weekly and monthly estimation and rebalancing in every combination,
rolling and expanding windows of one or two observations, partial last periods.
*Estimates*: two- and three-node trees in the three modes, every solve free to split,
lend, borrow or fail; nodes that refer to the forward root, financed nodes, a node
beyond classification, adaptive pruning on top. *Prunings*: five-node trees with four
levels, nested equal proxies, a declared mean reference, every verdict, two burn-ins,
evidence windows, a limit on the report's folds, one or two workers.

Why the bounds are enough. For the calls on shared tables, all the guards compare a
value read with a value now, so a race needs two clients, and each of the code's races
is between two calls. Three revisions are the root, a competing write and the one under
test; two nodes let an edit be lost; a second proposal, tree and key holder are only
needed for keys that cross trees, which `two_trees` has (without editors: they do not
touch approvals, and the `approvals` run has them). Two proposals need four revisions
there: two roots and two results. One data change separates "before" from "after",
and an outage can fall on the draft, on the approval, on both or on neither. For
jobs, two workers and two jobs give the claim race and the reap race; one crash and
one slow handler can each fall at any step of any run. For the caches, two requests
race for a key across one refresh, or three fill a cache of two and evict; `FewEvents`
bounds how many of these happen in one behaviour. The hub's outage sentinel is left
to `approvals` (section 5). For the solver, four portfolios are enough for every
measure to disagree with every other, so that each constraint excludes something and
each objective prefers something else; a fifth is rough and a sixth over. For the backtest, two folds are what carries
state from one to the next and what evidence needs; two levels below the root are
what composition multiplies, four are what contraction, lift, cut and sweep need.
`IdsInOrder` drops only behaviours that take ids in another order. Symmetry is over
interchangeable clients, trees and nodes, in runs without liveness properties. The
`approvals` run looks at states through the view `AnswersForgotten`: no step reads
how an earlier call ended, and of its properties only a conjunct of `TypeOK`, proved
in general, mentions it. `two_trees`, whose `SuccessIsDurable` is about the answers,
has no view. `jobs`, `studio` and `solver` do not look for deadlocks, because there
the system does stop: all jobs done, all requests made, the solve ended. `backtest`
does, with a stuttering step once the caller has its report or its exception.

Fairness. A worker that can take a step takes one (it is a loop with a
poll of 0.2 s), handlers return or raise, time passes for an orphan, and a dead
process is started again. The last is the operator's doing, as the runbook says:
within one process nothing restarts a worker thread that an exception ended. No
fairness is assumed for requests: a message whose request dies is never enqueued.
Handlers outlast the timeout at most `MaxSlow` times; without a bound two processes
could take the same job from each other for ever. A solve (`Terminates`) is one
call that runs to its end; its fairness is that of a running thread.

Each property is tried against a mutated model (`PROJECT.json`, `mutants`): a
dropped guard, a check that ignores what it read, an answer given before the
commit, a window one day off. The mutated forms stand in the modules next to the definitions they would
replace, and nothing else uses them.

## 4. What is proved

`TreeApprovalProofs`, for all sets of trees, nodes, revisions, proposals, keys and
clients, and any amount of data changes. Assumptions: `None` is none of the ids,
`MaxData` is a natural number, `Unavailable` is not a version, `Outages` is Boolean.

* `TypeCorrect`: `Spec => []TypeOK`. `TypeOK` is not inductive by itself: a step
  that indexes `head` with `op[c].tree` needs it not to be `None`. The invariant is
  `Filled`: types, heads point to committed revisions of their tree, each call
  holds the fields that its label says it has (`CallFilled`), and each proposal
  row names a committed base on its tree (`PayloadFilled`). Its step lemma also
  gives `Kept`: rows are never changed or removed. `AlwaysFilled` states it.
* `HistoryIsLinear`: `Spec => []LinearHistory`. All writers reduce to one effect
  (`TreeStep`): nothing, a new root, or a revision appended to the head it names as
  parent. For `save_revision` this needs an argument: it inserts with the parent it
  *observed* and guards with the head its caller *pinned*. If the two differ and
  the guard still succeeds, the head would have to have come back to an older
  revision; the invariant `Lines` carries what excludes it (an observed head that is
  no longer the head has a child, and the head has none).
* `DecisionsAreFinal`: from `Effects`, the case analysis of all a step can do to the
  proposals: a draft, a guarded transition, an expiry, or a commit.
* `AuditTrailAlwaysAgrees`, `KeysBuyOneApproval`: by the invariant `Audit`, which
  adds that events are of applied proposals only.
* `Refinement`: `Spec => ImplementsAtomicApproval`. Every step maps to a step of
  `AtomicApproval` or a stutter, using `Lines` (the head is the parent) and `Audit`
  (the key is unused).

The second half of `TreeApprovalProofs` is about `apply_proposal` and its answers:

* `ApprovalsAreFresh`: `Spec => NoStaleApproval`. The commit repeats neither the check
  of the expiry nor that of the data, so the invariant is about the call: `Checked`
  says, label by label, what the checks it has passed established (`CallChecked`).
  `Proceeding` reduces every step to "the call stays", "it leaves `apply_proposal`" or
  one of the six steps that lead on.
* `SuccessLasts`: `Spec => []SuccessIsDurable`. By `Answering` only the commit and the
  look at the key answer with a success; `Audit` says the row the key found is of an
  applied proposal; `TruthLasts` and `AppliedStays` that it stays.
* `EditsSurvive`: `Spec => NothingIsLost`, from `Filled` and the guards of the two
  writers of a head.

`JobQueueProofs`, for all sets of jobs and all finite sets of workers, any number of
crashes and slow handlers:

* `QueueTypeCorrect`: `Spec => []TypeOK`.
* `SuccessIsAnswered`, `DoneStaysDone`: by `QueueInv`: a job without an enqueued request
  has no row, claims are reaps plus one if the job is running or done, and a worker
  about to report success has replied.
* `ClaimsAreExclusive`: `Spec => []ClaimedOncePerQueueing`. That a run's effects do not
  exceed its claims is not inductive, because a worker that lost its job to a reaper
  still replies. `PaidFor` is: effects made, plus workers that still owe one, are at
  most the claims. It counts workers, hence the assumption that they are finite.

`LocalSolverProofs`, for all sets of portfolios and settings:

* `HardConstraintsAlwaysHold`, `HardFailIsAlwaysHard`: by `SolveInv`, which carries
  through the stages of the fallback what each leaves to the next: the bound is the
  limit while the limit must be met (`BoundIsLimit`), the witness keeps the target while
  that must be met (`WitnessIsKept`), a stage that drops both is reached only if both
  policies allow it (`RelaxedOnlyIfBothMay`), and what a stage found is of its regime
  (`FoundIsKept`). The cap is kept for a reason of each route's own (`Sound`): the audit
  where there is one, the cone program's recheck, and of the other routes because they
  are not taken where a cap is resolved (`RoutesKeep`, `HrpIsPlain`). Of the bounds the
  theorem says what the code does: only `hrp` and the convex routes may be off by more
  than the audit's tolerance. Assumptions: `None` is no portfolio, the settings and
  universes are sets of such, and an `hrp` setting with a target or a cap names its
  reference (section 5).

The second half of `LocalSolverProofs` adds two assumptions: `None` is no level of a bound
and no regime, and neither `None` nor the exception `Raised` is a candidate.
`AnswerInv` says what a solve has established so far: which regimes were tried and what
they left (`RegimesCounted`, `Chosen`), that the log is that of the stages passed
(`LogSoFar`), and that what the fallback found, or a regime kept, is what its stage and its
status say it is (`FoundIsTold`, `CandidatesAreTold`, `AnswersAreTrue`).

* `SolverTypeCorrect`, `ClaimsAlwaysAnswerTheQuestion`, `StagesAlwaysTellTheResult`,
  `RegimesStayIndependent`: the four remaining invariants of the solver's run. A claim of
  optimality is proved to be about a portfolio that keeps everything that was resolved;
  that nothing is better is proved of the LP and the QP, of which it says that no step
  after their solver, and no constraint they do not know, comes between. Of the cone
  program it is not true (section 5).

`AdaptivePruningProofs`, for all calendars, studies and trees:

* `NeverLooksAhead`: `Spec => []NoLookAhead`, by `HeldOnFolds` (every point of every curve
  lies in the holding of a planned fold) and two facts about periods.
* `HoldingsAlwaysTile`: `Spec => []HoldingsTile`. A day is held from the last signal
  before it and from no other (`LastSignalHolds`); and that signal has a fold: training
  windows only grow (`TrainingStaysEnough`, for a rolling window by
  `LatestAreEnough`, an argument about the greatest number left out), and a
  later signal exists where one is needed.
  Assumptions: days and labels are natural numbers, every weekday has a first label at
  or after it, a study has finitely many weekdays and two known frequencies.

The second half of `AdaptivePruningProofs` is for all trees and all choices of verdicts.
`PruneConfig` is written with functions that recurse along the tree and along the order of contraction, and says
nothing until such functions are known to exist: `IterationExists` proves it, once,
from a least counterexample (the library's induction takes an operator, which no prover
here can instantiate). On it rest levels and depth (`LevelsExist`, `DepthCounts`), that the
loop takes every node once and parents before their children (`KthIsNext`,
`ParentComesBefore`), and the invariant of the loop, `LoopInv`: nodes not yet taken are as they
were (`OnlyDone`), what is gone has a reason (`DroppedForAReason`), a node moves up one level at
most (`LiftedOnce`), children change with their parents only (`ChildrenFollow`), what is kept
hangs on what is kept (`KeptHangsOnKept`), and what was promoted is held (`PromotedIsHeld`).
Each of the four branches of the loop has a lemma that keeps it (`DroppingKeeps` and its
kin). `ContractionLeavesATree` and `ContractionKeepsExposure` are the result, for a tree by
itself; the theorems are theirs for the specification. Assumption: `StudiesAreOfTrees`,
which also gives the three maps of a configuration their types.

* `PruningAlwaysLeavesATree`: `Spec => []PrunedTreeIsATree`.
* `ExposureAlwaysSurvives`: `Spec => []ExposureSurvives`.

`StudioCacheProofs`, for all trees, settings, requests and threads, caches of any size,
any number of refreshes, saves and restarts. Assumptions: `None` is no tree and no
result, and `Unavailable` is not a version. The invariant is `CacheInv`: what lies in
memory answers its key (`MemoryInv`), what lies on disk does and is linked to the tree
it was computed from (`DiskInv`), each thread's fields are those its label needs and its
result is the one its request asked for (`ThreadInv`), and an answered run is on disk.

* `CachesTypeCorrect`, `AnswersAreOnDisk`, `LinksStayTrue`: `Spec => []TypeOK`,
  `[]AnsweredRunsAreKept`, `[]LinksAreTrue`. `KeysAreNeverMixed` is what stays of
  `EntriesAreTrue` whatever the hub does: an entry is of its key's tree and settings.
* `EntriesStayTrue`: `Spec => []EntriesAreTrue`, and `ServesResults`: `StudioCache`
  implements `ResultService`, both for `~Outages` (section 5 says what an outage does).
* `EvictionIsForRoom`: `Spec => EvictsOnlyForRoom`.

`BacktestProofs`, for all calendars, studies and trees and every solver. `BacktestInv` follows
an estimate through the passes: which results it has (`PassInv`), of which study and
window (`JobInv`), that what was kept came from such a job (`KeptInv`), what each phase
has finished (`PhaseInv`), which arms have which points (`LedgerInv`), that every local
result is the solver's answer to its problem (`SolvedInv`: this is what relates two
estimates of the same tree) and what a failed flat solve asked (`FlatFailedInv`).
Assumptions (`StudiesAreOfTrees`): configurations passed validation, their nodes are
numbers, parents before children, and finitely many, and the burn-in is positive. That a
candidate is solved from its leaves up needs the same of it: a contracted tree still has its
parents first, by `ContractionLeavesATree`.

* `BacktestTypeCorrect`: `Spec => []TypeOK`.
* `FlatAlwaysStandsAlone`: `Spec => []FlatStandsAlone`.
* `GridAlwaysLostByDiagnostics`: `Spec /\ []BenchmarkIsImplemented =>
  []GridIsLostByDiagnosticsOnly`. `B0_SYNTH` is an arm of the folds whose benchmark sleeves
  are not zero; `SleevesKeepTheGrid` below says when that is so.
* `BurnInAlwaysBuysEvidence`: `Spec => []BurnInBuysEvidence`.
* `ForwardIsAlwaysDiagnostic`: `Spec => []ForwardIsDiagnostic`. Both results are recursive along
  the tree. Series exist, by a greatest counterexample (`SeriesExist`), and the series of a
  node depends on what is below it only (`SeriesAgree`), so the problem that the backward
  pass posed at a node, knowing the nodes after it, is the one that is posed from the leaves
  up (`MadeDirectly`); what the solver answered it then answers again.

`AuditProofs`, for the same and every solver whose answers are allocations. The model rounds
products of weights where the code has reals; these hypotheses say when that does no harm
or what the code relies on, and TLC found them true (the first, of all answers kept) in
every state of the `backtest` instance:

* `SolverAllocates`: what the solver answers has weights on all columns of the problem, on
  cash only where the node is financed, and they add up to one. `LocalSolver` models how an
  answer is found among portfolios that do; this is its promise to the tree.
* `NothingIsRounded`, and `SleevesAreExact` for the benchmark's sleeves: the products that
  `_compose`, `_finalize_audits` and `_implemented_benchmark_weights` take are whole
  multiples of the model's smallest weight. It is needed: with any other weights the
  model's sums miss `Unit` by what was rounded off, which says nothing about the code.
* `OneCash`: a financed root has no proxy and is the only financed node. It is needed as well:
  without it the code does what the run `child_cash` shows (section 5).
* `BenchmarkIsHeld`: the benchmark's weights do not add up to zero. They add up to one in all
  configurations of the repository, but nothing validates it.

Two assumptions about names join `StudiesAreOfTrees`: there are finitely many, and the name
of a financing instrument (`cash:...`) is no ticker's (`ticker:...`).

* `AnswersStayAllocations`: `Spec => []AllocatedInv`. Every tree an estimate works on, a
  contraction or a flat tree included, is `LaidOut`: its instruments and proxies are exposures
  of the configured tree and no proxy is also an instrument of the parent. So every problem
  posed has distinct columns, none of them cash, and every answer kept is an allocation.
* `SleevesAlwaysHold`: `Spec => [](OneCash => SleevesAreWhatTheyHold)`. Series and compositions
  exist (`SeriesExist`, `ComposedIsWhole`) and satisfy the same recursion at each node
  (`SleeveAt`: a sum over the columns of a frame splits into instruments, children and cash,
  `SumsSplit`), hence are equal from the leaves up (`LeavesUp`). Cash is where `OneCash` enters
  (`CashIsOwn`).
* `AuditsAlwaysExplain`: `Spec => [](NothingIsRounded => AuditsExplainThePortfolio)`. That terminal
  weights add up to one goes from the leaves up (`EachAddsUp`). For cash, the
  weights a node passes to its children are exchanged against those they had
  (`WeightPassesDown`); summed over the tree everything cancels but the root
  (`CashIsExplained`), whose global weight is one.
* `SleevesKeepTheGrid`: `Spec => [](SleevesAreExact => GridIsLostByDiagnosticsOnly)`. What implements
  a ticker of the benchmark is worth one, as the ticker is (`ImplementationsAreWhole`), so the
  sleeves add up to what the benchmark does (`SleevesAreHeld`, by exchanging two sums) and are
  not zero.
* `OnlyPruningEverChangesTargets`: `Spec => [](OneCash => OnlyPruningChangesTargets)`. A candidate in
  which nothing is pruned is solved over data without the financing columns of the reference
  run; an allocation earns the same from either (`FinancingAddsNothing`), so both runs pose the
  same problems, root to leaves and back (`SameForward`, `SameBackward`), and the solver answers
  them alike. With a financed root *and* a financed child it is false (section 5).

`SumProofs` is what these need of finite sums (adding, scaling, splitting a set, renaming the
terms, exchanging two sums), proved from the library's definition of a fold, and of functions
that recurse along a rank (`RecursionExists`), again by a least counterexample in the place of
an induction over data.

So every safety property that a run checks is a theorem. Liveness under fairness
(`EveryJobFinishes`, `Terminates`) is out of this prover's reach and stays with TLC.

## 5. Where the code and its documents differ

* `StatusFollowsDiagram`: an approval goes from `pending_approval` straight to
  `applied`; the diagram of `state_machine.py` and of the plan has `applying` between.
* `StaleRevisionExpires`: a head that moves between step 4 and step 9 is answered
  with `stale_revision`, but the proposal stays `pending_approval` (the next approval
  expires it at step 4).
* `SnapshotIsOneVersion`: the dataset and its fingerprint are read one after the
  other from a database that may change in between. With the fingerprint the newer
  of the two, the approval's recheck then finds nothing to object to.
* `ReapsOnlyOrphans`: with two server processes on one file, a handler that lasts
  more than 60 s is requeued and run by both. `ClaimedOncePerQueueing` bounds the
  damage at one proposal and one reply for each time the job was put on the queue.

* `CapModeOnlyBounds`: a target in cap mode is folded into the cap only when it is a
  number; with a relative reference the solver holds the portfolio to it exactly.
* `SleevesAreWhatTheyHold` (run `child_cash`): in a backtest the data of a financed
  root hold the column `cash:RF` at the root's rate, and `_local_series` takes any
  column from the data that the data have. A financed child with a rate or spread of
  its own is then shown to its parent at the root's rate, while its ledger position,
  `cash:RF@<id>`, earns its own. The `backtest` run shows that the equation holds
  where only one of the two is financed; a direct estimate, whose data have no
  financing columns, is not affected.

Observed while modelling, each in the modules but without a run of its own:

* `FlatStandsAlone` exempts trees with a node "beyond classification": an exact target
  beside a cap in numbers passes validation, `classify` raises a `ValueError`
  (`problem_class.py:66`), and neither `_estimate_flat` (`hierarchy.py:108`) nor the
  loop over financing regimes catches it. The docstring of `_estimate_flat` promises an
  unaffected flat result "if the Forward pass fails for any reason".
* The same diagnostics, when they fail in some folds only, leave their arms with
  fewer days, and the flat backtest is refused (`backtest.py:306`).
  `GridIsLostByDiagnosticsOnly` shows that nothing else can lose the grid.
* A failed forward pass at an inner node fails `forward_backward`, although
  `estimate_direct_bottom_up` would succeed: `ForwardIsDiagnostic` is about results.
* Adaptive pruning of a tree whose targets hold cash ends in a `KeyError`: its
  valuation frame has no financing columns (`adaptive_pruning.py:239`, the outcome
  "missing column").
* Nested nodes with the same proxy can be pruned into a tree that validation refuses,
  and a declared mean reference may no longer fit the node after a lift; either ends
  the whole adaptive run ("candidate refused", "candidate failed").
* With `max_folds`, the adaptive arms buy their first portfolio inside the report and
  `STATIC_FINAL`, cut from a longer curve, does not; its costs are reported as 0.
* Of two regimes' portfolios the better *economic* score wins, so one that is only
  nearest to its target may displace one that matched it (`solver.py:224`).
* `_compose` calls a node the root when it has no proxy, `_with_financing_returns` when
  it is `model.root`; a root with a proxy would name its cash differently in the two.
* Structural validation compares tickers as written, `V2Model` normalises them: `spy`
  and `SPY` below one parent pass the one and collide in the other.
* While the hub cannot be read every fingerprint is the same sentinel, so results are
  served across refreshes that fall into two outages; `ImplementsResultService` is
  about a hub that can be read. More than that: the raw cache's key holds the
  fingerprint the *producer* read, so a backtest kept during one outage is served in a
  second one to a request whose own fingerprint was read while the hub could be read.
  It then lies under a real fingerprint although it is of older data
  (`EntriesAreTrue` with outages, found when its proof needed `~Outages`).
* `OnlyPruningChangesTargets` does not hold when the root and a child are both financed:
  the reference run's data have the column `cash:RF`, so the child's cash is the
  root's there, while the candidate's data have no financing columns and the child's
  cash keeps its own name. With nothing pruned, the parent is solved over another series.
* With `volatility_reference` or `max_volatility_reference` "none" declared beside a
  number, `hrp` ignores the number (`model.py:67`, `solver.py:1378`) although it says it
  "does not support a volatility target or cap"; the models take configurations in which
  a number has a reference.
* The cone program's route takes a solution that Clarabel calls inaccurate as it takes an
  optimal one (`solver.py:1243`). Its cap and limit are checked again, its distance from
  the optimum is not, and expected returns per period are small numbers beside a solver's
  reduced tolerances; the audit still says "clarabel SOCP: optimal" and sets
  `global_optimality_claim` (`solver.py:1326,1349`). The docstring says that this route
  "can honestly claim global optimality" (`solver.py:1278`). `ClaimsAnswerTheQuestion`
  therefore says nothing of what may beat the cone program's portfolio.
* The audit's docstring says bounds "must never be silently violated" by zeroing and
  renormalization (`solver.py:2176`), but only the search and the fallback are audited
  (`solver.py:772`): hrp allows 2e-6, and LP, QP and SOCP zero and renormalize without
  looking at the bounds again. `HardConstraintsHold` says which routes may be off; the
  slacks in the audit they return show by how much.
* `StudioCache` simplifies two reads. A row of `runs` is read back as the result of the
  path and settings in its key, which is what was written there. And a fingerprint shows
  the whole version of the data, where the code's covers the instruments of the
  configuration: a refresh of others leaves its key as it is, and its results too, which
  do not depend on them.
* `migrate_legacy_json_models` says existing names are "overwritten with the same
  content" (`store.py:147`); a second import also overwrites what was edited since.
* A full artifact cache drops its oldest entry even for a key it already has
  (`tree_studio.py:996`); the cache keeps to its limit and its entries stay true.

## 6. Plan

Done: the core (`TreeApproval`, `AtomicApproval` and their proofs), `JobQueue`,
`StudioCache` with `ResultService`, `LocalSolver`, and `PortfolioTree`, `Hierarchy`,
`WalkForward`, `AdaptivePruning`; proofs of all the safety properties of `TreeApproval`,
`JobQueue`, `StudioCache`, `LocalSolver` and the backtest, contraction, the direct estimate
and the audits included. Next, in this order:

1. `LegacyTrees`: the name-keyed store beside the migrated revisions, with two
   concurrent migrations, edits after migration and a re-import over newer edits.
2. The advisor's view validation, and the alignment of price levels, against
   reference definitions.

## 7. Not modelled

* The legacy store and its migration: two short modules that are kept to read old
  trees; planned.
* Moments, currency conversion, price alignment, metrics and the drift of a ledger
  are floating-point numerics: there is no state to explore, and a model would check
  integers in the place of the reals that matter. Of the solver's numerics only what
  the control looks at is modelled.
* The parsing and defaulting of single configuration fields; the trees of the models
  are what comes out of it.
* The scientific study, exports, catalogues, the HTTP API and the scripts are
  sequential reports, formatting and routing.
* The agent and the reviewer are calls to a language model; what they commit goes
  through `create_proposal`. Counterfactual evaluation runs two estimates and compares.
* Two server processes are modelled for the jobs and the approvals, not for the
  caches, which are each process's own; the tables behind them are shared by upserts
  under the same keys.

`PROJECT.json` gives the reason for each component. Delivery of outbox events and the
confirmation run of the plan do not exist in the code yet.
