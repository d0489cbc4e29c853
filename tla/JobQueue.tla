------------------------------ MODULE JobQueue ------------------------------
(***************************************************************************)
(* The advisor's durable job queue: the table agent_jobs, the request that *)
(* posts a message and enqueues a job, and the workers of                  *)
(* tree_studio._start_advisor_worker, each the one worker thread of a      *)
(* server process on the shared database: reap, claim, heartbeat, run the  *)
(* handler, complete, and again.                                           *)
(*                                                                         *)
(* Each call commits on its own; a worker's reads and writes interleave    *)
(* with the others'.  Time is abstracted to the set of running jobs whose  *)
(* heartbeat is older than the reaper's timeout.                           *)
(*                                                                         *)
(* StaleNone, ReapUnguarded, ClaimUnguarded, CompletesUnguarded,           *)
(* OutcomeMistyped and OutcomeUnread are no part of the model: each is the *)
(* bug that the definition after it excludes, for trying the properties    *)
(* against.                                                                *)
(***************************************************************************)
EXTENDS Naturals, Sequences, FiniteSets

CONSTANTS
    Jobs, Workers,
    MaxCrashes,     \* bound: worker processes that die
    MaxSlow         \* bound: handlers that outlast the heartbeat timeout

ASSUME BoundsAreNat == MaxCrashes \in Nat /\ MaxSlow \in Nat
ASSUME WorkersAreFinite == IsFiniteSet(Workers)

VARIABLES
    request,    \* by job: the request that is to enqueue it
    rows,       \* agent_jobs in rowid order
    status,     \* agent_jobs.status; "absent": no such row
    old,        \* running jobs whose heartbeat_at is before the reaper's cutoff
    proposals, replies,     \* by job: what its handler runs have committed
    pc, held,   \* by worker: its next step, the job it claimed
    stale,      \* by worker: the running jobs its reaper found too old
    candidates, \* by worker: the queued jobs it has read and not tried
    claims, reaps,          \* history: how often a job was claimed, put back
    crashes, slow           \* counts under MaxCrashes and MaxSlow

table   == <<rows, status, old>>
effects == <<proposals, replies>>
worker  == <<pc, held, stale, candidates>>
history == <<claims, reaps>>
counts  == <<crashes, slow>>
vars    == <<request, table, effects, worker, history, counts>>

Finished == {"succeeded", "failed"}
Labels   == {"reap_read", "reap_write", "claim_read", "claim", "heartbeat",
             "handle", "reply", "succeed", "fail", "down"}
Running  == {"heartbeat", "handle", "reply", "succeed", "fail"}

Init ==
    /\ request = [j \in Jobs |-> "none"]
    /\ rows = <<>>
    /\ status = [j \in Jobs |-> "absent"]
    /\ old = {}
    /\ proposals = [j \in Jobs |-> 0]
    /\ replies = [j \in Jobs |-> 0]
    /\ pc = [w \in Workers |-> "reap_read"]
    /\ held = [w \in Workers |-> {}]
    /\ stale = [w \in Workers |-> {}]
    /\ candidates = [w \in Workers |-> {}]
    /\ claims = [j \in Jobs |-> 0]
    /\ reaps = [j \in Jobs |-> 0]
    /\ crashes = 0
    /\ slow = 0

\* The job a worker is running, as a set: empty or one job.
Holds(w, j) == pc[w] \in Running /\ j \in held[w]

Goto(w, l) == pc' = [pc EXCEPT ![w] = l]

-----------------------------------------------------------------------------
(* services.post_message_and_enqueue: two commits.                         *)

PostMessage(j) ==
    /\ request[j] = "none"
    /\ request' = [request EXCEPT ![j] = "posted"]
    /\ UNCHANGED <<table, effects, worker, history, counts>>

EnqueueJob(j) ==
    /\ request[j] = "posted"
    /\ request' = [request EXCEPT ![j] = "enqueued"]
    /\ rows' = Append(rows, j)
    /\ status' = [status EXCEPT ![j] = "queued"]
    /\ UNCHANGED <<old, effects, worker, history, counts>>

\* The server dies between the two commits: a message without a job.
LoseRequest(j) ==
    /\ request[j] = "posted" /\ crashes < MaxCrashes
    /\ request' = [request EXCEPT ![j] = "lost"]
    /\ crashes' = crashes + 1
    /\ UNCHANGED <<table, effects, worker, history, slow>>

-----------------------------------------------------------------------------
(* reap_orphaned_jobs                                                      *)

StaleNone == {}
StaleJobs == {j \in Jobs : status[j] = "running" /\ j \in old}

ReapRead(w) ==
    /\ pc[w] = "reap_read"
    /\ stale' = [stale EXCEPT ![w] = StaleJobs]
    /\ Goto(w, "reap_write")
    /\ UNCHANGED <<request, table, effects, held, candidates, history, counts>>

ReapUnguarded(w) == stale[w]
Reapable(w) == {j \in stale[w] : status[j] = "running"}

ReapWrite(w) ==
    /\ pc[w] = "reap_write"
    /\ status' = [j \in Jobs |-> IF j \in Reapable(w) THEN "queued" ELSE status[j]]
    /\ reaps' = [j \in Jobs |-> IF j \in Reapable(w) THEN reaps[j] + 1 ELSE reaps[j]]
    /\ old' = old \ Reapable(w)
    /\ stale' = [stale EXCEPT ![w] = {}]
    /\ Goto(w, "claim_read")
    /\ UNCHANGED <<request, rows, effects, held, candidates, claims, counts>>

-----------------------------------------------------------------------------
(* claim_next_job                                                          *)

ClaimRead(w) ==
    /\ pc[w] = "claim_read"
    /\ candidates' = [candidates EXCEPT ![w] = {j \in Jobs : status[j] = "queued"}]
    /\ Goto(w, "claim")
    /\ UNCHANGED <<request, table, effects, held, stale, history, counts>>

ClaimUnguarded(j) == TRUE
StillQueued(j) == status[j] = "queued"

\* The candidates are tried in rowid order.
IsNext(w, j) ==
    /\ pc[w] = "claim" /\ j \in candidates[w]
    /\ \A k \in candidates[w] \ {j} :
         \E m, n \in DOMAIN rows : m < n /\ rows[m] = j /\ rows[n] = k

Claim(w, j) ==
    /\ IsNext(w, j)
    /\ StillQueued(j)
    /\ status' = [status EXCEPT ![j] = "running"]
    /\ old' = old \ {j}
    /\ claims' = [claims EXCEPT ![j] = @ + 1]
    /\ held' = [held EXCEPT ![w] = {j}]
    /\ candidates' = [candidates EXCEPT ![w] = {}]
    /\ Goto(w, "heartbeat")
    /\ UNCHANGED <<request, rows, effects, stale, reaps, counts>>

ClaimLost(w, j) ==
    /\ IsNext(w, j)
    /\ ~StillQueued(j)
    /\ candidates' = [candidates EXCEPT ![w] = @ \ {j}]
    /\ UNCHANGED <<request, table, effects, pc, held, stale, history, counts>>

NothingToClaim(w) ==
    /\ pc[w] = "claim" /\ candidates[w] = {}
    /\ Goto(w, "reap_read")
    /\ UNCHANGED <<request, table, effects, held, stale, candidates, history, counts>>

-----------------------------------------------------------------------------
(* run_worker_once after the claim, with the handlers of services.py       *)

Heartbeat(w) ==
    /\ pc[w] = "heartbeat"
    /\ old' = old \ {j \in held[w] : status[j] = "running"}
    /\ Goto(w, "handle")
    /\ UNCHANGED <<request, rows, status, effects, held, stale, candidates, history, counts>>

Count(f, w) == [j \in Jobs |-> IF j \in held[w] THEN f[j] + 1 ELSE f[j]]

\* The handler creates a proposal (or, answering a question, none) ...
HandlerProposes(w) ==
    /\ pc[w] = "handle"
    /\ proposals' = Count(proposals, w) \/ UNCHANGED proposals
    /\ Goto(w, "reply")
    /\ UNCHANGED <<request, table, replies, held, stale, candidates, history, counts>>

\* ... and then posts the assistant's message.
HandlerReplies(w) ==
    /\ pc[w] = "reply"
    /\ replies' = Count(replies, w)
    /\ Goto(w, "succeed")
    /\ UNCHANGED <<request, table, proposals, held, stale, candidates, history, counts>>

HandlerRaises(w) ==
    /\ pc[w] \in {"handle", "reply"}
    /\ Goto(w, "fail")
    /\ UNCHANGED <<request, table, effects, held, stale, candidates, history, counts>>

CompletesUnguarded(w) == held[w]
Completes(w) == {j \in held[w] : status[j] = "running"}

OutcomeMistyped(w) == pc[w]
OutcomeUnread(w) == "succeeded"
Outcome(w) == IF pc[w] = "succeed" THEN "succeeded" ELSE "failed"

CompleteJob(w) ==
    /\ pc[w] \in {"succeed", "fail"}
    /\ status' = [j \in Jobs |-> IF j \in Completes(w) THEN Outcome(w) ELSE status[j]]
    /\ old' = old \ Completes(w)
    /\ held' = [held EXCEPT ![w] = {}]
    /\ Goto(w, "reap_read")
    /\ UNCHANGED <<request, rows, effects, stale, candidates, history, counts>>

-----------------------------------------------------------------------------
\* The process dies, or an exception outside the handler ends its thread.
Crash(w) ==
    /\ pc[w] # "down" /\ crashes < MaxCrashes
    /\ crashes' = crashes + 1
    /\ held' = [held EXCEPT ![w] = {}]
    /\ stale' = [stale EXCEPT ![w] = {}]
    /\ candidates' = [candidates EXCEPT ![w] = {}]
    /\ Goto(w, "down")
    /\ UNCHANGED <<request, table, effects, history, slow>>

Restart(w) ==
    /\ pc[w] = "down"
    /\ Goto(w, "reap_read")
    /\ UNCHANGED <<request, table, effects, held, stale, candidates, history, counts>>

\* The timeout passes since a running job's heartbeat: no worker has it any more,
\* or one has and its handler is still busy (nothing beats during a handler).
Orphaned(j) == status[j] = "running" /\ \A w \in Workers : ~Holds(w, j)

OrphanAges(j) ==
    /\ Orphaned(j) /\ j \notin old
    /\ old' = old \cup {j}
    /\ UNCHANGED <<request, rows, status, effects, worker, history, counts>>

HandlerIsSlow(w) ==
    /\ slow < MaxSlow
    /\ pc[w] \in {"handle", "reply"}
    /\ \E j \in held[w] \ old :
         /\ status[j] = "running"
         /\ old' = old \cup {j}
    /\ slow' = slow + 1
    /\ UNCHANGED <<request, rows, status, effects, worker, history, crashes>>

-----------------------------------------------------------------------------
WorkerStep(w) ==
    \/ ReapRead(w) \/ ReapWrite(w)
    \/ ClaimRead(w) \/ NothingToClaim(w)
    \/ \E j \in Jobs : Claim(w, j) \/ ClaimLost(w, j)
    \/ Heartbeat(w)
    \/ HandlerProposes(w) \/ HandlerReplies(w) \/ HandlerRaises(w)
    \/ CompleteJob(w)

Next ==
    \/ \E j \in Jobs : PostMessage(j) \/ EnqueueJob(j) \/ LoseRequest(j) \/ OrphanAges(j)
    \/ \E w \in Workers : WorkerStep(w) \/ Crash(w) \/ Restart(w) \/ HandlerIsSlow(w)

\* Workers run, handlers return or raise, time passes, and a dead server is started
\* again.  Nothing obliges a request to reach its second commit.
Fairness ==
    /\ \A w \in Workers : WF_vars(WorkerStep(w)) /\ WF_vars(Restart(w))
    /\ \A j \in Jobs : WF_vars(OrphanAges(j))

Spec == Init /\ [][Next]_vars /\ Fairness

-----------------------------------------------------------------------------
(* Properties                                                              *)

\* Every variable has its type.
TypeOK ==
    /\ request \in [Jobs -> {"none", "posted", "enqueued", "lost"}]
    /\ rows \in Seq(Jobs)
    /\ status \in [Jobs -> {"absent", "queued", "running"} \cup Finished]
    /\ old \subseteq Jobs
    /\ proposals \in [Jobs -> Nat] /\ replies \in [Jobs -> Nat]
    /\ pc \in [Workers -> Labels]
    /\ held \in [Workers -> SUBSET Jobs]
    /\ stale \in [Workers -> SUBSET Jobs]
    /\ candidates \in [Workers -> SUBSET Jobs]
    /\ claims \in [Jobs -> Nat] /\ reaps \in [Jobs -> Nat]
    /\ crashes \in 0..MaxCrashes /\ slow \in 0..MaxSlow

\* A job is claimed once for each time it was put on the queue, whoever reads the
\* queue at once; so without a reap in between it is run once, and its runs leave
\* at most one proposal and one reply each.
ClaimedOncePerQueueing ==
    \A j \in Jobs :
        /\ claims[j] = reaps[j] + (IF status[j] \in {"running"} \cup Finished THEN 1 ELSE 0)
        /\ proposals[j] <= claims[j]
        /\ replies[j] <= claims[j]

\* A job that is done is never queued, run or judged again: not by a reaper that
\* read it while it was running, nor by a worker that lost it to one.
DoneIsDone ==
    [][\A j \in Jobs : status[j] \in Finished => status'[j] = status[j]]_vars

\* A job reported as succeeded has been answered, whichever of its runs reported it.
SucceededMeansAnswered ==
    \A j \in Jobs : status[j] = "succeeded" => replies[j] > 0

\* Every job that reached the table is finished, whatever dies on the way.
EveryJobFinishes ==
    \A j \in Jobs : status[j] = "queued" ~> status[j] \in Finished

-----------------------------------------------------------------------------
(* A claim of the repository that the code does not keep                   *)

\* Only a dead worker's job is put back on the queue.
ReapsOnlyOrphans ==
    [][\A j \in Jobs : status[j] = "running" /\ status'[j] = "queued" =>
         \A w \in Workers : ~Holds(w, j)]_vars
=============================================================================
