--------------------------- MODULE JobQueueProofs ---------------------------
(***************************************************************************)
(* What the job queue promises, for every number of jobs and workers, of   *)
(* crashes and of slow handlers.                                           *)
(***************************************************************************)
EXTENDS JobQueue, FiniteSetTheorems, TLAPS

-----------------------------------------------------------------------------
(* Type correctness                                                        *)

LEMMA TypeInit == Init => TypeOK
BY BoundsAreNat DEF Init, TypeOK, Labels

LEMMA RequestTyped ==
    ASSUME TypeOK, NEW j \in Jobs,
           PostMessage(j) \/ EnqueueJob(j) \/ LoseRequest(j) \/ OrphanAges(j)
    PROVE  TypeOK'
<1> USE BoundsAreNat DEF TypeOK, table, effects, worker, history, counts
<1>1. CASE PostMessage(j)
  BY <1>1 DEF PostMessage
<1>2. CASE EnqueueJob(j)
  BY <1>2 DEF EnqueueJob
<1>3. CASE LoseRequest(j)
  BY <1>3 DEF LoseRequest
<1>4. CASE OrphanAges(j)
  BY <1>4 DEF OrphanAges
<1> QED  BY <1>1, <1>2, <1>3, <1>4

LEMMA CountTyped ==
    ASSUME NEW f \in [Jobs -> Nat], NEW w \in Workers
    PROVE  Count(f, w) \in [Jobs -> Nat]
BY DEF Count

LEMMA WorkerStepTyped ==
    ASSUME TypeOK, NEW w \in Workers, WorkerStep(w)
    PROVE  TypeOK'
<1> USE DEF TypeOK, table, effects, worker, history, counts, Goto, Labels
<1>1. CASE ReapRead(w)
  BY <1>1 DEF ReapRead, StaleJobs
<1>2. CASE ReapWrite(w)
  BY <1>2 DEF ReapWrite, Reapable
<1>3. CASE ClaimRead(w)
  BY <1>3 DEF ClaimRead
<1>4. CASE NothingToClaim(w)
  BY <1>4 DEF NothingToClaim
<1>5. ASSUME NEW j \in Jobs, Claim(w, j)
      PROVE  TypeOK'
  BY <1>5 DEF Claim
<1>6. ASSUME NEW j \in Jobs, ClaimLost(w, j)
      PROVE  TypeOK'
  BY <1>6 DEF ClaimLost
<1>7. CASE Heartbeat(w)
  BY <1>7 DEF Heartbeat
<1>8. CASE HandlerProposes(w)
  <2>1. proposals' \in [Jobs -> Nat]
    <3>1. proposals' = Count(proposals, w) \/ proposals' = proposals
      BY <1>8 DEF HandlerProposes
    <3>2. Count(proposals, w) \in [Jobs -> Nat]
      BY CountTyped
    <3> QED  BY <3>1, <3>2
  <2>2. /\ pc' = [pc EXCEPT ![w] = "reply"]
        /\ UNCHANGED <<request, rows, status, old, replies, held, stale, candidates,
                       claims, reaps, crashes, slow>>
    BY <1>8 DEF HandlerProposes
  <2> QED  BY <2>1, <2>2
<1>9. CASE HandlerReplies(w)
  <2>1. replies' \in [Jobs -> Nat]
    BY <1>9, CountTyped DEF HandlerReplies
  <2> QED  BY <1>9, <2>1 DEF HandlerReplies
<1>10. CASE HandlerRaises(w)
  BY <1>10 DEF HandlerRaises
<1>11. CASE CompleteJob(w)
  BY <1>11 DEF CompleteJob, Completes, Outcome, Finished
<1> QED
  BY <1>1, <1>2, <1>3, <1>4, <1>5, <1>6, <1>7, <1>8, <1>9, <1>10, <1>11
     DEF WorkerStep

LEMMA OutsideTyped ==
    ASSUME TypeOK, NEW w \in Workers, Crash(w) \/ Restart(w) \/ HandlerIsSlow(w)
    PROVE  TypeOK'
<1> USE BoundsAreNat DEF TypeOK, table, effects, worker, history, counts, Goto, Labels
<1>1. CASE Crash(w)
  BY <1>1 DEF Crash
<1>2. CASE Restart(w)
  BY <1>2 DEF Restart
<1>3. CASE HandlerIsSlow(w)
  BY <1>3 DEF HandlerIsSlow
<1> QED  BY <1>1, <1>2, <1>3

LEMMA TypeStep == TypeOK /\ [Next]_vars => TypeOK'
<1> SUFFICES ASSUME TypeOK, [Next]_vars PROVE TypeOK'
  OBVIOUS
<1>1. CASE UNCHANGED vars
  BY <1>1 DEF TypeOK, vars, table, effects, worker, history, counts
<1>2. CASE Next
  BY <1>2, RequestTyped, WorkerStepTyped, OutsideTyped DEF Next
<1> QED  BY <1>1, <1>2

\* Every variable of the queue has its type, whatever the workers do (jobs.py).
THEOREM QueueTypeCorrect == Spec => []TypeOK
BY TypeInit, TypeStep, PTL DEF Spec

-----------------------------------------------------------------------------
(* The queue itself                                                        *)

\* A job no request has enqueued has no row.
Unqueued == \A j \in Jobs : request[j] # "enqueued" => status[j] = "absent"

\* A job was claimed once for each time it was put on the queue.
Taken(s) == IF s \in {"running"} \cup Finished THEN 1 ELSE 0
ClaimsCounted == \A j \in Jobs : claims[j] = reaps[j] + Taken(status[j])

\* A worker about to report success has answered its job.
Answered == \A w \in Workers, j \in Jobs :
    pc[w] = "succeed" /\ j \in held[w] => replies[j] > 0

QueueInv == Unqueued /\ ClaimsCounted /\ Answered /\ SucceededMeansAnswered

LEMMA QueueInit == Init => QueueInv
BY DEF Init, QueueInv, Unqueued, ClaimsCounted, Taken, Answered,
       SucceededMeansAnswered, Finished

LEMMA RequestKeepsQueue ==
    ASSUME TypeOK, QueueInv, NEW j \in Jobs,
           PostMessage(j) \/ EnqueueJob(j) \/ LoseRequest(j) \/ OrphanAges(j)
    PROVE  QueueInv'
<1> USE DEF TypeOK, QueueInv, Unqueued, ClaimsCounted, Taken, Answered,
            SucceededMeansAnswered, Finished, table, effects, worker, history
<1>1. CASE PostMessage(j)
  BY <1>1 DEF PostMessage
<1>2. CASE EnqueueJob(j)
  BY <1>2 DEF EnqueueJob
<1>3. CASE LoseRequest(j)
  BY <1>3 DEF LoseRequest
<1>4. CASE OrphanAges(j)
  BY <1>4 DEF OrphanAges
<1> QED  BY <1>1, <1>2, <1>3, <1>4

\* Steps that change no count, no row and no request, and take no worker to success.
LEMMA QuietKeepsQueue ==
    ASSUME QueueInv, UNCHANGED <<request, status, replies, history>>,
           \A w \in Workers, j \in Jobs :
              pc'[w] = "succeed" /\ j \in held'[w] =>
                 pc[w] = "succeed" /\ j \in held[w]
    PROVE  QueueInv'
BY DEF QueueInv, Unqueued, ClaimsCounted, Answered, SucceededMeansAnswered, history

LEMMA WorkerKeepsQueue ==
    ASSUME TypeOK, QueueInv, NEW w \in Workers, WorkerStep(w)
    PROVE  QueueInv'
<1> USE DEF TypeOK, table, effects, worker, history, Goto
<1>1. CASE ReapRead(w)
  BY <1>1, QuietKeepsQueue DEF ReapRead
<1>2. CASE ReapWrite(w)
  <2>1. /\ UNCHANGED <<request, replies, claims, held>>
        /\ \A v \in Workers : pc'[v] = "succeed" => pc[v] = "succeed"
    BY <1>2 DEF ReapWrite
  <2>2. ASSUME NEW j \in Jobs
        PROVE  \/ /\ status[j] = "running" /\ status'[j] = "queued"
                  /\ reaps'[j] = reaps[j] + 1
               \/ status'[j] = status[j] /\ reaps'[j] = reaps[j]
    BY <1>2 DEF ReapWrite, Reapable
  <2>3. Unqueued' /\ SucceededMeansAnswered'
    BY <2>1, <2>2 DEF QueueInv, Unqueued, SucceededMeansAnswered
  <2>4. ASSUME NEW j \in Jobs
        PROVE  claims'[j] = reaps'[j] + Taken(status'[j])
    <3>1. claims'[j] = claims[j] /\ claims[j] = reaps[j] + Taken(status[j])
      BY <2>1 DEF QueueInv, ClaimsCounted
    <3>2. reaps[j] \in Nat /\ claims[j] \in Nat
      OBVIOUS
    <3>3. CASE status[j] = "running" /\ status'[j] = "queued" /\ reaps'[j] = reaps[j] + 1
      BY <3>1, <3>2, <3>3 DEF Taken, Finished
    <3>4. CASE status'[j] = status[j] /\ reaps'[j] = reaps[j]
      BY <3>1, <3>4
    <3> QED  BY <2>2, <3>3, <3>4
  <2>5. ClaimsCounted'
    BY <2>4 DEF ClaimsCounted
  <2>6. Answered'
    BY <2>1 DEF QueueInv, Answered
  <2> QED  BY <2>3, <2>5, <2>6 DEF QueueInv
<1>3. CASE ClaimRead(w)
  BY <1>3, QuietKeepsQueue DEF ClaimRead
<1>4. CASE NothingToClaim(w)
  BY <1>4, QuietKeepsQueue DEF NothingToClaim
<1>5. ASSUME NEW j \in Jobs, Claim(w, j)
      PROVE  QueueInv'
  BY <1>5 DEF Claim, StillQueued, QueueInv, Unqueued, ClaimsCounted, Taken,
              Answered, SucceededMeansAnswered, Finished
<1>6. ASSUME NEW j \in Jobs, ClaimLost(w, j)
      PROVE  QueueInv'
  BY <1>6, QuietKeepsQueue DEF ClaimLost
<1>7. CASE Heartbeat(w)
  BY <1>7, QuietKeepsQueue DEF Heartbeat
<1>8. CASE HandlerProposes(w)
  <2>1. /\ pc' = [pc EXCEPT ![w] = "reply"]
        /\ UNCHANGED <<request, status, replies, held, claims, reaps>>
    BY <1>8 DEF HandlerProposes
  <2> QED  BY <2>1, QuietKeepsQueue
<1>9. CASE HandlerReplies(w)
  BY <1>9 DEF HandlerReplies, Count, QueueInv, Unqueued, ClaimsCounted,
              Answered, SucceededMeansAnswered
<1>10. CASE HandlerRaises(w)
  BY <1>10, QuietKeepsQueue DEF HandlerRaises
<1>11. CASE CompleteJob(w)
  <2>1. /\ UNCHANGED <<request, replies, claims, reaps>>
        /\ \A v \in Workers : pc'[v] = "succeed" => pc[v] = "succeed" /\ held'[v] = held[v]
    BY <1>11 DEF CompleteJob
  <2>2. ASSUME NEW j \in Jobs
        PROVE  \/ status'[j] = status[j]
               \/ /\ status[j] = "running" /\ status'[j] = "failed"
               \/ /\ status[j] = "running" /\ status'[j] = "succeeded"
                  /\ pc[w] = "succeed" /\ j \in held[w]
    BY <1>11 DEF CompleteJob, Completes, Outcome
  <2>3. Unqueued' /\ SucceededMeansAnswered'
    BY <2>1, <2>2 DEF QueueInv, Unqueued, SucceededMeansAnswered, Answered
  <2>4. ClaimsCounted'
    BY <2>1, <2>2 DEF QueueInv, ClaimsCounted, Taken, Finished
  <2>5. Answered'
    BY <2>1 DEF QueueInv, Answered
  <2> QED  BY <2>3, <2>4, <2>5 DEF QueueInv
<1> QED
  BY <1>1, <1>2, <1>3, <1>4, <1>5, <1>6, <1>7, <1>8, <1>9, <1>10, <1>11
     DEF WorkerStep

LEMMA OutsideKeepsQueue ==
    ASSUME TypeOK, QueueInv, NEW w \in Workers,
           Crash(w) \/ Restart(w) \/ HandlerIsSlow(w)
    PROVE  QueueInv'
<1> USE DEF TypeOK, table, effects, worker, history, Goto
<1>1. CASE Crash(w)
  BY <1>1, QuietKeepsQueue DEF Crash
<1>2. CASE Restart(w)
  BY <1>2, QuietKeepsQueue DEF Restart
<1>3. CASE HandlerIsSlow(w)
  BY <1>3, QuietKeepsQueue DEF HandlerIsSlow
<1> QED  BY <1>1, <1>2, <1>3

LEMMA QueueStep == TypeOK /\ QueueInv /\ [Next]_vars => QueueInv'
<1> SUFFICES ASSUME TypeOK, QueueInv, [Next]_vars PROVE QueueInv'
  OBVIOUS
<1>1. CASE UNCHANGED vars
  BY <1>1, QuietKeepsQueue DEF vars, table, effects, worker
<1>2. CASE Next
  BY <1>2, RequestKeepsQueue, WorkerKeepsQueue, OutsideKeepsQueue DEF Next
<1> QED  BY <1>1, <1>2

\* What the proofs below rest on: claims balance requeueings, and a worker about to
\* report success has replied (claim_next_job, reap_orphaned_jobs, run_worker_once).
THEOREM QueueAlwaysHolds == Spec => []QueueInv
BY QueueTypeCorrect, QueueInit, QueueStep, PTL DEF Spec

\* A job reported as succeeded has been answered (services.handle_advisor_turn_job replies
\* before complete_job), whichever of its runs reported it.
THEOREM SuccessIsAnswered == Spec => []SucceededMeansAnswered
<1>1. QueueInv => SucceededMeansAnswered
  BY DEF QueueInv
<1> QED  BY QueueAlwaysHolds, <1>1, PTL

-----------------------------------------------------------------------------
(* Done is done                                                            *)

LEMMA WorkerKeepsDone ==
    ASSUME TypeOK, NEW w \in Workers, WorkerStep(w), NEW j \in Jobs,
           status[j] \in Finished
    PROVE  status'[j] = status[j]
<1> USE DEF TypeOK, table, Finished
<1>1. CASE ReapRead(w)
  BY <1>1 DEF ReapRead
<1>2. CASE ReapWrite(w)
  BY <1>2 DEF ReapWrite, Reapable
<1>3. CASE ClaimRead(w)
  BY <1>3 DEF ClaimRead
<1>4. CASE NothingToClaim(w)
  BY <1>4 DEF NothingToClaim
<1>5. ASSUME NEW k \in Jobs, Claim(w, k)
      PROVE  status'[j] = status[j]
  BY <1>5 DEF Claim, StillQueued
<1>6. ASSUME NEW k \in Jobs, ClaimLost(w, k)
      PROVE  status'[j] = status[j]
  BY <1>6 DEF ClaimLost
<1>7. CASE Heartbeat(w)
  BY <1>7 DEF Heartbeat
<1>8. CASE HandlerProposes(w)
  BY <1>8 DEF HandlerProposes
<1>9. CASE HandlerReplies(w)
  BY <1>9 DEF HandlerReplies
<1>10. CASE HandlerRaises(w)
  BY <1>10 DEF HandlerRaises
<1>11. CASE CompleteJob(w)
  BY <1>11 DEF CompleteJob, Completes
<1> QED
  BY <1>1, <1>2, <1>3, <1>4, <1>5, <1>6, <1>7, <1>8, <1>9, <1>10, <1>11
     DEF WorkerStep

LEMMA StepKeepsDone ==
    ASSUME TypeOK, QueueInv, [Next]_vars, NEW j \in Jobs, status[j] \in Finished
    PROVE  status'[j] = status[j]
<1>1. CASE UNCHANGED vars
  BY <1>1 DEF vars, table
<1>2. ASSUME NEW k \in Jobs, PostMessage(k) \/ EnqueueJob(k) \/ LoseRequest(k) \/ OrphanAges(k)
      PROVE  status'[j] = status[j]
  <2>1. CASE EnqueueJob(k)
    <3>1. status[k] = "absent"
      BY <2>1 DEF QueueInv, Unqueued, EnqueueJob
    <3> QED  BY <2>1, <3>1 DEF EnqueueJob, TypeOK, Finished
  <2>2. CASE PostMessage(k) \/ LoseRequest(k) \/ OrphanAges(k)
    BY <2>2 DEF PostMessage, LoseRequest, OrphanAges, table
  <2> QED  BY <1>2, <2>1, <2>2
<1>3. ASSUME NEW w \in Workers, Crash(w) \/ Restart(w) \/ HandlerIsSlow(w)
      PROVE  status'[j] = status[j]
  BY <1>3 DEF Crash, Restart, HandlerIsSlow, table
<1> QED  BY <1>1, <1>2, <1>3, WorkerKeepsDone DEF Next

\* A job that is done is never queued, run or judged again: reap_orphaned_jobs and
\* complete_job only touch rows that are still running, and a request enqueues once.
THEOREM DoneStaysDone == Spec => DoneIsDone
<1>1. TypeOK /\ QueueInv /\ [Next]_vars =>
        [\A j \in Jobs : status[j] \in Finished => status'[j] = status[j]]_vars
  BY StepKeepsDone
<1> QED  BY <1>1, QueueTypeCorrect, QueueAlwaysHolds, PTL DEF Spec, DoneIsDone

-----------------------------------------------------------------------------
(* Claims pay for proposals and replies                                    *)

\* The workers whose run of a job has still to propose, or to reply.
Owing(S, j) == {w \in Workers : pc[w] \in S /\ j \in held[w]}
BeforeProposal == {"heartbeat", "handle"}
BeforeReply == {"heartbeat", "handle", "reply"}

\* A job has at most one effect for each claim, those still to come included.
PaidFor ==
    \A j \in Jobs :
        /\ proposals[j] + Cardinality(Owing(BeforeProposal, j)) <= claims[j]
        /\ replies[j] + Cardinality(Owing(BeforeReply, j)) <= claims[j]

LEMMA OwingIsFinite ==
    ASSUME NEW S, NEW j
    PROVE  IsFiniteSet(Owing(S, j)) /\ Cardinality(Owing(S, j)) \in Nat
<1>1. Owing(S, j) \in SUBSET Workers
  BY DEF Owing
<1>2. IsFiniteSet(Owing(S, j))
  BY <1>1, FS_Subset, WorkersAreFinite
<1> QED  BY <1>2, FS_CardinalityType

LEMMA OwingIsFinitePrimed ==
    ASSUME NEW S, NEW j
    PROVE  IsFiniteSet(Owing(S, j)') /\ Cardinality(Owing(S, j)') \in Nat
<1>1. Owing(S, j)' \in SUBSET Workers
  BY DEF Owing
<1>2. IsFiniteSet(Owing(S, j)')
  BY <1>1, FS_Subset, WorkersAreFinite
<1> QED  BY <1>2, FS_CardinalityType

\* A step that lets no worker owe anything new, and counts no effect, keeps the balance.
LEMMA FewerOwe ==
    ASSUME NEW S, NEW j, \A w \in Workers :
              pc'[w] \in S /\ j \in held'[w] => pc[w] \in S /\ j \in held[w]
    PROVE  Cardinality(Owing(S, j)') <= Cardinality(Owing(S, j))
<1>1. Owing(S, j)' \in SUBSET Owing(S, j)
  BY DEF Owing
<1> QED  BY <1>1, OwingIsFinite, FS_Subset

\* A claim makes at most one worker owe more ...
LEMMA OneMoreOwes ==
    ASSUME NEW S, NEW j, NEW w \in Workers, \A v \in Workers \ {w} :
              pc'[v] \in S /\ j \in held'[v] => pc[v] \in S /\ j \in held[v]
    PROVE  Cardinality(Owing(S, j)') <= Cardinality(Owing(S, j)) + 1
<1>1. Owing(S, j)' \in SUBSET (Owing(S, j) \cup {w})
  BY DEF Owing
<1>2. /\ IsFiniteSet(Owing(S, j) \cup {w})
      /\ Cardinality(Owing(S, j) \cup {w}) <= Cardinality(Owing(S, j)) + 1
  <2>1. IsFiniteSet(Owing(S, j)) /\ Cardinality(Owing(S, j)) \in Nat
    BY OwingIsFinite
  <2>2. /\ IsFiniteSet(Owing(S, j) \cup {w})
        /\ Cardinality(Owing(S, j) \cup {w}) =
             IF w \in Owing(S, j) THEN Cardinality(Owing(S, j))
                                  ELSE Cardinality(Owing(S, j)) + 1
    BY <2>1, FS_AddElement, Zenon
  <2> QED  BY <2>1, <2>2
<1>3. Cardinality(Owing(S, j)') <= Cardinality(Owing(S, j) \cup {w})
  BY <1>1, <1>2, FS_Subset
<1>4. Cardinality(Owing(S, j) \cup {w}) \in Nat
  BY <1>2, FS_CardinalityType
<1> QED  BY <1>2, <1>3, <1>4, OwingIsFinite, OwingIsFinitePrimed

\* ... and the effect of a run is one that a worker owed.
LEMMA OnePays ==
    ASSUME NEW S, NEW j, NEW w \in Workers, w \in Owing(S, j), pc'[w] \notin S,
           \A v \in Workers \ {w} :
              pc'[v] \in S /\ j \in held'[v] => pc[v] \in S /\ j \in held[v]
    PROVE  Cardinality(Owing(S, j)') + 1 <= Cardinality(Owing(S, j))
<1>1. Owing(S, j)' \in SUBSET (Owing(S, j) \ {w})
  BY DEF Owing
<1>2. /\ IsFiniteSet(Owing(S, j) \ {w})
      /\ Cardinality(Owing(S, j) \ {w}) = Cardinality(Owing(S, j)) - 1
  BY OwingIsFinite, FS_RemoveElement
<1>3. Cardinality(Owing(S, j)') <= Cardinality(Owing(S, j) \ {w})
  BY <1>1, <1>2, FS_Subset
<1> QED  BY <1>2, <1>3, OwingIsFinite, OwingIsFinitePrimed

LEMMA QuietKeepsPaid ==
    ASSUME TypeOK, PaidFor, UNCHANGED <<proposals, replies, claims>>,
           \A w \in Workers, j \in Jobs : j \in held'[w] =>
              /\ pc'[w] \in BeforeProposal => pc[w] \in BeforeProposal /\ j \in held[w]
              /\ pc'[w] \in BeforeReply => pc[w] \in BeforeReply /\ j \in held[w]
    PROVE  PaidFor'
<1> SUFFICES ASSUME NEW j \in Jobs
             PROVE  /\ proposals'[j] + Cardinality(Owing(BeforeProposal, j)') <= claims'[j]
                    /\ replies'[j] + Cardinality(Owing(BeforeReply, j)') <= claims'[j]
  BY DEF PaidFor, BeforeProposal, BeforeReply, Owing
<1>1. Cardinality(Owing(BeforeProposal, j)') <= Cardinality(Owing(BeforeProposal, j))
  BY FewerOwe
<1>2. Cardinality(Owing(BeforeReply, j)') <= Cardinality(Owing(BeforeReply, j))
  BY FewerOwe
<1>3. /\ proposals[j] + Cardinality(Owing(BeforeProposal, j)) <= claims[j]
      /\ replies[j] + Cardinality(Owing(BeforeReply, j)) <= claims[j]
  BY DEF PaidFor
<1>4. proposals[j] \in Nat /\ replies[j] \in Nat /\ claims[j] \in Nat
  BY DEF TypeOK
<1> QED  BY <1>1, <1>2, <1>3, <1>4, OwingIsFinite, OwingIsFinitePrimed

LEMMA ClaimKeepsPaid ==
    ASSUME TypeOK, PaidFor, NEW w \in Workers, NEW k \in Jobs, Claim(w, k)
    PROVE  PaidFor'
<1>1. /\ UNCHANGED <<proposals, replies>>
      /\ \A v \in Workers \ {w} : pc'[v] = pc[v] /\ held'[v] = held[v]
      /\ held'[w] = {k}
      /\ claims' = [claims EXCEPT ![k] = @ + 1]
  BY DEF Claim, Goto, TypeOK, effects
<1> SUFFICES ASSUME NEW j \in Jobs
             PROVE  /\ proposals'[j] + Cardinality(Owing(BeforeProposal, j)') <= claims'[j]
                    /\ replies'[j] + Cardinality(Owing(BeforeReply, j)') <= claims'[j]
  BY DEF PaidFor, BeforeProposal, BeforeReply, Owing
<1>2. /\ proposals[j] + Cardinality(Owing(BeforeProposal, j)) <= claims[j]
      /\ replies[j] + Cardinality(Owing(BeforeReply, j)) <= claims[j]
  BY DEF PaidFor
<1>3. proposals[j] \in Nat /\ replies[j] \in Nat /\ claims[j] \in Nat
  BY DEF TypeOK
<1>4. CASE j = k
  <2>1. claims'[j] = claims[j] + 1
    BY <1>1, <1>4 DEF TypeOK
  <2>2. Cardinality(Owing(BeforeProposal, j)') <= Cardinality(Owing(BeforeProposal, j)) + 1
    BY <1>1, OneMoreOwes
  <2>3. Cardinality(Owing(BeforeReply, j)') <= Cardinality(Owing(BeforeReply, j)) + 1
    BY <1>1, OneMoreOwes
  <2> QED  BY <1>1, <1>2, <1>3, <2>1, <2>2, <2>3, OwingIsFinite, OwingIsFinitePrimed
<1>5. CASE j # k
  <2>1. claims'[j] = claims[j]
    BY <1>1, <1>5 DEF TypeOK
  <2>2. \A v \in Workers : j \in held'[v] => pc'[v] = pc[v] /\ held'[v] = held[v]
    BY <1>1, <1>5
  <2>3. Cardinality(Owing(BeforeProposal, j)') <= Cardinality(Owing(BeforeProposal, j))
    BY <2>2, FewerOwe
  <2>4. Cardinality(Owing(BeforeReply, j)') <= Cardinality(Owing(BeforeReply, j))
    BY <2>2, FewerOwe
  <2> QED  BY <1>1, <1>2, <1>3, <2>1, <2>3, <2>4, OwingIsFinite, OwingIsFinitePrimed
<1> QED  BY <1>4, <1>5

\* The handler's next effect f, of a worker at the last label of S.
LEMMA EffectKeepsBalance ==
    ASSUME TypeOK, NEW f \in [Jobs -> Nat], NEW S, NEW w \in Workers, NEW j \in Jobs,
           pc[w] \in S, pc'[w] \notin S, held' = held,
           \A v \in Workers \ {w} : pc'[v] = pc[v],
           f[j] + Cardinality(Owing(S, j)) <= claims[j]
    PROVE  Count(f, w)[j] + Cardinality(Owing(S, j)') <= claims[j]
<1>1. claims[j] \in Nat /\ f[j] \in Nat
  BY DEF TypeOK
<1>2. CASE j \in held[w]
  <2>1. Cardinality(Owing(S, j)') + 1 <= Cardinality(Owing(S, j))
    <3>1. w \in Owing(S, j)
      BY <1>2 DEF Owing
    <3> QED  BY <3>1, OnePays
  <2>2. Count(f, w)[j] = f[j] + 1
    BY <1>2 DEF Count
  <2> QED  BY <1>1, <2>1, <2>2, OwingIsFinite, OwingIsFinitePrimed
<1>3. CASE j \notin held[w]
  <2>1. Cardinality(Owing(S, j)') <= Cardinality(Owing(S, j))
    BY <1>3, FewerOwe
  <2>2. Count(f, w)[j] = f[j]
    BY <1>3 DEF Count
  <2> QED  BY <1>1, <2>1, <2>2, OwingIsFinite, OwingIsFinitePrimed
<1> QED  BY <1>2, <1>3

LEMMA WorkerKeepsPaid ==
    ASSUME TypeOK, PaidFor, NEW w \in Workers, WorkerStep(w)
    PROVE  PaidFor'
<1> USE DEF TypeOK, effects, history, Goto
<1>1. CASE ReapRead(w)
  BY <1>1, QuietKeepsPaid DEF ReapRead, BeforeProposal, BeforeReply
<1>2. CASE ReapWrite(w)
  BY <1>2, QuietKeepsPaid DEF ReapWrite, BeforeProposal, BeforeReply
<1>3. CASE ClaimRead(w)
  BY <1>3, QuietKeepsPaid DEF ClaimRead, BeforeProposal, BeforeReply
<1>4. CASE NothingToClaim(w)
  BY <1>4, QuietKeepsPaid DEF NothingToClaim, BeforeProposal, BeforeReply
<1>5. ASSUME NEW j \in Jobs, Claim(w, j)
      PROVE  PaidFor'
  BY <1>5, ClaimKeepsPaid
<1>6. ASSUME NEW j \in Jobs, ClaimLost(w, j)
      PROVE  PaidFor'
  BY <1>6, QuietKeepsPaid DEF ClaimLost
<1>7. CASE Heartbeat(w)
  BY <1>7, QuietKeepsPaid DEF Heartbeat, BeforeProposal, BeforeReply
<1>8. CASE HandlerProposes(w)
  <2>1. /\ proposals' = Count(proposals, w) \/ proposals' = proposals
        /\ pc[w] = "handle" /\ pc' = [pc EXCEPT ![w] = "reply"]
        /\ UNCHANGED <<replies, held, claims>>
    BY <1>8 DEF HandlerProposes
  <2>2. CASE proposals' = proposals
    BY <2>1, <2>2, QuietKeepsPaid DEF BeforeProposal, BeforeReply
  <2>3. CASE proposals' = Count(proposals, w)
    <3> SUFFICES ASSUME NEW j \in Jobs
                 PROVE  /\ proposals'[j] + Cardinality(Owing(BeforeProposal, j)') <= claims'[j]
                        /\ replies'[j] + Cardinality(Owing(BeforeReply, j)') <= claims'[j]
      BY DEF PaidFor, BeforeProposal, BeforeReply, Owing
    <3>1. Count(proposals, w)[j] + Cardinality(Owing(BeforeProposal, j)') <= claims[j]
      <4>1. /\ pc[w] \in BeforeProposal /\ pc'[w] \notin BeforeProposal
            /\ \A v \in Workers \ {w} : pc'[v] = pc[v]
        BY <2>1 DEF BeforeProposal
      <4>2. proposals[j] + Cardinality(Owing(BeforeProposal, j)) <= claims[j]
        BY DEF PaidFor
      <4> QED  BY <2>1, <4>1, <4>2, EffectKeepsBalance
    <3>2. Cardinality(Owing(BeforeReply, j)') <= Cardinality(Owing(BeforeReply, j))
      <4>1. \A v \in Workers : pc'[v] \in BeforeReply => pc[v] \in BeforeReply
        BY <2>1 DEF BeforeReply
      <4> QED  BY <2>1, <4>1, FewerOwe
    <3>3. replies[j] + Cardinality(Owing(BeforeReply, j)) <= claims[j]
      BY DEF PaidFor
    <3>4. replies[j] \in Nat /\ claims[j] \in Nat
      OBVIOUS
    <3> QED  BY <2>1, <2>3, <3>1, <3>2, <3>3, <3>4, OwingIsFinite, OwingIsFinitePrimed
  <2> QED  BY <2>1, <2>2, <2>3
<1>9. CASE HandlerReplies(w)
  <2>1. /\ replies' = Count(replies, w)
        /\ pc[w] = "reply" /\ pc' = [pc EXCEPT ![w] = "succeed"]
        /\ UNCHANGED <<proposals, held, claims>>
    BY <1>9 DEF HandlerReplies
  <2> SUFFICES ASSUME NEW j \in Jobs
               PROVE  /\ proposals'[j] + Cardinality(Owing(BeforeProposal, j)') <= claims'[j]
                      /\ replies'[j] + Cardinality(Owing(BeforeReply, j)') <= claims'[j]
    BY DEF PaidFor, BeforeProposal, BeforeReply, Owing
  <2>2. Count(replies, w)[j] + Cardinality(Owing(BeforeReply, j)') <= claims[j]
    <3>1. /\ pc[w] \in BeforeReply /\ pc'[w] \notin BeforeReply
          /\ \A v \in Workers \ {w} : pc'[v] = pc[v]
      BY <2>1 DEF BeforeReply
    <3>2. replies[j] + Cardinality(Owing(BeforeReply, j)) <= claims[j]
      BY DEF PaidFor
    <3> QED  BY <2>1, <3>1, <3>2, EffectKeepsBalance
  <2>3. Cardinality(Owing(BeforeProposal, j)') <= Cardinality(Owing(BeforeProposal, j))
    <3>1. \A v \in Workers : pc'[v] \in BeforeProposal => pc[v] \in BeforeProposal
      BY <2>1 DEF BeforeProposal
    <3> QED  BY <2>1, <3>1, FewerOwe
  <2>4. proposals[j] + Cardinality(Owing(BeforeProposal, j)) <= claims[j]
    BY DEF PaidFor
  <2>5. proposals[j] \in Nat /\ claims[j] \in Nat
    OBVIOUS
  <2> QED  BY <2>1, <2>2, <2>3, <2>4, <2>5, OwingIsFinite, OwingIsFinitePrimed
<1>10. CASE HandlerRaises(w)
  BY <1>10, QuietKeepsPaid DEF HandlerRaises, BeforeProposal, BeforeReply
<1>11. CASE CompleteJob(w)
  BY <1>11, QuietKeepsPaid DEF CompleteJob, BeforeProposal, BeforeReply
<1> QED
  BY <1>1, <1>2, <1>3, <1>4, <1>5, <1>6, <1>7, <1>8, <1>9, <1>10, <1>11
     DEF WorkerStep

LEMMA PaidInit == Init => PaidFor
<1> SUFFICES ASSUME Init, NEW j \in Jobs
             PROVE  /\ proposals[j] + Cardinality(Owing(BeforeProposal, j)) <= claims[j]
                    /\ replies[j] + Cardinality(Owing(BeforeReply, j)) <= claims[j]
  BY DEF PaidFor
<1>1. Owing(BeforeProposal, j) = {} /\ Owing(BeforeReply, j) = {}
  BY DEF Init, Owing, BeforeProposal, BeforeReply
<1> QED  BY <1>1, FS_EmptySet DEF Init

LEMMA PaidStep == TypeOK /\ PaidFor /\ [Next]_vars => PaidFor'
<1> SUFFICES ASSUME TypeOK, PaidFor, [Next]_vars PROVE PaidFor'
  OBVIOUS
<1>1. CASE UNCHANGED vars
  BY <1>1, QuietKeepsPaid DEF vars, effects, worker, history
<1>2. ASSUME NEW j \in Jobs, PostMessage(j) \/ EnqueueJob(j) \/ LoseRequest(j) \/ OrphanAges(j)
      PROVE  PaidFor'
  BY <1>2, QuietKeepsPaid
     DEF PostMessage, EnqueueJob, LoseRequest, OrphanAges, effects, worker, history
<1>3. ASSUME NEW w \in Workers, Crash(w)
      PROVE  PaidFor'
  BY <1>3, QuietKeepsPaid
     DEF Crash, Goto, TypeOK, effects, history, BeforeProposal, BeforeReply
<1>4. ASSUME NEW w \in Workers, Restart(w)
      PROVE  PaidFor'
  BY <1>4, QuietKeepsPaid
     DEF Restart, Goto, TypeOK, effects, history, BeforeProposal, BeforeReply
<1>5. ASSUME NEW w \in Workers, HandlerIsSlow(w)
      PROVE  PaidFor'
  BY <1>5, QuietKeepsPaid DEF HandlerIsSlow, effects, worker, history
<1> QED  BY <1>1, <1>2, <1>3, <1>4, <1>5, WorkerKeepsPaid DEF Next

\* Every proposal and reply, made or still to be made by a worker that holds the job,
\* has a claim of its own: a handler proposes and replies once for each claim.
THEOREM EffectsArePaidFor == Spec => []PaidFor
BY QueueTypeCorrect, PaidInit, PaidStep, PTL DEF Spec

\* A job is claimed once for each time it was queued, whatever workers read the queue
\* together (claim_next_job's guarded UPDATE), and its runs leave no more proposals and
\* no more replies than it had claims.
THEOREM ClaimsAreExclusive == Spec => []ClaimedOncePerQueueing
<1>1. TypeOK /\ QueueInv /\ PaidFor => ClaimedOncePerQueueing
  <2> SUFFICES ASSUME TypeOK, QueueInv, PaidFor, NEW j \in Jobs
               PROVE  /\ claims[j] = reaps[j] + Taken(status[j])
                      /\ proposals[j] <= claims[j] /\ replies[j] <= claims[j]
    BY DEF ClaimedOncePerQueueing, Taken
  <2>1. claims[j] = reaps[j] + Taken(status[j])
    BY DEF QueueInv, ClaimsCounted
  <2>2. /\ proposals[j] + Cardinality(Owing(BeforeProposal, j)) <= claims[j]
        /\ replies[j] + Cardinality(Owing(BeforeReply, j)) <= claims[j]
    BY DEF PaidFor
  <2>3. proposals[j] \in Nat /\ replies[j] \in Nat /\ claims[j] \in Nat
    BY DEF TypeOK
  <2> QED  BY <2>1, <2>2, <2>3, OwingIsFinite
<1> QED  BY <1>1, QueueTypeCorrect, QueueAlwaysHolds, EffectsArePaidFor, PTL
=============================================================================
