---------------------------- MODULE TreeApproval ----------------------------
(***************************************************************************)
(* Tree revisions and the proposals that change them: the tables           *)
(* tree_revisions, tree_heads, change_proposals, proposal_approvals and    *)
(* outbox_events of the shared SQLite file, and the calls that read and    *)
(* write them: repository.create_tree and save_revision,                   *)
(* services.create_proposal and reject_proposal,                           *)
(* proposal_repository.transition and approval_service.apply_proposal.     *)
(*                                                                         *)
(* A client is one call in flight: a request thread of the server, the     *)
(* advisor worker, or a library caller in another process.  Every SELECT   *)
(* that runs outside a write transaction is a step of its own, so another  *)
(* client may commit between two of them.  The statements from a           *)
(* transaction's first write to its commit run under SQLite's write lock   *)
(* and are one step.  A crash, or an exception on the way (a lock timeout, *)
(* an invalid tree), loses what the client holds in memory and nothing     *)
(* that it committed.                                                      *)
(*                                                                         *)
(* A client may have several roles.                                        *)
(*                                                                         *)
(* Ids (uuid4) are values not yet used.  A configuration is abstracted to  *)
(* the revision that last wrote each node; a market data snapshot to the   *)
(* version of the data it was computed from.                               *)
(*                                                                         *)
(* GuardIgnoresPin, TransitionUnguarded, DataUnchecked, ExpireBlindly,     *)
(* ExpireMistyped, HeadNotCompared, KeyNotUnique, StatusNotRechecked and   *)
(* AnswerBeforeCommit are no part of the model: each is the bug that the   *)
(* definition after it excludes, for trying the properties against.        *)
(***************************************************************************)
EXTENDS Naturals

CONSTANTS
    Trees, Nodes, Revisions, Proposals, Keys,
    Editors,    \* clients that call save_revision
    Producers,  \* clients that call create_proposal
    Reviewers,  \* clients that call apply_proposal and reject_proposal
    MaxData,    \* bound: how often the market data changes
    Outages,    \* whether reading the market data hub's coverage may fail
    None,       \* SQL's NULL and Python's None
    Unavailable \* the fingerprint of data whose coverage cannot be read

ASSUME NoneIsNoValue ==
    None \notin Trees \cup Nodes \cup Revisions \cup Proposals \cup Keys
ASSUME MaxDataIsNat == MaxData \in Nat
ASSUME OutagesIsBoolean == Outages \in BOOLEAN
ASSUME UnavailableIsNoVersion == Unavailable \notin Nat

VARIABLES
    treeOf,     \* tree_revisions.tree_id by revision; None: no such row
    parent,     \* tree_revisions.parent_revision_id
    config,     \* tree_revisions.config_json: node -> the revision that wrote it
    head,       \* tree_heads.head_revision_id by tree; None: no such tree
    status,     \* change_proposals.status; "absent": no such row
    payload,    \* change_proposals.payload_json, written once
    approval,   \* proposal_approvals: key and applied revision by proposal
    outbox,     \* outbox_events
    data,       \* the version of the market data hub's data
    past,       \* the proposals whose expires_at has gone by
    pc, op,     \* by client: the next step of its call, what the call holds
    answer      \* by client: how its last approval ended

Clients == Editors \cup Producers \cup Reviewers

trees     == <<treeOf, parent, config, head>>
proposals == <<status, payload>>
approvals == <<approval, outbox>>
world     == <<data, past>>
client    == <<pc, op, answer>>
vars      == <<trees, proposals, approvals, world, client>>

-----------------------------------------------------------------------------
LegalTransitions ==
    [s \in {"drafting", "failed", "pending_approval", "rejected", "expired",
            "superseded", "applying", "apply_failed", "applied",
            "confirmation_pending", "confirmed", "confirmation_failed"} |->
        CASE s = "drafting"             -> {"failed", "pending_approval"}
          [] s = "pending_approval"     -> {"rejected", "expired", "superseded", "applying"}
          [] s = "applying"             -> {"apply_failed", "applied"}
          [] s = "applied"              -> {"confirmation_pending"}
          [] s = "confirmation_pending" -> {"confirmed", "confirmation_failed"}
          [] OTHER                      -> {}]

Statuses == DOMAIN LegalTransitions

Legal(from, to) == from \in Statuses /\ to \in LegalTransitions[from]

Fingerprints == 0..MaxData \cup {Unavailable}

Configs  == [Nodes -> Revisions \cup {None}]
Payloads == [tree : Trees \cup {None}, base : Revisions \cup {None},
             node : Nodes \cup {None}, dataset : 0..MaxData,
             fingerprint : Fingerprints]
Approvals == [key : Keys \cup {None}, revision : Revisions \cup {None}]
Events    == [proposal : Proposals, revision : Revisions]

Labels == {"idle",
           "lookup", "read", "expiry", "head", "data", "expire", "commit",
           "reject_read", "reject_write",
           "load", "draft", "submit",
           "save_read", "save_write"}
Codes  == {"none", "applied", "replayed", "not_pending", "hash_mismatch",
           "expired", "stale_revision", "stale_data", "duplicate"}

\* What a call in flight holds.  since and late record what held when the call
\* began; no step reads them.
Ops == [proposal : Proposals \cup {None}, key : Keys \cup {None},
        card : Proposals \cup {None}, from : Statuses \cup {"absent"},
        tree : Trees \cup {None}, node : Nodes \cup {None},
        view : Revisions \cup {None}, seen : Revisions \cup {None},
        pinned : BOOLEAN, dataset : 0..MaxData, reason : Codes,
        since : 0..MaxData, late : BOOLEAN]

Blank == [proposal |-> None, key |-> None, card |-> None, from |-> "absent",
          tree |-> None, node |-> None, view |-> None, seen |-> None,
          pinned |-> FALSE, dataset |-> 0, reason |-> "none",
          since |-> 0, late |-> FALSE]

Answers  == [code : Codes, proposal : Proposals \cup {None},
             key : Keys \cup {None}, revision : Revisions \cup {None}]
NoAnswer == [code |-> "none", proposal |-> None, key |-> None, revision |-> None]

Init ==
    /\ treeOf = [r \in Revisions |-> None]
    /\ parent = [r \in Revisions |-> None]
    /\ config = [r \in Revisions |-> [n \in Nodes |-> None]]
    /\ head = [t \in Trees |-> None]
    /\ status = [p \in Proposals |-> "absent"]
    /\ payload = [p \in Proposals |-> [tree |-> None, base |-> None, node |-> None,
                                       dataset |-> 0, fingerprint |-> 0]]
    /\ approval = [p \in Proposals |-> [key |-> None, revision |-> None]]
    /\ outbox = {}
    /\ data = 0
    /\ past = {}
    /\ pc = [c \in Clients |-> "idle"]
    /\ op = [c \in Clients |-> Blank]
    /\ answer = [c \in Clients |-> NoAnswer]

-----------------------------------------------------------------------------
Committed == {r \in Revisions : treeOf[r] # None}

\* A call starts, takes a step, or ends.
Begin(c, l, o) ==
    /\ pc[c] = "idle"
    /\ pc' = [pc EXCEPT ![c] = l]
    /\ op' = [op EXCEPT ![c] = o]
    /\ answer' = [answer EXCEPT ![c] = NoAnswer]

Step(c, l, o) ==
    /\ pc' = [pc EXCEPT ![c] = l]
    /\ op' = [op EXCEPT ![c] = o]
    /\ UNCHANGED answer

End(c, a) ==
    /\ pc' = [pc EXCEPT ![c] = "idle"]
    /\ op' = [op EXCEPT ![c] = Blank]
    /\ answer' = [answer EXCEPT ![c] = a]

Refused(c, code) ==
    [code |-> code, proposal |-> op[c].proposal, key |-> op[c].key, revision |-> None]

\* INSERT INTO tree_revisions and the head's UPDATE, in one transaction.
AppendRevision(t, r, onto, cfg) ==
    /\ r \notin Committed
    /\ treeOf' = [treeOf EXCEPT ![r] = t]
    /\ parent' = [parent EXCEPT ![r] = onto]
    /\ config' = [config EXCEPT ![r] = cfg]
    /\ head' = [head EXCEPT ![t] = r]

Edit(base, n, r) == [config[base] EXCEPT ![n] = r]

-----------------------------------------------------------------------------
(* repository.py                                                           *)

CreateTree(t, r) ==
    /\ head[t] = None
    /\ AppendRevision(t, r, None, [n \in Nodes |-> r])
    /\ UNCHANGED <<proposals, approvals, world, client>>

\* The caller edits a node of the head it has on screen, then calls
\* save_revision, with expected_head (pinned) or without.
BeginSave(c, t, n, pinned) ==
    /\ head[t] # None
    /\ Begin(c, "save_read", [Blank EXCEPT !.tree = t, !.node = n,
                                           !.view = head[t], !.pinned = pinned])
    /\ UNCHANGED <<trees, proposals, approvals, world>>

SaveRead(c) ==
    /\ pc[c] = "save_read"
    /\ Step(c, "save_write", [op[c] EXCEPT !.seen = head[op[c].tree]])
    /\ UNCHANGED <<trees, proposals, approvals, world>>

GuardIgnoresPin(c) == op[c].seen
GuardHead(c) == IF op[c].pinned THEN op[c].view ELSE op[c].seen

SaveRevision(c, r) ==
    /\ pc[c] = "save_write"
    /\ head[op[c].tree] = GuardHead(c)
    /\ AppendRevision(op[c].tree, r, op[c].seen, Edit(op[c].view, op[c].node, r))
    /\ End(c, NoAnswer)
    /\ UNCHANGED <<proposals, approvals, world>>

SaveConflict(c) ==
    /\ pc[c] = "save_write"
    /\ head[op[c].tree] # GuardHead(c)
    /\ End(c, NoAnswer)
    /\ UNCHANGED <<trees, proposals, approvals, world>>

-----------------------------------------------------------------------------
(* services.create_proposal                                                *)

BeginProposal(c, t, n) ==
    /\ head[t] # None
    /\ Begin(c, "load", [Blank EXCEPT !.tree = t, !.node = n, !.seen = head[t]])
    /\ UNCHANGED <<trees, proposals, approvals, world>>

LoadDataset(c) ==
    /\ pc[c] = "load"
    /\ Step(c, "draft", [op[c] EXCEPT !.dataset = data])
    /\ UNCHANGED <<trees, proposals, approvals, world>>

\* snapshot._coverage_fingerprint: the hub's coverage rows tell its version; a hub
\* that cannot be read gives a sentinel, the same at every time.
Coverage == {data} \cup (IF Outages THEN {Unavailable} ELSE {})

CreateDraft(c, p) ==
    /\ pc[c] = "draft"
    /\ status[p] = "absent"
    /\ status' = [status EXCEPT ![p] = "drafting"]
    /\ \E seen \in Coverage :
         payload' = [payload EXCEPT ![p] =
                       [tree |-> op[c].tree, base |-> op[c].seen, node |-> op[c].node,
                        dataset |-> op[c].dataset, fingerprint |-> seen]]
    /\ Step(c, "submit", [op[c] EXCEPT !.proposal = p, !.from = "drafting"])
    /\ UNCHANGED <<trees, approvals, world>>

\* proposal_repository.transition: the diagram's check, then the guarded UPDATE.
TransitionUnguarded(c, to) == Legal(op[c].from, to)
TransitionWins(c, to) ==
    Legal(op[c].from, to) /\ status[op[c].proposal] = op[c].from

Transition(c, to) ==
    /\ status' = IF TransitionWins(c, to)
                 THEN [status EXCEPT ![op[c].proposal] = to]
                 ELSE status
    /\ End(c, NoAnswer)
    /\ UNCHANGED <<trees, payload, approvals, world>>

SubmitProposal(c) == pc[c] = "submit" /\ Transition(c, "pending_approval")

-----------------------------------------------------------------------------
(* services.reject_proposal                                                *)

BeginReject(c, p) ==
    /\ status[p] # "absent"
    /\ Begin(c, "reject_read", [Blank EXCEPT !.proposal = p])
    /\ UNCHANGED <<trees, proposals, approvals, world>>

ReadForReject(c) ==
    /\ pc[c] = "reject_read"
    /\ Step(c, "reject_write", [op[c] EXCEPT !.from = status[op[c].proposal]])
    /\ UNCHANGED <<trees, proposals, approvals, world>>

RejectProposal(c) == pc[c] = "reject_write" /\ Transition(c, "rejected")

-----------------------------------------------------------------------------
(* approval_service.apply_proposal.  card is the proposal whose hash the   *)
(* caller's screen showed.                                                 *)

BeginApprove(c, p, k, card) ==
    /\ status[p] # "absent" /\ status[card] # "absent"
    /\ Begin(c, "lookup", [Blank EXCEPT !.proposal = p, !.key = k, !.card = card,
                                        !.since = data, !.late = (p \in past)])
    /\ UNCHANGED <<trees, proposals, approvals, world>>

LookupKey(c) ==
    /\ pc[c] = "lookup"
    /\ \/ \E q \in Proposals :
            /\ approval[q].key = op[c].key
            /\ End(c, [code |-> "replayed", proposal |-> q, key |-> op[c].key,
                       revision |-> approval[q].revision])
       \/ /\ \A q \in Proposals : approval[q].key # op[c].key
          /\ Step(c, "read", op[c])
    /\ UNCHANGED <<trees, proposals, approvals, world>>

ReadProposal(c) ==
    /\ pc[c] = "read"
    /\ \/ status[op[c].proposal] # "pending_approval" /\ End(c, Refused(c, "not_pending"))
       \/ /\ status[op[c].proposal] = "pending_approval"
          /\ \/ op[c].card # op[c].proposal /\ End(c, Refused(c, "hash_mismatch"))
             \/ op[c].card = op[c].proposal /\ Step(c, "expiry", op[c])
    /\ UNCHANGED <<trees, proposals, approvals, world>>

\* A check that fails sends the call to _expire with the error it will raise.
Check(c, ok, next, code) ==
    /\ \/ ok /\ Step(c, next, op[c])
       \/ ~ok /\ Step(c, "expire", [op[c] EXCEPT !.reason = code])
    /\ UNCHANGED <<trees, proposals, approvals, world>>

CheckExpiry(c) ==
    /\ pc[c] = "expiry"
    /\ Check(c, op[c].proposal \notin past, "head", "expired")

CheckHead(c) ==
    /\ pc[c] = "head"
    /\ LET target == payload[op[c].proposal]
       IN  Check(c, head[target.tree] = target.base, "data", "stale_revision")

DataUnchecked(c, seen) == TRUE
DataUnchanged(c, seen) == payload[op[c].proposal].fingerprint = seen

CheckData(c) ==
    /\ pc[c] = "data"
    /\ \E seen \in Coverage : Check(c, DataUnchanged(c, seen), "commit", "stale_data")

\* UPDATE change_proposals SET status = s WHERE ... AND status = 'pending_approval'
UpdateIfPending(p, s) ==
    IF status[p] = "pending_approval" THEN [status EXCEPT ![p] = s] ELSE status

ExpireMistyped(c) == [status EXCEPT ![op[c].proposal] = op[c].reason]
ExpireBlindly(c) == [status EXCEPT ![op[c].proposal] = "expired"]
ExpireIfPending(c) == UpdateIfPending(op[c].proposal, "expired")

Expire(c) ==
    /\ pc[c] = "expire"
    /\ status' = ExpireIfPending(c)
    /\ End(c, Refused(c, op[c].reason))
    /\ UNCHANGED <<trees, payload, approvals, world>>

-----------------------------------------------------------------------------
(* Steps 7 to 11 of apply_proposal, one write transaction.  current_head   *)
(* of the code is the base revision: step 4 found the two equal.           *)

HeadNotCompared(c) == TRUE
HeadUnmoved(c) ==
    LET target == payload[op[c].proposal] IN head[target.tree] = target.base

KeyNotUnique(c) == approval[op[c].proposal].key = None
RowIsUnique(c) ==
    /\ approval[op[c].proposal].key = None
    /\ \A q \in Proposals : approval[q].key # op[c].key

StatusNotRechecked(c) == TRUE
StillPending(c) == status[op[c].proposal] = "pending_approval"

CommitApply(c, r) ==
    LET p == op[c].proposal
        target == payload[p]
    IN  /\ pc[c] = "commit"
        /\ HeadUnmoved(c) /\ RowIsUnique(c) /\ StillPending(c)
        /\ AppendRevision(target.tree, r, target.base, Edit(target.base, target.node, r))
        /\ approval' = [approval EXCEPT ![p] = [key |-> op[c].key, revision |-> r]]
        /\ status' = UpdateIfPending(p, "applied")
        /\ outbox' = outbox \cup {[proposal |-> p, revision |-> r]}
        /\ End(c, [code |-> "applied", proposal |-> p, key |-> op[c].key, revision |-> r])
        /\ UNCHANGED <<payload, world>>

\* The transaction is rolled back; the error names the first guard that failed.
AnswerBeforeCommit(c) ==
    [code |-> "applied", proposal |-> op[c].proposal, key |-> op[c].key, revision |-> None]
RollbackAnswer(c) ==
    Refused(c, IF ~HeadUnmoved(c) THEN "stale_revision"
               ELSE IF ~RowIsUnique(c) THEN "duplicate" ELSE "not_pending")

Rollback(c) ==
    /\ pc[c] = "commit"
    /\ ~(HeadUnmoved(c) /\ RowIsUnique(c) /\ StillPending(c))
    /\ End(c, RollbackAnswer(c))
    /\ UNCHANGED <<trees, proposals, approvals, world>>

-----------------------------------------------------------------------------
\* A process dies, or a call raises before it commits.
Crash(c) ==
    /\ pc[c] # "idle"
    /\ End(c, NoAnswer)
    /\ UNCHANGED <<trees, proposals, approvals, world>>

DataChanges ==
    /\ data < MaxData
    /\ data' = data + 1
    /\ UNCHANGED <<trees, proposals, approvals, past, client>>

TimeRunsOut(p) ==
    /\ status[p] # "absent" /\ p \notin past
    /\ past' = past \cup {p}
    /\ UNCHANGED <<trees, proposals, approvals, data, client>>

Edits(c) ==
    \/ \E t \in Trees, n \in Nodes, pinned \in BOOLEAN : BeginSave(c, t, n, pinned)
    \/ SaveRead(c)
    \/ \E r \in Revisions : SaveRevision(c, r)
    \/ SaveConflict(c)

Produces(c) ==
    \/ \E t \in Trees, n \in Nodes : BeginProposal(c, t, n)
    \/ LoadDataset(c)
    \/ \E p \in Proposals : CreateDraft(c, p)
    \/ SubmitProposal(c)

Reviews(c) ==
    \/ \E p \in Proposals : BeginReject(c, p)
    \/ ReadForReject(c)
    \/ RejectProposal(c)
    \/ \E p, card \in Proposals, k \in Keys : BeginApprove(c, p, k, card)
    \/ LookupKey(c) \/ ReadProposal(c)
    \/ CheckExpiry(c) \/ CheckHead(c) \/ CheckData(c) \/ Expire(c)
    \/ \E r \in Revisions : CommitApply(c, r)
    \/ Rollback(c)

Next ==
    \/ \E c \in Editors : Edits(c)
    \/ \E c \in Producers : Produces(c)
    \/ \E c \in Reviewers : Reviews(c)
    \/ \E c \in Clients : Crash(c)
    \/ \E t \in Trees, r \in Revisions : CreateTree(t, r)
    \/ DataChanges
    \/ \E p \in Proposals : TimeRunsOut(p)

Spec == Init /\ [][Next]_vars

-----------------------------------------------------------------------------
(* Properties                                                              *)

\* Every variable has the type its column or Python value has.
TypeOK ==
    /\ treeOf \in [Revisions -> Trees \cup {None}]
    /\ parent \in [Revisions -> Revisions \cup {None}]
    /\ config \in [Revisions -> Configs]
    /\ head \in [Trees -> Revisions \cup {None}]
    /\ status \in [Proposals -> Statuses \cup {"absent"}]
    /\ payload \in [Proposals -> Payloads]
    /\ approval \in [Proposals -> Approvals]
    /\ outbox \subseteq Events
    /\ data \in 0..MaxData
    /\ past \subseteq Proposals
    /\ pc \in [Clients -> Labels]
    /\ op \in [Clients -> Ops]
    /\ answer \in [Clients -> Answers]

\* The history of a tree never forks, whoever writes it: a revision's parent is
\* of the same tree, no two revisions share a parent, a tree has one root, and
\* the head is the only revision nothing was built on.  (Both writers insert
\* with a parent they read earlier and rely on the head's compare-and-swap.)
HeadsAreCommitted ==
    \A t \in Trees : head[t] # None => treeOf[head[t]] = t
ParentsAreCommitted ==
    \A r \in Revisions : parent[r] # None =>
        treeOf[r] # None /\ treeOf[parent[r]] = treeOf[r]
NoFork ==
    \A r, s \in Committed :
        treeOf[r] = treeOf[s] /\ parent[r] = parent[s] => r = s
HeadIsTheOnlyLeaf ==
    \A r \in Committed :
        (r = head[treeOf[r]]) <=> (\A s \in Revisions : parent[s] # r)
LinearHistory ==
    /\ HeadsAreCommitted
    /\ ParentsAreCommitted
    /\ NoFork
    /\ HeadIsTheOnlyLeaf

\* The five tables agree about what was applied: a proposal is applied exactly
\* when it has an approval row, exactly then one event tells of it, and its
\* revision extends the revision it was drafted on, in that tree, and differs
\* from it at the proposal's node only.  So a proposal rejected or expired while
\* its approval was under way has changed nothing.
AppliedAsDrafted(p) ==
    LET r == approval[p].revision
    IN  /\ r \in Committed
        /\ treeOf[r] = payload[p].tree
        /\ parent[r] = payload[p].base
        /\ config[r] = Edit(payload[p].base, payload[p].node, r)
        /\ [proposal |-> p, revision |-> r] \in outbox
AuditTrailAgrees ==
    /\ \A p \in Proposals :
         /\ status[p] = "applied" <=> approval[p].key # None
         /\ status[p] = "applied" => AppliedAsDrafted(p)
    /\ \A e \in outbox : approval[e.proposal].revision = e.revision

\* An idempotency key buys one approval, however many calls carry it at once and
\* for however many proposals (the UNIQUE column of proposal_approvals).
KeyBuysOneApproval ==
    \A p, q \in Proposals :
        approval[p].key # None /\ approval[p].key = approval[q].key => p = q

\* A call that answered with a result, its own or one replayed for its key, told
\* the truth for good: the approval row and the revision it named are there.
SuccessIsDurable ==
    \A c \in Clients : answer[c].code \in {"applied", "replayed"} =>
        /\ status[answer[c].proposal] = "applied"
        /\ approval[answer[c].proposal] =
             [key |-> answer[c].key, revision |-> answer[c].revision]
        /\ answer[c].revision \in Committed

\* Once rejected, expired or applied, a proposal stays so: a call that read its
\* status before another decided it does not decide it again.
DecisionIsFinal ==
    [][\A p \in Proposals :
         status[p] \in {"rejected", "expired", "applied"} => status'[p] = status[p]]_vars

\* A proposal is applied only by a call that began before its expiry, and only if
\* the data it was drafted on was still the current data when that call began, or
\* was never known.
NoStaleApproval ==
    [][\A p \in Proposals : status[p] # "applied" /\ status'[p] = "applied" =>
         \E c \in Clients :
            /\ pc[c] = "commit" /\ op[c].proposal = p
            /\ ~op[c].late
            /\ \/ payload[p].fingerprint = Unavailable
               \/ payload[p].fingerprint >= op[c].since]_vars

\* No write that is guarded by what its caller saw loses another's work: a new
\* head differs from the old one at one node, unless it is a save_revision
\* without expected_head (whose caller's copy may be older than its guard).
NothingIsLost ==
    [][\A t \in Trees : head[t] # None /\ head'[t] # head[t] =>
         \/ \E c \in Clients : /\ pc[c] = "save_write" /\ pc'[c] = "idle"
                               /\ ~op[c].pinned /\ op[c].tree = t
         \/ \E n \in Nodes : config'[head'[t]] = [config[head[t]] EXCEPT ![n] = head'[t]]]_vars

\* The whole of it: seen from the tables, every interleaving of calls is one of
\* calls that each took effect at once, or not at all.
Decision(s) == CASE s = "absent"           -> "none"
                 [] s = "drafting"         -> "drafted"
                 [] s = "pending_approval" -> "open"
                 [] s = "applied"          -> "applied"
                 [] OTHER                  -> "closed"
Atomic == INSTANCE AtomicApproval WITH
    line <- treeOf, onto <- parent, tip <- head,
    decision <- [p \in Proposals |-> Decision(status[p])],
    base <- [p \in Proposals |-> payload[p].base],
    bought <- approval
ImplementsAtomicApproval == Atomic!Spec

-----------------------------------------------------------------------------
(* Claims of the repository that the code does not keep                    *)

\* Every change of a proposal's status is a transition of the diagram.
StatusFollowsDiagram ==
    [][\A p \in Proposals :
         status[p] # "absent" /\ status'[p] # status[p] => Legal(status[p], status'[p])]_vars

\* A proposal whose approval was refused for a stale revision is expired.
StaleRevisionExpires ==
    \A c \in Clients : answer[c].code = "stale_revision" =>
        status[answer[c].proposal] # "pending_approval"

\* The data a proposal was computed on is the data its fingerprint names.
SnapshotIsOneVersion ==
    \A p \in Proposals : status[p] = "pending_approval" =>
        payload[p].fingerprint \in {payload[p].dataset, Unavailable}
=============================================================================
