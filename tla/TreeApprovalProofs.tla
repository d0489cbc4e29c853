------------------------- MODULE TreeApprovalProofs -------------------------
(***************************************************************************)
(* What TreeApproval promises, for every number of trees, revisions,       *)
(* proposals, keys and clients: of the trees and the proposals, then of    *)
(* what a call in flight has read.                                         *)
(***************************************************************************)
EXTENDS TreeApproval, TLAPS

-----------------------------------------------------------------------------
(* Type correctness                                                        *)

ClientsTyped ==
    /\ pc \in [Clients -> Labels]
    /\ op \in [Clients -> Ops]
    /\ answer \in [Clients -> Answers]

\* The values a call may hold and answer are well formed.
LEMMA BlankTyped == Blank \in Ops /\ NoAnswer \in Answers
<1> 0 \in 0..MaxData  BY MaxDataIsNat
<1> QED  BY DEF Blank, NoAnswer, Ops, Answers, Codes

LEMMA RefusedTyped ==
    ASSUME ClientsTyped, NEW c \in Clients, NEW code \in Codes
    PROVE  Refused(c, code) \in Answers
BY DEF ClientsTyped, Refused, Answers, Ops

LEMMA BeginTyped ==
    ASSUME ClientsTyped, NEW c \in Clients, NEW l \in Labels, NEW o \in Ops,
           Begin(c, l, o)
    PROVE  ClientsTyped'
BY BlankTyped DEF ClientsTyped, Begin

LEMMA StepTyped ==
    ASSUME ClientsTyped, NEW c \in Clients, NEW l \in Labels, NEW o \in Ops,
           Step(c, l, o)
    PROVE  ClientsTyped'
BY DEF ClientsTyped, Step

LEMMA EndTyped ==
    ASSUME ClientsTyped, NEW c \in Clients, NEW a \in Answers, End(c, a)
    PROVE  ClientsTyped'
BY BlankTyped DEF ClientsTyped, End, Labels

\* The statuses of the diagram from which the code's two transitions start.
LEMMA LegalFrom ==
    ASSUME NEW s
    PROVE  /\ Legal(s, "pending_approval") => s = "drafting"
           /\ Legal(s, "rejected") => s = "pending_approval"
BY DEF Legal, Statuses, LegalTransitions

LEMMA TheStatuses ==
    /\ Statuses = {"drafting", "failed", "pending_approval", "rejected", "expired",
                   "superseded", "applying", "apply_failed", "applied",
                   "confirmation_pending", "confirmed", "confirmation_failed"}
    /\ "absent" \notin Statuses
BY DEF Statuses, LegalTransitions

TablesTyped ==
    /\ treeOf \in [Revisions -> Trees \cup {None}]
    /\ parent \in [Revisions -> Revisions \cup {None}]
    /\ config \in [Revisions -> Configs]
    /\ head \in [Trees -> Revisions \cup {None}]

\* A revision is appended with values of their types.
LEMMA AppendTyped ==
    ASSUME TablesTyped, NEW t \in Trees, NEW r \in Revisions,
           NEW onto \in Revisions \cup {None}, NEW cfg \in Configs,
           AppendRevision(t, r, onto, cfg)
    PROVE  TablesTyped'
BY DEF TablesTyped, AppendRevision

LEMMA EditTyped ==
    ASSUME TablesTyped, NEW b \in Revisions, NEW n, NEW r \in Revisions
    PROVE  Edit(b, n, r) \in Configs
BY DEF TablesTyped, Edit, Configs

OnTree(r, t) == r \in Revisions /\ t \in Trees /\ treeOf[r] = t

SaveLabels    == {"save_read", "save_write"}
DraftLabels   == {"load", "draft"}
ApproveLabels == {"lookup", "read", "expiry", "head", "data", "expire", "commit"}

\* What a call has filled in at each of its steps; a step that uses a field
\* relies on it not being None.
CallFilled(c) ==
    /\ pc[c] \in SaveLabels \cup DraftLabels =>
         /\ op[c].tree \in Trees /\ op[c].node \in Nodes
         /\ head[op[c].tree] # None
    /\ pc[c] \in SaveLabels => OnTree(op[c].view, op[c].tree)
    /\ pc[c] \in DraftLabels \cup {"save_write"} => OnTree(op[c].seen, op[c].tree)
    /\ pc[c] \in ApproveLabels \cup {"submit", "reject_read", "reject_write"} =>
         op[c].proposal \in Proposals /\ status[op[c].proposal] # "absent"
    /\ pc[c] \in ApproveLabels => op[c].key \in Keys

PayloadFilled(p) ==
    status[p] # "absent" =>
        OnTree(payload[p].base, payload[p].tree) /\ payload[p].node \in Nodes

Filled ==
    /\ TypeOK
    /\ HeadsAreCommitted
    /\ \A c \in Clients : CallFilled(c)
    /\ \A p \in Proposals : PayloadFilled(p)

\* What is written stays: rows are never changed or removed, a tree keeps having a
\* head, a proposal's payload is immutable.
Kept ==
    /\ \A r \in Revisions : treeOf[r] # None =>
         /\ treeOf'[r] = treeOf[r]
         /\ parent'[r] = parent[r]
         /\ config'[r] = config[r]
    /\ \A t \in Trees : head[t] # None => head'[t] # None
    /\ \A p \in Proposals : status[p] # "absent" =>
         status'[p] # "absent" /\ payload'[p] = payload[p]

LEMMA AppendKeeps ==
    ASSUME TablesTyped, NEW t \in Trees, NEW r \in Revisions, NEW onto, NEW cfg,
           AppendRevision(t, r, onto, cfg), 
           \A p \in Proposals : status[p] # "absent" =>
              status'[p] # "absent" /\ payload'[p] = payload[p]
    PROVE  Kept
BY NoneIsNoValue DEF TablesTyped, AppendRevision, Kept, Committed

LEMMA OnTreeKept ==
    ASSUME Kept, NEW r, NEW t, OnTree(r, t)
    PROVE  OnTree(r, t)'
BY NoneIsNoValue DEF Kept, OnTree

\* A call that takes no step keeps what it has filled in.
LEMMA CallKept ==
    ASSUME Kept, NEW c \in Clients, CallFilled(c),
           pc'[c] = pc[c], op'[c] = op[c]
    PROVE  CallFilled(c)'
<1>1. OnTree(op[c].view, op[c].tree) => OnTree(op[c].view, op[c].tree)'
  BY NoneIsNoValue DEF Kept, OnTree
<1>2. OnTree(op[c].seen, op[c].tree) => OnTree(op[c].seen, op[c].tree)'
  BY NoneIsNoValue DEF Kept, OnTree
<1>3. op[c].tree \in Trees /\ head[op[c].tree] # None => head'[op'[c].tree] # None
  BY DEF Kept
<1>4. op[c].proposal \in Proposals /\ status[op[c].proposal] # "absent" =>
        op'[c].proposal \in Proposals /\ status'[op'[c].proposal] # "absent"
  BY DEF Kept
<1> QED
  BY <1>1, <1>2, <1>3, <1>4 DEF CallFilled, SaveLabels, DraftLabels, ApproveLabels

\* The calls other than c's are where they were.
Others(c) == \A d \in Clients \ {c} : pc'[d] = pc[d] /\ op'[d] = op[d]

LEMMA MovesAlone ==
    ASSUME ClientsTyped, NEW c \in Clients, NEW l, NEW o, NEW a,
           \/ Begin(c, l, o)
           \/ Step(c, l, o)
           \/ End(c, a)
    PROVE  Others(c)
BY DEF ClientsTyped, Others, Begin, Step, End

LEMMA CallsKept ==
    ASSUME Filled, Kept, NEW c \in Clients, Others(c), CallFilled(c)'
    PROVE  \A d \in Clients : CallFilled(d)'
<1> SUFFICES ASSUME NEW d \in Clients, d # c  PROVE CallFilled(d)'
  OBVIOUS
<1> QED  BY CallKept DEF Filled, Others

LEMMA Ended ==
    ASSUME ClientsTyped, NEW c \in Clients, NEW a, End(c, a)
    PROVE  CallFilled(c)'
BY DEF ClientsTyped, End, CallFilled, SaveLabels, DraftLabels, ApproveLabels

Stored == <<trees, proposals, approvals, world>>

\* A step that only reads the tables.
LEMMA ReadStep ==
    ASSUME Filled, UNCHANGED Stored, NEW c \in Clients,
           ClientsTyped', Others(c), CallFilled(c)'
    PROVE  Filled'
<1> USE DEF Stored, trees, proposals, approvals, world
<1>1. TypeOK'  BY DEF Filled, TypeOK, ClientsTyped
<1>2. Kept  BY DEF Kept
<1>3. HeadsAreCommitted'  BY DEF Filled, HeadsAreCommitted
<1>4. \A d \in Clients : CallFilled(d)'  BY <1>2, CallsKept
<1>5. \A p \in Proposals : PayloadFilled(p)'
  BY DEF Filled, PayloadFilled, OnTree
<1> QED  BY <1>1, <1>3, <1>4, <1>5 DEF Filled

LEMMA FilledInit == Init => Filled
<1> SUFFICES ASSUME Init  PROVE Filled
  OBVIOUS
<1>1. TypeOK
  <2>1. 0 \in 0..MaxData  BY MaxDataIsNat
  <2> QED
    BY <2>1, BlankTyped, TheStatuses
    DEF Init, TypeOK, Configs, Payloads, Fingerprints, Approvals, Labels
<1>2. HeadsAreCommitted  BY DEF Init, HeadsAreCommitted
<1>3. ASSUME NEW c \in Clients  PROVE CallFilled(c)
  BY DEF Init, CallFilled, SaveLabels, DraftLabels, ApproveLabels
<1>4. ASSUME NEW p \in Proposals  PROVE PayloadFilled(p)
  BY DEF Init, PayloadFilled
<1> QED  BY <1>1, <1>2, <1>3, <1>4 DEF Filled

LEMMA ClientsTypedIn == TypeOK => ClientsTyped /\ TablesTyped
BY DEF TypeOK, ClientsTyped, TablesTyped

\* The step that starts a call on the head of a tree.
LEMMA BeginOnHead ==
    ASSUME Filled, NEW t \in Trees, NEW n \in Nodes, head[t] # None
    PROVE  /\ OnTree(head[t], t)
           /\ \A b \in BOOLEAN :
                [Blank EXCEPT !.tree = t, !.node = n, !.view = head[t], !.pinned = b] \in Ops
           /\ [Blank EXCEPT !.tree = t, !.node = n, !.seen = head[t]] \in Ops
<1>1. OnTree(head[t], t)
  BY DEF Filled, TypeOK, HeadsAreCommitted, OnTree
<1> QED  BY <1>1, BlankTyped DEF Ops, Blank, OnTree

\* save_revision's steps.
LEMMA EditsFilled ==
    ASSUME Filled, NEW c \in Editors, Edits(c)
    PROVE  Filled' /\ Kept
<1> c \in Clients  BY DEF Clients
<1> USE DEF Stored, trees, proposals, approvals, world
<1>0. ClientsTyped /\ TablesTyped /\ CallFilled(c)  BY ClientsTypedIn DEF Filled
<1>1. ASSUME NEW t \in Trees, NEW n \in Nodes, NEW b \in BOOLEAN, BeginSave(c, t, n, b)
      PROVE  Filled' /\ Kept
  <2> DEFINE o == [Blank EXCEPT !.tree = t, !.node = n, !.view = head[t], !.pinned = b]
  <2>1. head[t] # None /\ Begin(c, "save_read", o) /\ UNCHANGED Stored
    BY <1>1 DEF BeginSave
  <2>2. o \in Ops /\ OnTree(head[t], t)  BY <2>1, BeginOnHead
  <2>3. "save_read" \in Labels  BY DEF Labels
  <2>4. ClientsTyped'  BY <1>0, <2>1, <2>2, <2>3, BeginTyped
  <2>5. Others(c)  BY <1>0, <2>1, MovesAlone
  <2>6. pc'[c] = "save_read" /\ op'[c] = o
    BY <1>0, <2>1 DEF Begin, ClientsTyped
  <2>7. o.tree = t /\ o.node = n /\ o.view = head[t]  BY DEF Blank
  <2>8. CallFilled(c)'
    BY <2>1, <2>2, <2>6, <2>7
    DEF CallFilled, OnTree, SaveLabels, DraftLabels, ApproveLabels
  <2>9. Filled'  BY <2>1, <2>4, <2>5, <2>8, ReadStep
  <2> QED  BY <2>1, <2>9 DEF Kept
<1>2. ASSUME SaveRead(c)  PROVE Filled' /\ Kept
  <2> DEFINE o == [op[c] EXCEPT !.seen = head[op[c].tree]]
  <2>1. pc[c] = "save_read" /\ Step(c, "save_write", o) /\ UNCHANGED Stored
    BY <1>2 DEF SaveRead
  <2>2. OnTree(op[c].view, op[c].tree) /\ op[c].node \in Nodes
    BY <1>0, <2>1 DEF CallFilled, SaveLabels
  <2>3. OnTree(head[op[c].tree], op[c].tree)
    BY <1>0, <2>1 DEF CallFilled, SaveLabels, Filled, TypeOK, HeadsAreCommitted, OnTree
  <2>4. op[c] \in Ops  BY <1>0 DEF ClientsTyped
  <2>5. o \in Ops  BY <2>3, <2>4 DEF Ops, OnTree
  <2>6. o.tree = op[c].tree /\ o.node = op[c].node /\ o.view = op[c].view
        /\ o.seen = head[op[c].tree]
    BY <2>4 DEF Ops
  <2>7. ClientsTyped'  BY <1>0, <2>1, <2>5, StepTyped DEF Labels
  <2>8. Others(c)  BY <1>0, <2>1, MovesAlone
  <2>9. pc'[c] = "save_write" /\ op'[c] = o  BY <1>0, <2>1 DEF Step, ClientsTyped
  <2>10. CallFilled(c)'
    BY <2>1, <2>2, <2>3, <2>6, <2>9, NoneIsNoValue
    DEF CallFilled, OnTree, SaveLabels, DraftLabels, ApproveLabels
  <2>11. Filled'  BY <2>1, <2>7, <2>8, <2>10, ReadStep
  <2> QED  BY <2>1, <2>11 DEF Kept
<1>3. ASSUME NEW r \in Revisions, SaveRevision(c, r)  PROVE Filled' /\ Kept
  <2> DEFINE t == op[c].tree
             cfg == Edit(op[c].view, op[c].node, r)
  <2>1. /\ pc[c] = "save_write"
        /\ AppendRevision(t, r, op[c].seen, cfg)
        /\ End(c, NoAnswer)
        /\ UNCHANGED <<proposals, approvals, world>>
    BY <1>3 DEF SaveRevision
  <2>2. OnTree(op[c].view, t) /\ OnTree(op[c].seen, t)
    BY <1>0, <2>1 DEF CallFilled, SaveLabels
  <2>3. cfg \in Configs  BY <1>0, <2>2, EditTyped DEF OnTree
  <2>4. TablesTyped'  BY <1>0, <2>1, <2>2, <2>3, AppendTyped DEF OnTree
  <2>5. Kept  BY <1>0, <2>1, <2>2, AppendKeeps DEF OnTree
  <2>6. ClientsTyped'  BY <1>0, <2>1, BlankTyped, EndTyped
  <2>7. TypeOK'  BY <2>1, <2>4, <2>6 DEF Filled, TypeOK, TablesTyped, ClientsTyped
  <2>8. CallFilled(c)' /\ Others(c)  BY <1>0, <2>1, Ended, MovesAlone
  <2>9. \A d \in Clients : CallFilled(d)'  BY <2>5, <2>8, CallsKept
  <2>10. HeadsAreCommitted'
    BY <1>0, <2>1, <2>2, NoneIsNoValue
    DEF Filled, HeadsAreCommitted, AppendRevision, Committed, TablesTyped, OnTree
  <2>11. \A p \in Proposals : PayloadFilled(p)'
    BY <2>1, <2>5, NoneIsNoValue DEF Filled, PayloadFilled, Kept, OnTree
  <2> QED  BY <2>5, <2>7, <2>9, <2>10, <2>11 DEF Filled
<1>4. ASSUME SaveConflict(c)  PROVE Filled' /\ Kept
  <2>1. End(c, NoAnswer) /\ UNCHANGED Stored  BY <1>4 DEF SaveConflict
  <2>2. ClientsTyped' /\ Others(c) /\ CallFilled(c)'
    BY <1>0, <2>1, BlankTyped, EndTyped, MovesAlone, Ended
  <2>3. Filled'  BY <2>1, <2>2, ReadStep
  <2> QED  BY <2>1, <2>3 DEF Kept
<1> QED  BY <1>1, <1>2, <1>3, <1>4 DEF Edits

\* An UPDATE of one proposal's status, by a call that then ends.
LEMMA StatusUpdate ==
    ASSUME Filled, NEW c \in Clients, NEW a \in Answers, End(c, a),
           NEW p \in Proposals, NEW to \in Statuses,
           status' = status \/ (status[p] # "absent" /\ status' = [status EXCEPT ![p] = to]),
           UNCHANGED <<trees, payload, approvals, world>>
    PROVE  Filled' /\ Kept
<1> USE DEF trees, approvals, world
<1>0. ClientsTyped  BY ClientsTypedIn DEF Filled
<1>1. ClientsTyped' /\ Others(c) /\ CallFilled(c)'
  BY <1>0, EndTyped, MovesAlone, Ended
<1>2. status' \in [Proposals -> Statuses \cup {"absent"}]  BY DEF Filled, TypeOK
<1>3. TypeOK'  BY <1>1, <1>2 DEF Filled, TypeOK, ClientsTyped
<1>4. \A q \in Proposals : (status[q] # "absent") <=> (status'[q] # "absent")
  BY TheStatuses DEF Filled, TypeOK
<1>5. Kept  BY <1>4 DEF Kept
<1>6. \A d \in Clients : CallFilled(d)'  BY <1>1, <1>5, CallsKept
<1>7. HeadsAreCommitted'  BY DEF Filled, HeadsAreCommitted
<1>8. \A q \in Proposals : PayloadFilled(q)'
  BY <1>4 DEF Filled, PayloadFilled, OnTree
<1> QED  BY <1>3, <1>5, <1>6, <1>7, <1>8 DEF Filled

LEMMA TransitionFilled ==
    ASSUME Filled, NEW c \in Clients, NEW to \in Statuses, Transition(c, to),
           op[c].proposal \in Proposals
    PROVE  Filled' /\ Kept
<1>1. TransitionWins(c, to) => status[op[c].proposal] # "absent"
  BY TheStatuses DEF TransitionWins, Legal
<1> QED  BY <1>1, StatusUpdate, BlankTyped DEF Transition

\* create_proposal's steps.
LEMMA ProducesFilled ==
    ASSUME Filled, NEW c \in Producers, Produces(c)
    PROVE  Filled' /\ Kept
<1> c \in Clients  BY DEF Clients
<1>0. ClientsTyped /\ TablesTyped /\ CallFilled(c)  BY ClientsTypedIn DEF Filled
<1>1. ASSUME NEW t \in Trees, NEW n \in Nodes, BeginProposal(c, t, n)
      PROVE  Filled' /\ Kept
  <2> USE DEF Stored, trees, proposals, approvals, world
  <2> DEFINE o == [Blank EXCEPT !.tree = t, !.node = n, !.seen = head[t]]
  <2>1. head[t] # None /\ Begin(c, "load", o) /\ UNCHANGED Stored
    BY <1>1 DEF BeginProposal
  <2>2. o \in Ops /\ OnTree(head[t], t)  BY <2>1, BeginOnHead
  <2>3. ClientsTyped'  BY <1>0, <2>1, <2>2, BeginTyped DEF Labels
  <2>4. Others(c)  BY <1>0, <2>1, MovesAlone
  <2>5. pc'[c] = "load" /\ op'[c] = o  BY <1>0, <2>1 DEF Begin, ClientsTyped
  <2>6. o.tree = t /\ o.node = n /\ o.seen = head[t]  BY DEF Blank
  <2>7. CallFilled(c)'
    BY <2>1, <2>2, <2>5, <2>6
    DEF CallFilled, OnTree, SaveLabels, DraftLabels, ApproveLabels
  <2>8. Filled'  BY <2>1, <2>3, <2>4, <2>7, ReadStep
  <2> QED  BY <2>1, <2>8 DEF Kept
<1>2. ASSUME LoadDataset(c)  PROVE Filled' /\ Kept
  <2> USE DEF Stored, trees, proposals, approvals, world
  <2> DEFINE o == [op[c] EXCEPT !.dataset = data]
  <2>1. pc[c] = "load" /\ Step(c, "draft", o) /\ UNCHANGED Stored
    BY <1>2 DEF LoadDataset
  <2>2. op[c] \in Ops  BY <1>0 DEF ClientsTyped
  <2>3. o \in Ops  BY <2>2 DEF Ops, Filled, TypeOK
  <2>4. o.tree = op[c].tree /\ o.node = op[c].node /\ o.seen = op[c].seen
    BY <2>2 DEF Ops
  <2>5. ClientsTyped'  BY <1>0, <2>1, <2>3, StepTyped DEF Labels
  <2>6. Others(c)  BY <1>0, <2>1, MovesAlone
  <2>7. pc'[c] = "draft" /\ op'[c] = o  BY <1>0, <2>1 DEF Step, ClientsTyped
  <2>8. CallFilled(c)'
    BY <1>0, <2>1, <2>4, <2>7
    DEF CallFilled, OnTree, SaveLabels, DraftLabels, ApproveLabels
  <2>9. Filled'  BY <2>1, <2>5, <2>6, <2>8, ReadStep
  <2> QED  BY <2>1, <2>9 DEF Kept
<1>3. ASSUME NEW p \in Proposals, CreateDraft(c, p)  PROVE Filled' /\ Kept
  <2> USE DEF trees, approvals, world
  <2>0. PICK read \in Coverage :
           payload' = [payload EXCEPT ![p] =
                         [tree |-> op[c].tree, base |-> op[c].seen, node |-> op[c].node,
                          dataset |-> op[c].dataset, fingerprint |-> read]]
    BY <1>3 DEF CreateDraft
  <2> DEFINE o == [op[c] EXCEPT !.proposal = p, !.from = "drafting"]
             row == [tree |-> op[c].tree, base |-> op[c].seen, node |-> op[c].node,
                     dataset |-> op[c].dataset, fingerprint |-> read]
  <2>1. /\ pc[c] = "draft" /\ status[p] = "absent"
        /\ status' = [status EXCEPT ![p] = "drafting"]
        /\ payload' = [payload EXCEPT ![p] = row]
        /\ Step(c, "submit", o)
        /\ UNCHANGED <<trees, approvals, world>>
    BY <1>3, <2>0 DEF CreateDraft
  <2>2. op[c] \in Ops  BY <1>0 DEF ClientsTyped
  <2>3. OnTree(op[c].seen, op[c].tree) /\ op[c].node \in Nodes
    BY <1>0, <2>1 DEF CallFilled, DraftLabels
  <2>4. row \in Payloads
    BY <2>2, <2>3 DEF Payloads, Fingerprints, Coverage, OnTree, Ops, Filled, TypeOK
  <2>5. o \in Ops /\ o.proposal = p  BY <2>2, TheStatuses DEF Ops
  <2>6. ClientsTyped'  BY <1>0, <2>1, <2>5, StepTyped DEF Labels
  <2>7. Others(c)  BY <1>0, <2>1, MovesAlone
  <2>8. pc'[c] = "submit" /\ op'[c] = o  BY <1>0, <2>1 DEF Step, ClientsTyped
  <2>9. status' \in [Proposals -> Statuses \cup {"absent"}]
    BY <2>1, TheStatuses DEF Filled, TypeOK
  <2>10. payload' \in [Proposals -> Payloads]  BY <2>1, <2>4 DEF Filled, TypeOK
  <2>11. TypeOK'  BY <2>1, <2>6, <2>9, <2>10 DEF Filled, TypeOK, ClientsTyped
  <2>12. Kept  BY <2>1 DEF Kept, Filled, TypeOK
  <2>13. status'[p] = "drafting" /\ payload'[p] = row
    BY <2>1 DEF Filled, TypeOK
  <2>14. CallFilled(c)'
    BY <2>5, <2>8, <2>13 DEF CallFilled, SaveLabels, DraftLabels, ApproveLabels
  <2>15. \A d \in Clients : CallFilled(d)'  BY <2>7, <2>12, <2>14, CallsKept
  <2>16. HeadsAreCommitted'  BY <2>1 DEF Filled, HeadsAreCommitted
  <2>17. ASSUME NEW q \in Proposals  PROVE PayloadFilled(q)'
    <3>1. CASE q = p
      BY <2>1, <2>3, <2>13, <3>1 DEF PayloadFilled, OnTree
    <3>2. CASE q # p
      BY <2>1, <3>2 DEF Filled, TypeOK, PayloadFilled, OnTree
    <3> QED  BY <3>1, <3>2
  <2> QED  BY <2>11, <2>12, <2>15, <2>16, <2>17 DEF Filled
<1>4. ASSUME SubmitProposal(c)  PROVE Filled' /\ Kept
  <2>1. op[c].proposal \in Proposals
    BY <1>0, <1>4 DEF SubmitProposal, CallFilled
  <2> QED  BY <1>4, <2>1, TransitionFilled, TheStatuses DEF SubmitProposal
<1> QED  BY <1>1, <1>2, <1>3, <1>4 DEF Produces

\* A call that reads and goes on, changing at most what it holds of no table.
LEMMA StepOn ==
    ASSUME Filled, NEW c \in Clients, NEW l \in ApproveLabels \cup {"reject_write"},
           NEW o \in Ops, Step(c, l, o), UNCHANGED Stored,
           o.proposal \in Proposals, status[o.proposal] # "absent",
           l \in ApproveLabels => o.key \in Keys
    PROVE  Filled' /\ Kept
<1> USE DEF Stored, trees, proposals, approvals, world
<1>0. ClientsTyped  BY ClientsTypedIn DEF Filled
<1>1. l \in Labels  BY DEF Labels, ApproveLabels
<1>2. ClientsTyped' /\ Others(c)  BY <1>0, <1>1, StepTyped, MovesAlone
<1>3. pc'[c] = l /\ op'[c] = o  BY <1>0 DEF Step, ClientsTyped
<1>4. CallFilled(c)'
  BY <1>3 DEF CallFilled, SaveLabels, DraftLabels, ApproveLabels
<1>5. Filled'  BY <1>2, <1>4, ReadStep
<1> QED  BY <1>5 DEF Kept

LEMMA EndRead ==
    ASSUME Filled, NEW c \in Clients, NEW a \in Answers, End(c, a), UNCHANGED Stored
    PROVE  Filled' /\ Kept
<1>1. ClientsTyped  BY ClientsTypedIn DEF Filled
<1>2. ClientsTyped' /\ Others(c) /\ CallFilled(c)'
  BY <1>1, EndTyped, MovesAlone, Ended
<1>3. Filled'  BY <1>2, ReadStep
<1> QED  BY <1>3 DEF Kept, Stored, trees, proposals

LEMMA BeginOn ==
    ASSUME Filled, NEW c \in Clients, NEW l \in {"lookup", "reject_read"},
           NEW o \in Ops, Begin(c, l, o), UNCHANGED Stored,
           o.proposal \in Proposals, status[o.proposal] # "absent",
           l = "lookup" => o.key \in Keys
    PROVE  Filled' /\ Kept
<1> USE DEF Stored, trees, proposals, approvals, world
<1>0. ClientsTyped  BY ClientsTypedIn DEF Filled
<1>1. l \in Labels  BY DEF Labels
<1>2. ClientsTyped' /\ Others(c)  BY <1>0, <1>1, BeginTyped, MovesAlone
<1>3. pc'[c] = l /\ op'[c] = o  BY <1>0 DEF Begin, ClientsTyped
<1>4. CallFilled(c)'
  BY <1>3 DEF CallFilled, SaveLabels, DraftLabels, ApproveLabels
<1>5. Filled'  BY <1>2, <1>4, ReadStep
<1> QED  BY <1>5 DEF Kept

LEMMA CheckFilled ==
    ASSUME Filled, NEW c \in Clients, pc[c] \in ApproveLabels,
           NEW ok \in BOOLEAN, NEW l \in ApproveLabels, NEW code \in Codes,
           Check(c, ok, l, code)
    PROVE  Filled' /\ Kept
<1>0. op[c] \in Ops /\ CallFilled(c)  BY ClientsTypedIn DEF Filled, ClientsTyped
<1>1. op[c].proposal \in Proposals /\ status[op[c].proposal] # "absent"
      /\ op[c].key \in Keys
  BY <1>0 DEF CallFilled
<1>2. UNCHANGED Stored  BY DEF Check, Stored
<1>3. CASE Step(c, l, op[c])  BY <1>0, <1>1, <1>2, <1>3, StepOn
<1>4. CASE Step(c, "expire", [op[c] EXCEPT !.reason = code])
  <2> DEFINE o == [op[c] EXCEPT !.reason = code]
  <2>1. o \in Ops /\ o.proposal = op[c].proposal /\ o.key = op[c].key
    BY <1>0 DEF Ops
  <2>2. "expire" \in ApproveLabels  BY DEF ApproveLabels
  <2> HIDE DEF o
  <2> QED  BY <1>1, <1>2, <1>4, <2>1, <2>2, StepOn DEF o
<1> QED  BY <1>3, <1>4 DEF Check

\* The guarded UPDATE of a commit did change the row: the commit checked it.
LEMMA CommitMarks ==
    ASSUME NEW c, NEW r, CommitApply(c, r)
    PROVE  status' = [status EXCEPT ![op[c].proposal] = "applied"]
BY DEF CommitApply, StillPending, UpdateIfPending

\* The transaction that applies a proposal.
LEMMA CommitFilled ==
    ASSUME Filled, NEW c \in Clients, NEW r \in Revisions, CommitApply(c, r)
    PROVE  Filled' /\ Kept
<1> DEFINE p == op[c].proposal
           target == payload[p]
           a == [code |-> "applied", proposal |-> p, key |-> op[c].key, revision |-> r]
           row == [key |-> op[c].key, revision |-> r]
           cfg == Edit(target.base, target.node, r)
<1>0. ClientsTyped /\ TablesTyped /\ CallFilled(c)  BY ClientsTypedIn DEF Filled
<1>1. /\ pc[c] = "commit"
      /\ AppendRevision(target.tree, r, target.base, cfg)
      /\ approval' = [approval EXCEPT ![p] = row]
      /\ status' = [status EXCEPT ![p] = "applied"]
      /\ outbox' = outbox \cup {[proposal |-> p, revision |-> r]}
      /\ End(c, a)
      /\ UNCHANGED <<payload, world>>
  BY CommitMarks DEF CommitApply
<1>2. p \in Proposals /\ status[p] # "absent" /\ op[c].key \in Keys
  BY <1>0, <1>1 DEF CallFilled, ApproveLabels
<1>3. OnTree(target.base, target.tree)  BY <1>2 DEF Filled, PayloadFilled
<1>4. cfg \in Configs  BY <1>0, <1>3, EditTyped DEF OnTree
<1>5. TablesTyped'  BY <1>0, <1>1, <1>3, <1>4, AppendTyped DEF OnTree
<1>6. \A q \in Proposals : (status[q] # "absent") <=> (status'[q] # "absent")
  BY <1>1, <1>2 DEF Filled, TypeOK
<1>7. Kept  BY <1>0, <1>1, <1>3, <1>6, AppendKeeps DEF OnTree
<1>8. a \in Answers  BY <1>2 DEF Answers, Codes
<1>9. ClientsTyped' /\ Others(c) /\ CallFilled(c)'
  BY <1>0, <1>1, <1>8, EndTyped, MovesAlone, Ended
<1>10. /\ status' \in [Proposals -> Statuses \cup {"absent"}]
       /\ approval' \in [Proposals -> Approvals]
       /\ outbox' \subseteq Events
  BY <1>1, <1>2, TheStatuses DEF Filled, TypeOK, Approvals, Events
<1>11. TypeOK'
  BY <1>1, <1>5, <1>9, <1>10 DEF Filled, TypeOK, TablesTyped, ClientsTyped, world
<1>12. \A d \in Clients : CallFilled(d)'  BY <1>7, <1>9, CallsKept
<1>13. HeadsAreCommitted'
  BY <1>0, <1>1, <1>3, NoneIsNoValue
  DEF Filled, HeadsAreCommitted, AppendRevision, Committed, TablesTyped, OnTree
<1>14. \A q \in Proposals : PayloadFilled(q)'
  BY <1>1, <1>6, <1>7, NoneIsNoValue DEF Filled, PayloadFilled, Kept, OnTree
<1> QED  BY <1>7, <1>11, <1>12, <1>13, <1>14 DEF Filled

\* reject_proposal's and apply_proposal's steps.
LEMMA ReviewsFilled ==
    ASSUME Filled, NEW c \in Reviewers, Reviews(c)
    PROVE  Filled' /\ Kept
<1> c \in Clients  BY DEF Clients
<1>0. ClientsTyped /\ CallFilled(c)  BY ClientsTypedIn DEF Filled
<1>a. op[c] \in Ops  BY <1>0 DEF ClientsTyped
<1>b. pc[c] \in ApproveLabels =>
        /\ op[c].proposal \in Proposals
        /\ status[op[c].proposal] # "absent"
        /\ op[c].key \in Keys
  BY <1>0 DEF CallFilled
<1>1. ASSUME NEW p \in Proposals, BeginReject(c, p)  PROVE Filled' /\ Kept
  <2> DEFINE o == [Blank EXCEPT !.proposal = p]
  <2>1. status[p] # "absent" /\ Begin(c, "reject_read", o) /\ UNCHANGED Stored
    BY <1>1 DEF BeginReject, Stored
  <2>2. o \in Ops /\ o.proposal = p  BY BlankTyped DEF Blank, Ops
  <2> HIDE DEF o
  <2> QED  BY <2>1, <2>2, BeginOn
<1>2. ASSUME ReadForReject(c)  PROVE Filled' /\ Kept
  <2> DEFINE o == [op[c] EXCEPT !.from = status[op[c].proposal]]
  <2>1. pc[c] = "reject_read" /\ Step(c, "reject_write", o) /\ UNCHANGED Stored
    BY <1>2 DEF ReadForReject, Stored
  <2>2. op[c].proposal \in Proposals /\ status[op[c].proposal] # "absent"
    BY <1>0, <2>1 DEF CallFilled
  <2>3. o \in Ops /\ o.proposal = op[c].proposal
    BY <1>a, <2>2 DEF Ops, Filled, TypeOK
  <2>4. "reject_write" \notin ApproveLabels  BY DEF ApproveLabels
  <2> HIDE DEF o
  <2> QED  BY <2>1, <2>2, <2>3, <2>4, StepOn
<1>3. ASSUME RejectProposal(c)  PROVE Filled' /\ Kept
  <2>1. op[c].proposal \in Proposals
    BY <1>0, <1>3 DEF RejectProposal, CallFilled
  <2> QED  BY <1>3, <2>1, TransitionFilled, TheStatuses DEF RejectProposal
<1>4. ASSUME NEW p \in Proposals, NEW card \in Proposals, NEW k \in Keys,
             BeginApprove(c, p, k, card)
      PROVE  Filled' /\ Kept
  <2> DEFINE o == [Blank EXCEPT !.proposal = p, !.key = k, !.card = card,
                                !.since = data, !.late = (p \in past)]
  <2>1. status[p] # "absent" /\ Begin(c, "lookup", o) /\ UNCHANGED Stored
    BY <1>4 DEF BeginApprove, Stored
  <2>a. \A since \in 0..MaxData, late \in BOOLEAN :
          [Blank EXCEPT !.proposal = p, !.key = k, !.card = card,
                        !.since = since, !.late = late] \in Ops
    BY BlankTyped DEF Blank, Ops
  <2>b. data \in 0..MaxData  BY DEF Filled, TypeOK
  <2>d. (p \in past) \in BOOLEAN  BY SMT
  <2>c. o \in Ops  BY <2>a, <2>b, <2>d, Zenon
  <2>2. o \in Ops /\ o.proposal = p /\ o.key = k  BY <2>c DEF Blank
  <2> HIDE DEF o
  <2> QED  BY <2>1, <2>2, BeginOn
<1>5. ASSUME LookupKey(c)  PROVE Filled' /\ Kept
  <2>1. pc[c] = "lookup" /\ UNCHANGED Stored  BY <1>5 DEF LookupKey, Stored
  <2>2. ASSUME NEW q \in Proposals,
               End(c, [code |-> "replayed", proposal |-> q, key |-> op[c].key,
                       revision |-> approval[q].revision])
        PROVE  Filled' /\ Kept
    <3>1. [code |-> "replayed", proposal |-> q, key |-> op[c].key,
           revision |-> approval[q].revision] \in Answers
      BY <1>b, <2>1 DEF Answers, Codes, ApproveLabels, Filled, TypeOK, Approvals
    <3> QED  BY <2>1, <2>2, <3>1, EndRead
  <2>3. CASE Step(c, "read", op[c])
    BY <1>a, <1>b, <2>1, <2>3, StepOn DEF ApproveLabels
  <2> QED  BY <1>5, <2>2, <2>3 DEF LookupKey
<1>6. ASSUME ReadProposal(c)  PROVE Filled' /\ Kept
  <2>1. pc[c] = "read" /\ UNCHANGED Stored  BY <1>6 DEF ReadProposal, Stored
  <2>2. \A code \in {"not_pending", "hash_mismatch"} : Refused(c, code) \in Answers
    BY <1>0, RefusedTyped DEF Codes
  <2>3. CASE Step(c, "expiry", op[c])
    BY <1>a, <1>b, <2>1, <2>3, StepOn DEF ApproveLabels
  <2>4. CASE End(c, Refused(c, "not_pending")) \/ End(c, Refused(c, "hash_mismatch"))
    BY <2>1, <2>2, <2>4, EndRead
  <2> QED  BY <1>6, <2>3, <2>4 DEF ReadProposal
<1>7. CASE CheckExpiry(c)
  BY <1>7, CheckFilled DEF CheckExpiry, ApproveLabels, Codes
<1>8. CASE CheckHead(c)
  BY <1>8, CheckFilled DEF CheckHead, ApproveLabels, Codes
<1>9. CASE CheckData(c)
  BY <1>9, CheckFilled DEF CheckData, DataUnchanged, ApproveLabels, Codes
<1>10. ASSUME Expire(c)  PROVE Filled' /\ Kept
  <2>1. op[c].proposal \in Proposals /\ status[op[c].proposal] # "absent"
    BY <1>b, <1>10 DEF Expire, ApproveLabels
  <2>2. Refused(c, op[c].reason) \in Answers
    BY <1>0, <1>a, RefusedTyped DEF Ops
  <2>3. /\ End(c, Refused(c, op[c].reason))
        /\ \/ status' = status
           \/ status' = [status EXCEPT ![op[c].proposal] = "expired"]
        /\ UNCHANGED <<trees, payload, approvals, world>>
    BY <1>10 DEF Expire, ExpireIfPending, UpdateIfPending
  <2>4. "expired" \in Statuses  BY TheStatuses
  <2> QED  BY <2>1, <2>2, <2>3, <2>4, StatusUpdate
<1>11. ASSUME NEW r \in Revisions, CommitApply(c, r)  PROVE Filled' /\ Kept
  BY <1>11, CommitFilled
<1>12. ASSUME Rollback(c)  PROVE Filled' /\ Kept
  <2>1. RollbackAnswer(c) \in Answers
    BY <1>0, RefusedTyped DEF RollbackAnswer, Codes
  <2> QED  BY <1>12, <2>1, EndRead DEF Rollback, Stored
<1> QED
  BY <1>1, <1>2, <1>3, <1>4, <1>5, <1>6, <1>7, <1>8, <1>9, <1>10, <1>11, <1>12
  DEF Reviews

\* Every step keeps the typed, filled-in state and everything already written.
LEMMA FilledStep ==
    ASSUME Filled, [Next]_vars
    PROVE  Filled' /\ Kept
<1>0. ClientsTyped /\ TablesTyped  BY ClientsTypedIn DEF Filled
<1>1. ASSUME NEW c \in Clients, Crash(c)  PROVE Filled' /\ Kept
  BY <1>1, BlankTyped, EndRead DEF Crash, Stored
<1>2. ASSUME NEW t \in Trees, NEW r \in Revisions, CreateTree(t, r)
      PROVE  Filled' /\ Kept
  <2> DEFINE cfg == [n \in Nodes |-> r]
  <2>1. /\ AppendRevision(t, r, None, cfg)
        /\ UNCHANGED <<proposals, approvals, world, client>>
    BY <1>2 DEF CreateTree
  <2>2. cfg \in Configs  BY DEF Configs
  <2>3. TablesTyped'  BY <1>0, <2>1, <2>2, AppendTyped
  <2>4. Kept  BY <1>0, <2>1, AppendKeeps DEF proposals
  <2>5. TypeOK'
    BY <2>1, <2>3 DEF Filled, TypeOK, TablesTyped, proposals, approvals, world, client
  <2>6. ASSUME NEW d \in Clients  PROVE CallFilled(d)'
    BY <2>1, <2>4, CallKept DEF Filled, client
  <2>7. HeadsAreCommitted'
    BY <1>0, <2>1, NoneIsNoValue
    DEF Filled, HeadsAreCommitted, AppendRevision, Committed, TablesTyped
  <2>8. \A p \in Proposals : PayloadFilled(p)'
    BY <2>1, <2>4, NoneIsNoValue DEF Filled, PayloadFilled, Kept, OnTree, proposals
  <2> QED  BY <2>4, <2>5, <2>6, <2>7, <2>8 DEF Filled
<1>3. CASE UNCHANGED <<trees, proposals, approvals, client>>
           /\ data' \in 0..MaxData /\ past' \subseteq Proposals
  <2> USE <1>3 DEF trees, proposals, approvals, client
  <2>1. TypeOK'  BY DEF Filled, TypeOK
  <2>2. \A d \in Clients : CallFilled(d)'
    BY DEF Filled, CallFilled, OnTree, SaveLabels, DraftLabels, ApproveLabels
  <2>3. HeadsAreCommitted' /\ \A p \in Proposals : PayloadFilled(p)'
    BY DEF Filled, HeadsAreCommitted, PayloadFilled, OnTree
  <2>4. Kept  BY DEF Kept
  <2> QED  BY <2>1, <2>2, <2>3, <2>4 DEF Filled
<1>4. CASE DataChanges
  BY <1>3, <1>4, MaxDataIsNat DEF DataChanges, Filled, TypeOK
<1>5. ASSUME NEW p \in Proposals, TimeRunsOut(p)  PROVE Filled' /\ Kept
  BY <1>3, <1>5 DEF TimeRunsOut, Filled, TypeOK
<1>6. CASE UNCHANGED vars
  BY <1>3, <1>6 DEF vars, world, Filled, TypeOK
<1> QED
  BY <1>1, <1>2, <1>4, <1>5, <1>6, EditsFilled, ProducesFilled, ReviewsFilled DEF Next

\* Type correctness: every column and every call in flight keeps to its type.
THEOREM TypeCorrect == Spec => []TypeOK
<1>1. Filled /\ [Next]_vars => Filled'  BY FilledStep
<1>2. Filled => TypeOK  BY DEF Filled
<1> QED  BY <1>1, <1>2, FilledInit, PTL DEF Spec

\* What the other proofs use of it: a call in flight holds the tree, node, head,
\* proposal and key that its next step reads.
THEOREM AlwaysFilled == Spec => []Filled
<1>1. Filled /\ [Next]_vars => Filled'  BY FilledStep
<1> QED  BY <1>1, FilledInit, PTL DEF Spec

-----------------------------------------------------------------------------
(* Histories are lines                                                     *)

\* A tree with a revision has a head.
TreesHaveHeads == \A r \in Committed : head[treeOf[r]] # None

\* A pinned save whose expected head is still the head read that very head: a head
\* once left never comes back, so the guard on the one is a guard on the other.
PinHolds ==
    \A c \in Clients :
        pc[c] = "save_write" /\ op[c].pinned /\ head[op[c].tree] = op[c].view =>
            op[c].seen = op[c].view

\* The tables of a tree change only by a revision put on top of its head.
LEMMA TreeStep ==
    ASSUME Filled, PinHolds, [Next]_vars
    PROVE  \/ UNCHANGED trees
           \/ \E t \in Trees, r \in Revisions : \E cfg : AppendRevision(t, r, head[t], cfg)
<1>1. ASSUME NEW t \in Trees, NEW r \in Revisions, CreateTree(t, r)
      PROVE  \E cfg : AppendRevision(t, r, head[t], cfg)
  BY <1>1 DEF CreateTree
<1>2. ASSUME NEW c \in Editors, NEW r \in Revisions, SaveRevision(c, r)
      PROVE  \E t \in Trees : \E cfg : AppendRevision(t, r, head[t], cfg)
  <2>1. c \in Clients  BY DEF Clients
  <2>2. op[c].tree \in Trees
    BY <1>2, <2>1 DEF SaveRevision, Filled, CallFilled, SaveLabels
  <2>3. op[c].seen = head[op[c].tree]
    BY <1>2, <2>1 DEF SaveRevision, GuardHead, PinHolds
  <2> QED  BY <1>2, <2>2, <2>3 DEF SaveRevision
<1>3. ASSUME NEW c \in Reviewers, NEW r \in Revisions, CommitApply(c, r)
      PROVE  \E t \in Trees : \E cfg : AppendRevision(t, r, head[t], cfg)
  <2> DEFINE target == payload[op[c].proposal]
  <2>1. c \in Clients  BY DEF Clients
  <2>2. pc[c] = "commit" /\ HeadUnmoved(c)
        /\ AppendRevision(target.tree, r, target.base, Edit(target.base, target.node, r))
    BY <1>3 DEF CommitApply
  <2>3. op[c].proposal \in Proposals /\ status[op[c].proposal] # "absent"
    BY <2>1, <2>2 DEF Filled, CallFilled, ApproveLabels
  <2>4. target.tree \in Trees  BY <2>3 DEF Filled, PayloadFilled, OnTree
  <2>5. head[target.tree] = target.base  BY <2>2 DEF HeadUnmoved
  <2> QED  BY <2>2, <2>4, <2>5
<1>4. ASSUME NEW c \in Editors, Edits(c)
      PROVE  UNCHANGED trees \/ \E r \in Revisions : SaveRevision(c, r)
  BY <1>4 DEF Edits, BeginSave, SaveRead, SaveConflict
<1>5. ASSUME NEW c \in Producers, Produces(c)  PROVE UNCHANGED trees
  BY <1>5 DEF Produces, BeginProposal, LoadDataset, CreateDraft, SubmitProposal, Transition
<1>6. ASSUME NEW c \in Reviewers, Reviews(c)
      PROVE  UNCHANGED trees \/ \E r \in Revisions : CommitApply(c, r)
  BY <1>6
  DEF Reviews, BeginReject, ReadForReject, RejectProposal, Transition, BeginApprove,
      LookupKey, ReadProposal, CheckExpiry, CheckHead, CheckData, Check, Expire, Rollback
<1>7. CASE \E c \in Clients : Crash(c)  BY <1>7 DEF Crash
<1>8. CASE DataChanges \/ \E p \in Proposals : TimeRunsOut(p)
  BY <1>8 DEF DataChanges, TimeRunsOut
<1>9. CASE UNCHANGED vars  BY <1>9 DEF vars
<1> QED
  BY <1>1, <1>2, <1>3, <1>4, <1>5, <1>6, <1>7, <1>8, <1>9 DEF Next

Lines == LinearHistory /\ TreesHaveHeads /\ PinHolds

\* A revision put on top of the head keeps the history a line.
LEMMA ExtendLine ==
    ASSUME Filled, LinearHistory, TreesHaveHeads,
           NEW t \in Trees, NEW r \in Revisions, NEW cfg,
           AppendRevision(t, r, head[t], cfg)
    PROVE  LinearHistory' /\ TreesHaveHeads'
<1> USE NoneIsNoValue
<1> /\ treeOf \in [Revisions -> Trees \cup {None}]
    /\ parent \in [Revisions -> Revisions \cup {None}]
    /\ head \in [Trees -> Revisions \cup {None}]
  BY DEF Filled, TypeOK
<1>1. /\ treeOf[r] = None
      /\ treeOf' = [treeOf EXCEPT ![r] = t]
      /\ parent' = [parent EXCEPT ![r] = head[t]]
      /\ head' = [head EXCEPT ![t] = r]
  BY DEF AppendRevision, Committed
<1>2. Committed' = Committed \cup {r}  BY <1>1 DEF Committed
<1>3. \A s \in Revisions : parent[s] # r
  BY <1>1 DEF LinearHistory, ParentsAreCommitted
<1>4. HeadsAreCommitted'
  BY <1>1 DEF LinearHistory, HeadsAreCommitted
<1>5. head[t] # None => treeOf[head[t]] = t
  BY DEF LinearHistory, HeadsAreCommitted
<1>6. ParentsAreCommitted'
  BY <1>1, <1>5 DEF LinearHistory, ParentsAreCommitted
<1>7. \A s \in Committed : treeOf[s] = t => parent[s] # head[t]
  <2>1. CASE head[t] = None
    BY <2>1 DEF TreesHaveHeads
  <2>2. CASE head[t] # None
    BY <1>5, <2>2 DEF LinearHistory, HeadIsTheOnlyLeaf, Committed
  <2> QED  BY <2>1, <2>2
<1>8. NoFork'
  BY <1>1, <1>2, <1>7 DEF LinearHistory, NoFork, Committed
<1>9. ASSUME NEW u \in Committed'
      PROVE  (u = head'[treeOf'[u]]) <=> (\A s \in Revisions : parent'[s] # u)
  <2>0. u \in Revisions  BY <1>2 DEF Committed
  <2>1. CASE u = r
    <3>1. head[t] # r  BY <1>1, <1>5
    <3>2. \A s \in Revisions : parent'[s] # r  BY <1>1, <1>3, <3>1
    <3> QED  BY <1>1, <2>1, <3>2
  <2>2. CASE u # r /\ u = head[t]
    <3>1. treeOf'[u] = t  BY <1>1, <1>5, <2>0, <2>2
    <3>2. parent'[r] = u  BY <1>1, <2>2
    <3> QED  BY <1>1, <2>2, <3>1, <3>2
  <2>3. CASE u # r /\ u # head[t]
    <3>1. u \in Committed /\ treeOf'[u] = treeOf[u]  BY <1>1, <1>2, <2>3
    <3>2. (u = head[treeOf[u]]) <=> (\A s \in Revisions : parent[s] # u)
      BY <3>1 DEF LinearHistory, HeadIsTheOnlyLeaf
    <3>3. (u = head'[treeOf'[u]]) <=> (u = head[treeOf[u]])
      BY <1>1, <2>3, <3>1 DEF Committed
    <3>4. (\A s \in Revisions : parent'[s] # u) <=> (\A s \in Revisions : parent[s] # u)
      <4>1. \A s \in Revisions : s # r => parent'[s] = parent[s]  BY <1>1
      <4>2. parent'[r] # u  BY <1>1, <2>3
      <4>3. parent[r] # u  BY <1>1, <2>3, <3>1 DEF LinearHistory, ParentsAreCommitted, Committed
      <4> QED  BY <4>1, <4>2, <4>3
    <3> QED  BY <3>2, <3>3, <3>4
  <2> QED  BY <2>1, <2>2, <2>3
<1>10. TreesHaveHeads'
  BY <1>1, <1>2 DEF TreesHaveHeads, Committed
<1> QED  BY <1>4, <1>6, <1>8, <1>9, <1>10 DEF LinearHistory, HeadIsTheOnlyLeaf

LEMMA LinesInit == Init => Lines
BY DEF Init, Lines, LinearHistory, HeadsAreCommitted, ParentsAreCommitted, NoFork,
       HeadIsTheOnlyLeaf, TreesHaveHeads, PinHolds, Committed

\* Only SaveRead reads the head a save will build on; and a fresh revision is not
\* the head that a save pinned.
LEMMA PinStep ==
    ASSUME Filled, PinHolds, [Next]_vars
    PROVE  PinHolds'
<1> SUFFICES ASSUME NEW c \in Clients, pc'[c] = "save_write", op'[c].pinned,
                    head'[op'[c].tree] = op'[c].view
             PROVE  op'[c].seen = op'[c].view
  BY DEF PinHolds
<1>1. ClientsTyped  BY ClientsTypedIn DEF Filled
<1>2. CASE SaveRead(c)
  <2> DEFINE o == [op[c] EXCEPT !.seen = head[op[c].tree]]
  <2>1. op'[c] = o /\ op[c] \in Ops /\ head' = head
    BY <1>1, <1>2 DEF SaveRead, Step, ClientsTyped, trees
  <2>2. o.seen = head[op[c].tree] /\ o.tree = op[c].tree /\ o.view = op[c].view
    BY <2>1 DEF Ops
  <2> QED  BY <2>1, <2>2
<1>3. ASSUME ~SaveRead(c)  PROVE pc[c] = "save_write" /\ op'[c] = op[c]
  <2>1. ASSUME NEW d \in Clients, NEW l, NEW o, Begin(d, l, o) \/ Step(d, l, o),
               l # "save_write"
        PROVE  pc[c] = "save_write" /\ op'[c] = op[c]
    BY <1>1, <2>1 DEF Begin, Step, ClientsTyped
  <2>2. ASSUME NEW d \in Clients, NEW a, End(d, a)
        PROVE  pc[c] = "save_write" /\ op'[c] = op[c]
    BY <1>1, <2>2 DEF End, ClientsTyped
  <2>3. ASSUME NEW d \in Editors, Edits(d)
        PROVE  pc[c] = "save_write" /\ op'[c] = op[c]
    <3>1. d \in Clients  BY DEF Clients
    <3>2. CASE SaveRead(d)
      <4>1. d # c  BY <1>3, <3>2
      <4> QED  BY <1>1, <3>1, <3>2, <4>1 DEF SaveRead, Step, ClientsTyped
    <3> QED
      BY <2>1, <2>2, <2>3, <3>1, <3>2 DEF Edits, BeginSave, SaveRevision, SaveConflict
  <2>4. ASSUME NEW d \in Producers, Produces(d)
        PROVE  pc[c] = "save_write" /\ op'[c] = op[c]
    <3>1. d \in Clients  BY DEF Clients
    <3> QED
      BY <2>1, <2>2, <2>4, <3>1
      DEF Produces, BeginProposal, LoadDataset, CreateDraft, SubmitProposal, Transition
  <2>5. ASSUME NEW d \in Reviewers, Reviews(d)
        PROVE  pc[c] = "save_write" /\ op'[c] = op[c]
    <3>1. d \in Clients  BY DEF Clients
    <3> QED
      BY <2>1, <2>2, <2>5, <3>1
      DEF Reviews, BeginReject, ReadForReject, RejectProposal, Transition, BeginApprove,
          LookupKey, ReadProposal, CheckExpiry, CheckHead, CheckData, Check, Expire,
          CommitApply, Rollback
  <2> QED
    BY <2>2, <2>3, <2>4, <2>5
    DEF Next, Crash, CreateTree, DataChanges, TimeRunsOut, vars, client
<1>4. CASE ~SaveRead(c)
  <2>1. pc[c] = "save_write" /\ op'[c] = op[c]  BY <1>3, <1>4
  <2>2. OnTree(op[c].view, op[c].tree)
    BY <2>1 DEF Filled, CallFilled, SaveLabels
  <2>3. head'[op[c].tree] = head[op[c].tree]
    <3>1. CASE UNCHANGED trees  BY <3>1 DEF trees
    <3>2. ASSUME NEW t \in Trees, NEW r \in Revisions, NEW cfg,
                 AppendRevision(t, r, head[t], cfg)
          PROVE  head'[op[c].tree] = head[op[c].tree]
      BY <2>1, <2>2, <3>2, NoneIsNoValue
      DEF AppendRevision, Committed, OnTree, Filled, TypeOK
    <3> QED  BY <3>1, <3>2, TreeStep
  <2> QED  BY <2>1, <2>3 DEF PinHolds
<1> QED  BY <1>2, <1>4

LEMMA LinesStep ==
    ASSUME Filled, Lines, [Next]_vars
    PROVE  Lines'
<1>1. PinHolds'  BY PinStep DEF Lines
<1>2. CASE UNCHANGED trees
  <2>1. LinearHistory'
    BY <1>2 DEF trees, Lines, LinearHistory, HeadsAreCommitted, ParentsAreCommitted,
                NoFork, HeadIsTheOnlyLeaf, Committed
  <2>2. TreesHaveHeads'  BY <1>2 DEF trees, Lines, TreesHaveHeads, Committed
  <2> QED  BY <1>1, <2>1, <2>2 DEF Lines
<1>3. ASSUME NEW t \in Trees, NEW r \in Revisions, NEW cfg,
             AppendRevision(t, r, head[t], cfg)
      PROVE  Lines'
  BY <1>1, <1>3, ExtendLine DEF Lines
<1> QED  BY <1>2, <1>3, TreeStep DEF Lines

\* A tree's history never forks, whatever calls run at once.
THEOREM HistoryIsLinear == Spec => []LinearHistory
<1>1. Init => Filled /\ Lines  BY FilledInit, LinesInit
<1>2. Filled /\ Lines /\ [Next]_vars => Filled' /\ Lines'  BY FilledStep, LinesStep
<1>3. Lines => LinearHistory  BY DEF Lines
<1> QED  BY <1>1, <1>2, <1>3, PTL DEF Spec

-----------------------------------------------------------------------------
(* The decisions on proposals                                              *)

\* One proposal's status moves and nothing else is written.
Moves(p, from, to) ==
    /\ status[p] = from
    /\ status' = [status EXCEPT ![p] = to]
    /\ UNCHANGED <<trees, payload, approvals>>

Opens(p)  == Moves(p, "drafting", "pending_approval")
Closes(p) == Moves(p, "pending_approval", "rejected") \/ Moves(p, "pending_approval", "expired")

\* All that a step can do to the tables of proposals and approvals.
LEMMA Effects ==
    ASSUME Filled, [Next]_vars
    PROVE  \/ UNCHANGED <<proposals, approvals>>
           \/ \E c \in Clients, p \in Proposals : CreateDraft(c, p)
           \/ \E p \in Proposals : Opens(p) \/ Closes(p)
           \/ \E c \in Clients, r \in Revisions : CommitApply(c, r)
<1> USE DEF proposals, approvals
<1>1. ASSUME NEW c \in Editors, Edits(c)  PROVE UNCHANGED <<proposals, approvals>>
  BY <1>1 DEF Edits, BeginSave, SaveRead, SaveRevision, SaveConflict
<1>2. ASSUME NEW c \in Clients, SubmitProposal(c)
      PROVE  \/ UNCHANGED <<proposals, approvals>>
             \/ \E p \in Proposals : Opens(p)
  <2>1. op[c].proposal \in Proposals  BY <1>2 DEF SubmitProposal, Filled, CallFilled
  <2>2. TransitionWins(c, "pending_approval") => status[op[c].proposal] = "drafting"
    BY LegalFrom DEF TransitionWins
  <2> QED  BY <1>2, <2>1, <2>2 DEF SubmitProposal, Transition, Opens, Moves
<1>3. ASSUME NEW c \in Clients, RejectProposal(c)
      PROVE  \/ UNCHANGED <<proposals, approvals>>
             \/ \E p \in Proposals : Closes(p)
  <2>1. op[c].proposal \in Proposals  BY <1>3 DEF RejectProposal, Filled, CallFilled
  <2>2. TransitionWins(c, "rejected") => status[op[c].proposal] = "pending_approval"
    BY LegalFrom DEF TransitionWins
  <2> QED  BY <1>3, <2>1, <2>2 DEF RejectProposal, Transition, Closes, Moves
<1>4. ASSUME NEW c \in Clients, Expire(c)
      PROVE  \/ UNCHANGED <<proposals, approvals>>
             \/ \E p \in Proposals : Closes(p)
  <2>1. op[c].proposal \in Proposals
    BY <1>4 DEF Expire, Filled, CallFilled, ApproveLabels
  <2> QED  BY <1>4, <2>1 DEF Expire, ExpireIfPending, UpdateIfPending, Closes, Moves
<1>5. ASSUME NEW c \in Producers, Produces(c)
      PROVE  \/ UNCHANGED <<proposals, approvals>>
             \/ \E p \in Proposals : CreateDraft(c, p)
             \/ SubmitProposal(c)
  BY <1>5 DEF Produces, BeginProposal, LoadDataset
<1>6. ASSUME NEW c \in Reviewers, Reviews(c)
      PROVE  \/ UNCHANGED <<proposals, approvals>>
             \/ RejectProposal(c) \/ Expire(c)
             \/ \E r \in Revisions : CommitApply(c, r)
  BY <1>6 DEF Reviews, BeginReject, ReadForReject, BeginApprove, LookupKey, ReadProposal,
              CheckExpiry, CheckHead, CheckData, Check, Rollback
<1>7. Producers \subseteq Clients /\ Reviewers \subseteq Clients  BY DEF Clients
<1> QED
  BY <1>1, <1>2, <1>3, <1>4, <1>5, <1>6, <1>7
  DEF Next, Crash, CreateTree, DataChanges, TimeRunsOut, vars

\* Once rejected, expired or applied, a proposal stays so.
THEOREM DecisionsAreFinal == Spec => DecisionIsFinal
<1> DEFINE Final == \A p \in Proposals :
                status[p] \in {"rejected", "expired", "applied"} => status'[p] = status[p]
<1>1. Filled /\ [Next]_vars => [Final]_vars
  <2> SUFFICES ASSUME Filled, [Next]_vars  PROVE Final
    OBVIOUS
  <2>1. status \in [Proposals -> Statuses \cup {"absent"}]  BY DEF Filled, TypeOK
  <2>2. CASE UNCHANGED <<proposals, approvals>>  BY <2>2 DEF proposals
  <2>3. ASSUME NEW c \in Clients, NEW p \in Proposals, CreateDraft(c, p)  PROVE Final
    BY <2>1, <2>3 DEF CreateDraft
  <2>4. ASSUME NEW p \in Proposals, Opens(p) \/ Closes(p)  PROVE Final
    BY <2>1, <2>4 DEF Opens, Closes, Moves
  <2>5. ASSUME NEW c \in Clients, NEW r \in Revisions, CommitApply(c, r)  PROVE Final
    BY <2>1, <2>5, CommitMarks DEF CommitApply, StillPending
  <2> QED  BY <2>2, <2>3, <2>4, <2>5, Effects
<1> QED  BY <1>1, AlwaysFilled, PTL DEF Spec, DecisionIsFinal

\* Besides what AuditTrailAgrees says of them, events are of applied proposals only.
EventsOfApplied == \A e \in outbox : status[e.proposal] = "applied"

Audit == AuditTrailAgrees /\ KeyBuysOneApproval /\ EventsOfApplied

\* An applied proposal stays as drafted while rows are only added.
LEMMA AppliedKept ==
    ASSUME Filled, Kept, NEW p \in Proposals, AppliedAsDrafted(p), status[p] = "applied",
           approval'[p] = approval[p], outbox \subseteq outbox'
    PROVE  AppliedAsDrafted(p)'
<1> DEFINE r == approval[p].revision
<1>1. r \in Committed /\ treeOf'[r] = treeOf[r] /\ parent'[r] = parent[r]
      /\ config'[r] = config[r]
  BY DEF AppliedAsDrafted, Kept, Committed
<1>2. payload'[p] = payload[p]  BY DEF Kept
<1>3. payload[p].base \in Revisions /\ treeOf[payload[p].base] # None
  BY NoneIsNoValue DEF Filled, PayloadFilled, OnTree
<1>4. config'[payload[p].base] = config[payload[p].base]  BY <1>3 DEF Kept
<1>5. r \in Committed'  BY <1>1 DEF Committed
<1>6. Edit(payload[p].base, payload[p].node, r)' = Edit(payload[p].base, payload[p].node, r)
  BY <1>2, <1>4 DEF Edit
<1> QED  BY <1>1, <1>2, <1>5, <1>6 DEF AppliedAsDrafted

LEMMA AuditKept ==
    ASSUME Filled, Kept, Audit, UNCHANGED approvals,
           \A p \in Proposals : (status'[p] = "applied") <=> (status[p] = "applied")
    PROVE  Audit'
<1>1. approval' = approval /\ outbox' = outbox  BY DEF approvals
<1>2. ASSUME NEW p \in Proposals
      PROVE  /\ (status[p] = "applied" <=> approval[p].key # None)'
             /\ (status[p] = "applied" => AppliedAsDrafted(p))'
  BY <1>1, AppliedKept DEF Audit, AuditTrailAgrees
<1>3. (\A e \in outbox : approval[e.proposal].revision = e.revision)'
  BY <1>1 DEF Audit, AuditTrailAgrees
<1>4. KeyBuysOneApproval'  BY <1>1 DEF Audit, KeyBuysOneApproval
<1>5. EventsOfApplied'  BY <1>1 DEF Audit, EventsOfApplied, Filled, TypeOK, Events
<1> QED  BY <1>2, <1>3, <1>4, <1>5 DEF Audit, AuditTrailAgrees

\* The transaction that applies a proposal leaves the five tables in agreement.
LEMMA CommitAudit ==
    ASSUME Filled, Kept, Audit, NEW c \in Clients, NEW r \in Revisions, CommitApply(c, r)
    PROVE  Audit'
<1> USE NoneIsNoValue
<1>a. PICK p : p = op[c].proposal  OBVIOUS
<1>b. PICK k : k = op[c].key  OBVIOUS
<1>c. PICK target : target = payload[p]  OBVIOUS
<1>1. /\ pc[c] = "commit" /\ StillPending(c) /\ RowIsUnique(c)
      /\ AppendRevision(target.tree, r, target.base, Edit(target.base, target.node, r))
      /\ approval' = [approval EXCEPT ![p] = [key |-> k, revision |-> r]]
      /\ status' = [status EXCEPT ![p] = "applied"]
      /\ outbox' = outbox \cup {[proposal |-> p, revision |-> r]}
      /\ payload' = payload
  BY <1>a, <1>b, <1>c, CommitMarks DEF CommitApply
<1>2. p \in Proposals /\ k \in Keys
  BY <1>1, <1>a, <1>b DEF Filled, CallFilled, ApproveLabels
<1>3. status[p] = "pending_approval"  BY <1>1, <1>a DEF StillPending
<1>4. OnTree(target.base, target.tree)
  BY <1>2, <1>3, <1>c DEF Filled, PayloadFilled
<1>5. /\ status'[p] = "applied" /\ approval'[p] = [key |-> k, revision |-> r]
      /\ \A q \in Proposals : q # p => status'[q] = status[q] /\ approval'[q] = approval[q]
  BY <1>1, <1>2 DEF Filled, TypeOK
<1>6. AppliedAsDrafted(p)'
  <2>1. r # target.base  BY <1>1, <1>4 DEF AppendRevision, Committed, OnTree
  <2>2. config'[target.base] = config[target.base]  BY <1>4 DEF Kept, OnTree
  <2>3. /\ treeOf'[r] = target.tree /\ parent'[r] = target.base
        /\ config'[r] = Edit(target.base, target.node, r)
    BY <1>1 DEF AppendRevision, Filled, TypeOK
  <2>4. r \in Committed'  BY <1>4, <2>3 DEF Committed, OnTree
  <2>5. approval'[p].revision = r  BY <1>5
  <2>6. Edit(target.base, target.node, r)' = Edit(target.base, target.node, r)
    BY <1>1, <2>2 DEF Edit
  <2>7. [proposal |-> p, revision |-> r] \in outbox'  BY <1>1
  <2> QED
    BY <1>1, <1>c, <1>5, <2>3, <2>4, <2>5, <2>6, <2>7 DEF AppliedAsDrafted
<1>7. ASSUME NEW q \in Proposals
      PROVE  /\ (status[q] = "applied" <=> approval[q].key # None)'
             /\ (status[q] = "applied" => AppliedAsDrafted(q))'
  <2>1. CASE q = p  BY <1>2, <1>5, <1>6, <2>1
  <2>2. CASE q # p
    BY <1>1, <1>5, <2>2, AppliedKept DEF Audit, AuditTrailAgrees
  <2> QED  BY <2>1, <2>2
<1>8. ASSUME NEW e \in outbox'
      PROVE  approval'[e.proposal].revision = e.revision /\ status'[e.proposal] = "applied"
  <2>1. CASE e = [proposal |-> p, revision |-> r]  BY <1>5, <2>1
  <2>2. CASE e \in outbox
    <3>1. e.proposal \in Proposals /\ status[e.proposal] = "applied"
      BY <2>2 DEF Audit, EventsOfApplied, Filled, TypeOK, Events
    <3>2. e.proposal # p  BY <1>3, <3>1
    <3> QED  BY <1>5, <2>2, <3>1, <3>2 DEF Audit, AuditTrailAgrees
  <2> QED  BY <1>1, <2>1, <2>2
<1>9. KeyBuysOneApproval'
  BY <1>1, <1>5, <1>b DEF RowIsUnique, Audit, KeyBuysOneApproval
<1> QED  BY <1>7, <1>8, <1>9 DEF Audit, AuditTrailAgrees, EventsOfApplied

LEMMA AuditStep ==
    ASSUME Filled, Audit, [Next]_vars
    PROVE  Audit'
<1>0. Kept  BY FilledStep
<1>1. status \in [Proposals -> Statuses \cup {"absent"}]  BY DEF Filled, TypeOK
<1>2. CASE UNCHANGED <<proposals, approvals>>
  BY <1>0, <1>2, AuditKept DEF proposals
<1>3. ASSUME NEW c \in Clients, NEW p \in Proposals, CreateDraft(c, p)  PROVE Audit'
  <2>1. \A q \in Proposals : (status'[q] = "applied") <=> (status[q] = "applied")
    BY <1>1, <1>3 DEF CreateDraft
  <2> QED  BY <1>0, <1>3, <2>1, AuditKept DEF CreateDraft
<1>4. ASSUME NEW p \in Proposals, Opens(p) \/ Closes(p)  PROVE Audit'
  <2>1. \A q \in Proposals : (status'[q] = "applied") <=> (status[q] = "applied")
    BY <1>1, <1>4 DEF Opens, Closes, Moves
  <2> QED  BY <1>0, <1>4, <2>1, AuditKept DEF Opens, Closes, Moves
<1>5. ASSUME NEW c \in Clients, NEW r \in Revisions, CommitApply(c, r)  PROVE Audit'
  BY <1>0, <1>5, CommitAudit
<1> QED  BY <1>2, <1>3, <1>4, <1>5, Effects

LEMMA AuditInit == Init => Audit
BY DEF Init, Audit, AuditTrailAgrees, KeyBuysOneApproval, EventsOfApplied

\* The five tables always agree about what was applied.
THEOREM AuditTrailAlwaysAgrees == Spec => []AuditTrailAgrees
<1>1. Init => Filled /\ Audit  BY FilledInit, AuditInit
<1>2. Filled /\ Audit /\ [Next]_vars => Filled' /\ Audit'  BY FilledStep, AuditStep
<1>3. Audit => AuditTrailAgrees  BY DEF Audit
<1> QED  BY <1>1, <1>2, <1>3, PTL DEF Spec

\* An idempotency key never buys a second approval.
THEOREM KeysBuyOneApproval == Spec => []KeyBuysOneApproval
<1>1. Init => Filled /\ Audit  BY FilledInit, AuditInit
<1>2. Filled /\ Audit /\ [Next]_vars => Filled' /\ Audit'  BY FilledStep, AuditStep
<1>3. Audit => KeyBuysOneApproval  BY DEF Audit
<1> QED  BY <1>1, <1>2, <1>3, PTL DEF Spec

-----------------------------------------------------------------------------
(* The refinement of AtomicApproval                                        *)

\* How the statuses look from AtomicApproval.
LEMMA Decisions ==
    /\ Decision("absent") = "none"
    /\ Decision("drafting") = "drafted"
    /\ Decision("pending_approval") = "open"
    /\ Decision("applied") = "applied"
    /\ Decision("rejected") = "closed"
    /\ Decision("expired") = "closed"
BY DEF Decision

decision == [p \in Proposals |-> Decision(status[p])]
bases    == [p \in Proposals |-> payload[p].base]

LEMMA DecisionMoves ==
    ASSUME Filled, NEW p \in Proposals, NEW to, status' = [status EXCEPT ![p] = to]
    PROVE  decision' = [decision EXCEPT ![p] = Decision(to)]
BY DEF decision, Filled, TypeOK

LEMMA AtomicInit == Init => Atomic!Init
BY Decisions DEF Init, Atomic!Init

\* Every step is a step of AtomicApproval or leaves what it sees alone.
LEMMA AtomicStep ==
    ASSUME Filled, Lines, [Next]_vars
    PROVE  [Atomic!Next]_(Atomic!vars)
<1>1. CASE UNCHANGED <<proposals, approvals>>
  <2>1. CASE UNCHANGED trees
    BY <1>1, <2>1 DEF Atomic!vars, trees, proposals, approvals
  <2>2. ASSUME NEW t \in Trees, NEW r \in Revisions, NEW cfg,
               AppendRevision(t, r, head[t], cfg)
        PROVE  Atomic!Next
    <3>1. Atomic!Extend(t, r)
      BY <2>2 DEF AppendRevision, Committed, Atomic!Extend
    <3>2. Atomic!Save(t, r)
      BY <1>1, <3>1 DEF Atomic!Save, proposals, approvals
    <3> QED  BY <3>2 DEF Atomic!Next
  <2> QED  BY <2>1, <2>2, TreeStep DEF Lines
<1>2. ASSUME NEW c \in Clients, NEW p \in Proposals, CreateDraft(c, p)
      PROVE  Atomic!Next
  <2>a. PICK b : b = op[c].seen  OBVIOUS
  <2>d. PICK read \in Coverage :
           payload' = [payload EXCEPT ![p] =
                         [tree |-> op[c].tree, base |-> op[c].seen, node |-> op[c].node,
                          dataset |-> op[c].dataset, fingerprint |-> read]]
    BY <1>2 DEF CreateDraft
  <2>c. PICK row : row = [tree |-> op[c].tree, base |-> op[c].seen, node |-> op[c].node,
                          dataset |-> op[c].dataset, fingerprint |-> read]
    OBVIOUS
  <2>b. /\ pc[c] = "draft" /\ status[p] = "absent"
        /\ status' = [status EXCEPT ![p] = "drafting"]
        /\ payload' = [payload EXCEPT ![p] = row] /\ row.base = b
        /\ UNCHANGED <<trees, approvals>>
    BY <1>2, <2>a, <2>c, <2>d DEF CreateDraft
  <2>1. b \in Revisions /\ treeOf[b] # None
    BY <2>a, <2>b, NoneIsNoValue DEF Filled, CallFilled, DraftLabels, OnTree
  <2>2. decision' = [decision EXCEPT ![p] = "drafted"] /\ decision[p] = "none"
    <3>1. decision' = [decision EXCEPT ![p] = Decision("drafting")]
      BY <2>b, DecisionMoves
    <3>2. decision[p] = Decision("absent")  BY <2>b DEF decision
    <3> QED  BY <3>1, <3>2, Decisions
  <2>3. bases' = [bases EXCEPT ![p] = b]
    BY <2>b DEF bases, Filled, TypeOK
  <2>4. Atomic!Draft(p, b)
    BY <2>b, <2>1, <2>2, <2>3
    DEF Atomic!Draft, trees, approvals, decision, bases
  <2> QED  BY <2>1, <2>4 DEF Atomic!Next
<1>3. ASSUME NEW p \in Proposals, Opens(p)  PROVE Atomic!Next
  <2>1. decision' = [decision EXCEPT ![p] = "open"] /\ decision[p] = "drafted"
    <3>1. decision' = [decision EXCEPT ![p] = Decision("pending_approval")]
      BY <1>3, DecisionMoves DEF Opens, Moves
    <3>2. decision[p] = Decision("drafting")  BY <1>3 DEF Opens, Moves, decision
    <3> QED  BY <3>1, <3>2, Decisions
  <2>2. Atomic!Decide(p, "drafted", "open")
    BY <1>3, <2>1 DEF Opens, Moves, Atomic!Decide, trees, approvals, decision
  <2> QED  BY <2>2 DEF Atomic!Next
<1>4. ASSUME NEW p \in Proposals, Closes(p)  PROVE Atomic!Next
  <2>1. decision' = [decision EXCEPT ![p] = "closed"] /\ decision[p] = "open"
    <3>1. \/ decision' = [decision EXCEPT ![p] = Decision("rejected")]
          \/ decision' = [decision EXCEPT ![p] = Decision("expired")]
      BY <1>4, DecisionMoves DEF Closes, Moves
    <3>2. decision[p] = Decision("pending_approval")
      BY <1>4 DEF Closes, Moves, decision
    <3> QED  BY <3>1, <3>2, Decisions
  <2>2. Atomic!Decide(p, "open", "closed")
    BY <1>4, <2>1 DEF Closes, Moves, Atomic!Decide, trees, approvals, decision
  <2> QED  BY <2>2 DEF Atomic!Next
<1>5. ASSUME NEW c \in Clients, NEW r \in Revisions, CommitApply(c, r)
      PROVE  Atomic!Next
  <2>a. PICK p : p = op[c].proposal  OBVIOUS
  <2>b. PICK k : k = op[c].key  OBVIOUS
  <2>c. PICK target : target = payload[p]  OBVIOUS
  <2>1. /\ pc[c] = "commit" /\ HeadUnmoved(c) /\ StillPending(c) /\ RowIsUnique(c)
        /\ AppendRevision(target.tree, r, target.base, Edit(target.base, target.node, r))
        /\ approval' = [approval EXCEPT ![p] = [key |-> k, revision |-> r]]
        /\ status' = [status EXCEPT ![p] = "applied"]
        /\ payload' = payload
    BY <1>5, <2>a, <2>b, <2>c, CommitMarks DEF CommitApply
  <2>2. p \in Proposals /\ k \in Keys
    BY <2>1, <2>a, <2>b DEF Filled, CallFilled, ApproveLabels
  <2>3. status[p] = "pending_approval"  BY <2>1, <2>a DEF StillPending
  <2>4. OnTree(target.base, target.tree)
    BY <2>2, <2>3, <2>c DEF Filled, PayloadFilled
  <2>5. head[target.tree] = target.base
    BY <2>1, <2>a, <2>c DEF HeadUnmoved
  <2>6. decision' = [decision EXCEPT ![p] = "applied"] /\ decision[p] = "open"
    <3>1. decision' = [decision EXCEPT ![p] = Decision("applied")]
      BY <2>1, <2>2, DecisionMoves
    <3>2. decision[p] = Decision("pending_approval")  BY <2>2, <2>3 DEF decision
    <3> QED  BY <3>1, <3>2, Decisions
  <2>7. bases' = bases /\ bases[p] = target.base  BY <2>1, <2>2, <2>c DEF bases
  <2>8. Atomic!Extend(target.tree, r)
    BY <2>1, <2>5 DEF AppendRevision, Committed, Atomic!Extend
  <2>9. \A q \in Proposals : approval[q].key # k
    BY <2>1, <2>b DEF RowIsUnique
  <2>10. Atomic!Apply(p, k, target.tree, r)
    BY <2>1, <2>4, <2>5, <2>6, <2>7, <2>8, <2>9 DEF Atomic!Apply, OnTree, decision, bases
  <2> QED  BY <2>2, <2>4, <2>10 DEF Atomic!Next, OnTree
<1> QED  BY <1>1, <1>2, <1>3, <1>4, <1>5, Effects

\* Every interleaving of calls is one of calls that took effect at once or not at all.
THEOREM Refinement == Spec => ImplementsAtomicApproval
<1>1. Init => Filled /\ Lines  BY FilledInit, LinesInit
<1>2. Filled /\ Lines /\ [Next]_vars => Filled' /\ Lines'  BY FilledStep, LinesStep
<1>3. Filled /\ Lines /\ [Next]_vars => [Atomic!Next]_(Atomic!vars)  BY AtomicStep
<1> QED
  BY <1>1, <1>2, <1>3, AtomicInit, PTL
  DEF Spec, ImplementsAtomicApproval, Atomic!Spec

-----------------------------------------------------------------------------
(* A call of apply_proposal on its way                                     *)

Successes == {"applied", "replayed"}

\* What the checks a call has passed have told it, and what an error will say.
CallChecked(c) ==
    /\ pc[c] \in ApproveLabels =>
         op[c].since <= data /\ (op[c].late => op[c].proposal \in past)
    /\ pc[c] \in {"head", "data", "commit"} => ~op[c].late
    /\ pc[c] = "commit" =>
         \/ payload[op[c].proposal].fingerprint = Unavailable
         \/ payload[op[c].proposal].fingerprint >= op[c].since
    /\ pc[c] = "expire" => op[c].reason \notin Successes

Checked == \A c \in Clients : CallChecked(c)

\* The steps of a client that can lead it to, or on within, apply_proposal.
Proceeds(c) ==
    \/ \E p, card \in Proposals, k \in Keys : BeginApprove(c, p, k, card)
    \/ LookupKey(c) \/ ReadProposal(c)
    \/ CheckExpiry(c) \/ CheckHead(c) \/ CheckData(c)

\* Whatever another client does leaves a call where it is.
LEMMA OthersMove ==
    ASSUME ClientsTyped, NEW c \in Clients, NEW d \in Clients, d # c,
           NEW l, NEW o, NEW a, Begin(d, l, o) \/ Step(d, l, o) \/ End(d, a)
    PROVE  pc'[c] = pc[c] /\ op'[c] = op[c] /\ answer'[c] = answer[c]
BY DEF ClientsTyped, Begin, Step, End

\* A step that begins, goes on or ends as said leaves the other calls alone.
Acts(d) == \E l, o, a : Begin(d, l, o) \/ Step(d, l, o) \/ End(d, a)

LEMMA EveryStepActs ==
    ASSUME [Next]_vars
    PROVE  \/ UNCHANGED client
           \/ \E d \in Clients :
                /\ Acts(d)
                /\ \/ d \in Editors /\ Edits(d)
                   \/ d \in Producers /\ Produces(d)
                   \/ d \in Reviewers /\ Reviews(d)
                   \/ Crash(d)
<1>1. ASSUME NEW d \in Editors, Edits(d)  PROVE Acts(d)
  BY <1>1 DEF Edits, BeginSave, SaveRead, SaveRevision, SaveConflict, Acts
<1>2. ASSUME NEW d \in Producers, Produces(d)  PROVE Acts(d)
  BY <1>2 DEF Produces, BeginProposal, LoadDataset, CreateDraft, SubmitProposal, Transition, Acts
<1>3. ASSUME NEW d \in Reviewers, Reviews(d)  PROVE Acts(d)
  BY <1>3
  DEF Reviews, BeginReject, ReadForReject, RejectProposal, Transition, BeginApprove,
      LookupKey, ReadProposal, CheckExpiry, CheckHead, CheckData, Check, Expire,
      CommitApply, Rollback, Acts
<1>4. ASSUME NEW d \in Clients, Crash(d)  PROVE Acts(d)
  BY <1>4 DEF Crash, Acts
<1>5. Editors \subseteq Clients /\ Producers \subseteq Clients /\ Reviewers \subseteq Clients
  BY DEF Clients
<1> QED
  BY <1>1, <1>2, <1>3, <1>4, <1>5
  DEF Next, CreateTree, DataChanges, TimeRunsOut, vars, client

LEMMA Proceeding ==
    ASSUME ClientsTyped, [Next]_vars, NEW c \in Clients
    PROVE  \/ pc'[c] = pc[c] /\ op'[c] = op[c]
           \/ pc'[c] \notin ApproveLabels
           \/ Proceeds(c)
<1> USE DEF ApproveLabels
<1>1. CASE UNCHANGED client  BY <1>1 DEF client
<1>2. ASSUME NEW d \in Clients, d # c, Acts(d)  PROVE pc'[c] = pc[c] /\ op'[c] = op[c]
  BY <1>2, OthersMove DEF Acts
<1>3. CASE Edits(c) \/ Produces(c) \/ Crash(c)
  BY <1>3
  DEF ClientsTyped, Edits, BeginSave, SaveRead, SaveRevision, SaveConflict, Produces,
      BeginProposal, LoadDataset, CreateDraft, SubmitProposal, Transition, Crash,
      Begin, Step, End
<1>4. CASE Reviews(c) /\ ~Proceeds(c)
  BY <1>4
  DEF ClientsTyped, Reviews, Proceeds, BeginReject, ReadForReject, RejectProposal,
      Transition, Expire, CommitApply, Rollback, Begin, Step, End
<1> QED  BY <1>1, <1>2, <1>3, <1>4, EveryStepActs

\* Versions and time only grow.
LEMMA WorldGrows ==
    ASSUME Filled, [Next]_vars
    PROVE  data \in Nat /\ data' \in Nat /\ data <= data' /\ past \subseteq past'
<1>1. data \in Nat  BY MaxDataIsNat DEF Filled, TypeOK
<1>2. CASE UNCHANGED world  BY <1>1, <1>2 DEF world
<1>3. CASE DataChanges  BY <1>1, <1>3 DEF DataChanges
<1>4. CASE \E p \in Proposals : TimeRunsOut(p)  BY <1>1, <1>4 DEF TimeRunsOut
<1>5. ASSUME NEW c \in Clients, Edits(c) \/ Produces(c) \/ Reviews(c) \/ Crash(c)
      PROVE  UNCHANGED world
  BY <1>5
  DEF Edits, BeginSave, SaveRead, SaveRevision, SaveConflict, Produces, BeginProposal,
      LoadDataset, CreateDraft, SubmitProposal, Reviews, BeginReject, ReadForReject,
      RejectProposal, Transition, BeginApprove, LookupKey, ReadProposal, CheckExpiry,
      CheckHead, CheckData, Check, Expire, CommitApply, Rollback, Crash
<1>6. Editors \subseteq Clients /\ Producers \subseteq Clients /\ Reviewers \subseteq Clients
  BY DEF Clients
<1>7. CASE \E t \in Trees, r \in Revisions : CreateTree(t, r)
  BY <1>2, <1>7 DEF CreateTree
<1> QED
  BY <1>2, <1>3, <1>4, <1>5, <1>6, <1>7 DEF Next, vars

\* A call that goes on learns from the step it takes.
LEMMA CheckedStep ==
    ASSUME Filled, Checked, [Next]_vars, NEW c \in Clients
    PROVE  CallChecked(c)'
<1> USE DEF ApproveLabels, Successes
<1>0. ClientsTyped  BY ClientsTypedIn DEF Filled
<1>1. data \in Nat /\ data' \in Nat /\ data <= data' /\ past \subseteq past'
  BY WorldGrows
<1>2. Kept  BY FilledStep
<1>3. op[c] \in Ops /\ CallFilled(c) /\ CallChecked(c)
  BY <1>0 DEF ClientsTyped, Filled, Checked
<1>4. op[c].since \in Nat  BY <1>3, MaxDataIsNat DEF Ops
<1>5. CASE pc'[c] = pc[c] /\ op'[c] = op[c]
  <2>1. pc[c] = "commit" => payload'[op[c].proposal] = payload[op[c].proposal]
    BY <1>2, <1>3 DEF CallFilled, Kept
  <2>2. pc[c] \in ApproveLabels => op[c].since <= data'
    BY <1>1, <1>3, <1>4 DEF CallChecked
  <2> QED  BY <1>1, <1>3, <1>5, <2>1, <2>2 DEF CallChecked
<1>6. CASE pc'[c] \notin ApproveLabels
  BY <1>6 DEF CallChecked
<1>7. ASSUME NEW p \in Proposals, NEW card \in Proposals, NEW k \in Keys,
             BeginApprove(c, p, k, card)
      PROVE  CallChecked(c)'
  <2> DEFINE o == [Blank EXCEPT !.proposal = p, !.key = k, !.card = card,
                                !.since = data, !.late = (p \in past)]
  <2>1. pc'[c] = "lookup" /\ op'[c] = o /\ data' = data /\ past' = past
    BY <1>0, <1>7 DEF BeginApprove, Begin, ClientsTyped, world
  <2>2. o.since = data /\ o.late = (p \in past) /\ o.proposal = p
    BY DEF Blank
  <2> QED  BY <1>1, <2>1, <2>2 DEF CallChecked
<1>8. CASE LookupKey(c) \/ ReadProposal(c)
  <2>1. \/ pc'[c] = "idle"
        \/ pc[c] = "lookup" /\ pc'[c] = "read" /\ op'[c] = op[c]
        \/ pc[c] = "read" /\ pc'[c] = "expiry" /\ op'[c] = op[c]
    BY <1>0, <1>8 DEF LookupKey, ReadProposal, End, Step, ClientsTyped
  <2>2. data' = data /\ past' = past
    BY <1>8 DEF LookupKey, ReadProposal, world
  <2> QED  BY <1>3, <2>1, <2>2 DEF CallChecked
<1>9. ASSUME NEW ok \in BOOLEAN, NEW l \in {"head", "data", "commit"}, NEW code \in Codes,
             Check(c, ok, l, code), code \notin Successes, pc[c] \in ApproveLabels,
             ok => ~op[c].late,
             ok /\ l = "commit" =>
               \/ payload[op[c].proposal].fingerprint = Unavailable
               \/ payload[op[c].proposal].fingerprint >= op[c].since
      PROVE  CallChecked(c)'
  <2>1. data' = data /\ past' = past /\ payload' = payload
    BY <1>9 DEF Check, world, proposals
  <2>2. CASE ok /\ Step(c, l, op[c])
    <3>1. pc'[c] = l /\ op'[c] = op[c]
      BY <1>0, <2>2 DEF Step, ClientsTyped
    <3> QED  BY <1>3, <1>9, <2>1, <2>2, <3>1 DEF CallChecked
  <2>3. CASE Step(c, "expire", [op[c] EXCEPT !.reason = code])
    <3> DEFINE o == [op[c] EXCEPT !.reason = code]
    <3>1. pc'[c] = "expire" /\ op'[c] = o
      BY <1>0, <2>3 DEF Step, ClientsTyped
    <3>2. /\ o.reason = code /\ o.since = op[c].since
          /\ o.late = op[c].late /\ o.proposal = op[c].proposal
      BY <1>3 DEF Ops
    <3> HIDE DEF o
    <3> QED  BY <1>3, <1>9, <2>1, <3>1, <3>2 DEF CallChecked
  <2> QED  BY <1>9, <2>2, <2>3 DEF Check
<1>10. CASE CheckExpiry(c)
  <2>1. op[c].proposal \notin past => ~op[c].late
    BY <1>3, <1>10 DEF CheckExpiry, CallChecked
  <2> QED  BY <1>9, <1>10, <2>1 DEF CheckExpiry, Codes
<1>11. CASE CheckHead(c)
  <2>1. ~op[c].late  BY <1>3, <1>11 DEF CheckHead, CallChecked
  <2> QED  BY <1>9, <1>11, <2>1 DEF CheckHead, Codes
<1>12. CASE CheckData(c)
  <2>1. pc[c] = "data"  BY <1>12 DEF CheckData
  <2>2. PICK seen \in Coverage : Check(c, DataUnchanged(c, seen), "commit", "stale_data")
    BY <1>12 DEF CheckData
  <2>3. seen = data \/ seen = Unavailable  BY <2>2 DEF Coverage
  <2>4. DataUnchanged(c, seen) =>
           \/ payload[op[c].proposal].fingerprint = Unavailable
           \/ payload[op[c].proposal].fingerprint >= op[c].since
    BY <1>1, <1>3, <1>4, <2>1, <2>3 DEF DataUnchanged, CallChecked
  <2>5. ~op[c].late  BY <1>3, <2>1 DEF CallChecked
  <2>6. DataUnchanged(c, seen) \in BOOLEAN  BY DEF DataUnchanged
  <2> QED  BY <1>9, <2>1, <2>2, <2>4, <2>5, <2>6 DEF Codes
<1> QED  BY <1>0, <1>5, <1>6, <1>7, <1>8, <1>10, <1>11, <1>12, Proceeding DEF Proceeds

LEMMA CheckedInit == Init => Checked
BY DEF Init, Checked, CallChecked, ApproveLabels

\* What a call that is under way knows: it was in time when it passed step 3, the data
\* were as drafted when it passed step 6, and an error never says that it succeeded.
THEOREM AlwaysChecked == Spec => [](Filled /\ Checked)
<1>1. Init => Filled /\ Checked  BY FilledInit, CheckedInit
<1>2. Filled /\ Checked /\ [Next]_vars => Filled' /\ Checked'
  BY FilledStep, CheckedStep DEF Checked
<1> QED  BY <1>1, <1>2, PTL DEF Spec

\* A proposal is applied only in time, and only on data no older than its approval saw:
\* steps 3 and 6 of apply_proposal, though the commit repeats neither.
THEOREM ApprovalsAreFresh == Spec => NoStaleApproval
<1> DEFINE Fresh == \A p \in Proposals : status[p] # "applied" /\ status'[p] = "applied" =>
                \E c \in Clients :
                   /\ pc[c] = "commit" /\ op[c].proposal = p
                   /\ ~op[c].late
                   /\ \/ payload[p].fingerprint = Unavailable
                      \/ payload[p].fingerprint >= op[c].since
<1>1. Filled /\ Checked /\ [Next]_vars => [Fresh]_vars
  <2> SUFFICES ASSUME Filled, Checked, [Next]_vars,
                      NEW p \in Proposals, status[p] # "applied", status'[p] = "applied"
               PROVE  \E c \in Clients :
                         /\ pc[c] = "commit" /\ op[c].proposal = p
                         /\ ~op[c].late
                         /\ \/ payload[p].fingerprint = Unavailable
                            \/ payload[p].fingerprint >= op[c].since
    OBVIOUS
  <2>1. status \in [Proposals -> Statuses \cup {"absent"}]  BY DEF Filled, TypeOK
  <2>2. ASSUME NEW c \in Clients, NEW q \in Proposals, CreateDraft(c, q)  PROVE FALSE
    BY <2>1, <2>2 DEF CreateDraft
  <2>3. ASSUME NEW q \in Proposals, Opens(q) \/ Closes(q)  PROVE FALSE
    BY <2>1, <2>3 DEF Opens, Closes, Moves
  <2>4. PICK c \in Clients, r \in Revisions : CommitApply(c, r)
    BY <2>2, <2>3, Effects DEF proposals
  <2>5. pc[c] = "commit" /\ op[c].proposal = p
    BY <2>1, <2>4, CommitMarks DEF CommitApply
  <2> QED  BY <2>5 DEF Checked, CallChecked
<1> QED  BY <1>1, AlwaysChecked, PTL DEF Spec, NoStaleApproval

-----------------------------------------------------------------------------
(* What a call answered                                                    *)

\* An answer of success names a proposal, and what the tables hold of it.
True(a) ==
    a.code \in Successes =>
        /\ a.proposal \in Proposals
        /\ status[a.proposal] = "applied"
        /\ approval[a.proposal] = [key |-> a.key, revision |-> a.revision]
        /\ a.revision \in Committed

Truthful == \A c \in Clients : True(answer[c])

\* What is applied stays applied, by the same approval row.
LEMMA AppliedStays ==
    ASSUME Filled, [Next]_vars, NEW p \in Proposals, status[p] = "applied"
    PROVE  status'[p] = "applied" /\ approval'[p] = approval[p]
<1>1. status \in [Proposals -> Statuses \cup {"absent"}] /\ approval \in [Proposals -> Approvals]
  BY DEF Filled, TypeOK
<1>2. CASE UNCHANGED <<proposals, approvals>>  BY <1>2 DEF proposals, approvals
<1>3. ASSUME NEW c \in Clients, NEW q \in Proposals, CreateDraft(c, q)
      PROVE  status'[p] = "applied" /\ approval'[p] = approval[p]
  BY <1>1, <1>3 DEF CreateDraft, approvals
<1>4. ASSUME NEW q \in Proposals, Opens(q) \/ Closes(q)
      PROVE  status'[p] = "applied" /\ approval'[p] = approval[p]
  BY <1>1, <1>4 DEF Opens, Closes, Moves, approvals
<1>5. ASSUME NEW c \in Clients, NEW r \in Revisions, CommitApply(c, r)
      PROVE  status'[p] = "applied" /\ approval'[p] = approval[p]
  BY <1>1, <1>5, CommitMarks DEF CommitApply, StillPending
<1> QED  BY <1>2, <1>3, <1>4, <1>5, Effects

LEMMA TruthLasts ==
    ASSUME Filled, [Next]_vars, NEW a, True(a)
    PROVE  True(a)'
<1>1. Kept  BY FilledStep
<1>2. \A r \in Committed : r \in Committed'
  BY <1>1 DEF Kept, Committed
<1> QED  BY <1>2, AppliedStays DEF True

\* Only two steps answer with a success: the commit, and the look at the key.
LEMMA Answering ==
    ASSUME ClientsTyped, Checked, [Next]_vars, NEW c \in Clients
    PROVE  \/ answer'[c] = answer[c]
           \/ answer'[c].code \notin Successes
           \/ LookupKey(c)
           \/ \E r \in Revisions : CommitApply(c, r)
<1> USE DEF Successes
<1>1. CASE UNCHANGED client  BY <1>1 DEF client
<1>2. ASSUME NEW d \in Clients, d # c, Acts(d)  PROVE answer'[c] = answer[c]
  BY <1>2, OthersMove DEF Acts
<1>3. ASSUME NEW a, End(c, a), a.code \notin Successes
      PROVE  answer'[c].code \notin Successes
  BY <1>3 DEF ClientsTyped, End
<1>4. ASSUME NEW l, NEW o, Begin(c, l, o) \/ Step(c, l, o)
      PROVE  answer'[c] = answer[c] \/ answer'[c].code \notin Successes
  BY <1>4 DEF ClientsTyped, Begin, Step, NoAnswer
<1>5. NoAnswer.code \notin Successes  BY DEF NoAnswer
<1>6. CASE Edits(c) \/ Produces(c) \/ Crash(c)
  BY <1>3, <1>4, <1>5, <1>6
  DEF Edits, BeginSave, SaveRead, SaveRevision, SaveConflict, Produces, BeginProposal,
      LoadDataset, CreateDraft, SubmitProposal, Transition, Crash
<1>7. CASE Expire(c) \/ Rollback(c) \/ ReadProposal(c)
  <2>1. ASSUME NEW code, code \notin Successes  PROVE Refused(c, code).code \notin Successes
    BY <2>1 DEF Refused
  <2>2. pc[c] = "expire" => op[c].reason \notin Successes
    BY DEF Checked, CallChecked
  <2>3. RollbackAnswer(c).code \notin Successes  BY <2>1 DEF RollbackAnswer
  <2> QED  BY <1>3, <1>4, <1>7, <2>1, <2>2, <2>3 DEF Expire, Rollback, ReadProposal
<1>8. CASE Reviews(c)
  BY <1>3, <1>4, <1>5, <1>7, <1>8
  DEF Reviews, BeginReject, ReadForReject, RejectProposal, Transition, BeginApprove,
      CheckExpiry, CheckHead, CheckData, Check
<1> QED  BY <1>1, <1>2, <1>6, <1>8, EveryStepActs

LEMMA TruthfulStep ==
    ASSUME Filled, Audit, Checked, Truthful, [Next]_vars
    PROVE  Truthful'
<1> SUFFICES ASSUME NEW c \in Clients  PROVE True(answer[c])'
  BY DEF Truthful
<1> USE DEF Successes
<1>0. ClientsTyped  BY ClientsTypedIn DEF Filled
<1>1. CASE answer'[c] = answer[c]
  BY <1>1, TruthLasts DEF Truthful, True
<1>2. CASE answer'[c].code \notin Successes  BY <1>2 DEF True
<1>3. CASE LookupKey(c)
  <2>1. CASE answer'[c] = answer[c]  BY <1>1, <2>1
  <2>2. CASE answer'[c] # answer[c]
    <3>1. PICK q \in Proposals :
            /\ approval[q].key = op[c].key
            /\ answer'[c] = [code |-> "replayed", proposal |-> q, key |-> op[c].key,
                             revision |-> approval[q].revision]
      BY <1>0, <1>3, <2>2 DEF LookupKey, End, Step, ClientsTyped
    <3>2. op[c].key # None
      BY <1>3, NoneIsNoValue DEF LookupKey, Filled, CallFilled, ApproveLabels
    <3>3. status[q] = "applied" /\ approval[q].revision \in Committed
      BY <3>1, <3>2 DEF Audit, AuditTrailAgrees, AppliedAsDrafted
    <3>4. approval[q] = [key |-> op[c].key, revision |-> approval[q].revision]
      BY <3>1 DEF Filled, TypeOK, Approvals
    <3>5. True(answer'[c])  BY <3>1, <3>3, <3>4 DEF True
    <3>6. UNCHANGED <<status, approval, treeOf>>
      BY <1>3 DEF LookupKey, proposals, approvals, trees
    <3> QED  BY <3>5, <3>6 DEF True, Committed
  <2> QED  BY <2>1, <2>2
<1>4. ASSUME NEW r \in Revisions, CommitApply(c, r)  PROVE True(answer[c])'
  <2> DEFINE p == op[c].proposal
  <2>1. p \in Proposals /\ status[p] = "pending_approval"
    BY <1>4 DEF CommitApply, StillPending, Filled, CallFilled, ApproveLabels
  <2>2. answer'[c] = [code |-> "applied", proposal |-> p, key |-> op[c].key, revision |-> r]
    BY <1>0, <1>4 DEF CommitApply, End, ClientsTyped
  <2>3. status'[p] = "applied" /\ approval'[p] = [key |-> op[c].key, revision |-> r]
    <3>1. /\ status' = [status EXCEPT ![p] = "applied"]
          /\ approval' = [approval EXCEPT ![p] = [key |-> op[c].key, revision |-> r]]
      BY <1>4, CommitMarks DEF CommitApply
    <3> HIDE DEF p
    <3> QED  BY <2>1, <3>1 DEF Filled, TypeOK
  <2>4. r \in Committed'
    BY <1>4, <2>1, NoneIsNoValue
    DEF CommitApply, AppendRevision, Committed, Filled, TypeOK, PayloadFilled, OnTree
  <2> QED  BY <2>1, <2>2, <2>3, <2>4 DEF True
<1> QED  BY <1>0, <1>1, <1>2, <1>3, <1>4, Answering

LEMMA TruthfulInit == Init => Truthful
BY DEF Init, Truthful, True, NoAnswer, Successes

\* A caller told that its approval succeeded, now or earlier with the same key, was told
\* the truth for good: apply_proposal answers after its commit, and rows stay.
THEOREM SuccessLasts == Spec => []SuccessIsDurable
<1>1. Init => Filled /\ Audit /\ Checked /\ Truthful
  BY FilledInit, AuditInit, CheckedInit, TruthfulInit
<1>2. Filled /\ Audit /\ Checked /\ Truthful /\ [Next]_vars =>
        Filled' /\ Audit' /\ Checked' /\ Truthful'
  BY FilledStep, AuditStep, CheckedStep, TruthfulStep DEF Checked
<1>3. Truthful => SuccessIsDurable
  BY DEF Truthful, True, SuccessIsDurable, Successes
<1> QED  BY <1>1, <1>2, <1>3, PTL DEF Spec

-----------------------------------------------------------------------------
(* What a write loses                                                      *)

\* Only a new tree, a save and an approval write a tree.
LEMMA Writers ==
    ASSUME [Next]_vars
    PROVE  \/ UNCHANGED trees
           \/ \E t \in Trees, r \in Revisions : CreateTree(t, r)
           \/ \E c \in Clients, r \in Revisions : SaveRevision(c, r) \/ CommitApply(c, r)
<1>1. ASSUME NEW c \in Clients, Edits(c) \/ Produces(c) \/ Reviews(c) \/ Crash(c)
      PROVE  \/ UNCHANGED trees
             \/ \E r \in Revisions : SaveRevision(c, r) \/ CommitApply(c, r)
  BY <1>1
  DEF Edits, BeginSave, SaveRead, SaveConflict, Produces, BeginProposal, LoadDataset,
      CreateDraft, SubmitProposal, Reviews, BeginReject, ReadForReject, RejectProposal,
      Transition, BeginApprove, LookupKey, ReadProposal, CheckExpiry, CheckHead,
      CheckData, Check, Expire, Rollback, Crash
<1>2. Editors \subseteq Clients /\ Producers \subseteq Clients /\ Reviewers \subseteq Clients
  BY DEF Clients
<1> QED  BY <1>1, <1>2 DEF Next, DataChanges, TimeRunsOut, vars

\* An approval, and a save that pins the head its caller edited, put a revision on the
\* head that differs from it at one node: the guards of save_revision and apply_proposal.
THEOREM EditsSurvive == Spec => NothingIsLost
<1> DEFINE Unpinned(t) == \E c \in Clients : /\ pc[c] = "save_write" /\ pc'[c] = "idle"
                                             /\ ~op[c].pinned /\ op[c].tree = t
           OneNode(t) == \E n \in Nodes :
                config'[head'[t]] = [config[head[t]] EXCEPT ![n] = head'[t]]
<1>1. Filled /\ [Next]_vars =>
        [\A t \in Trees : head[t] # None /\ head'[t] # head[t] =>
           \/ \E c \in Clients : /\ pc[c] = "save_write" /\ pc'[c] = "idle"
                                 /\ ~op[c].pinned /\ op[c].tree = t
           \/ \E n \in Nodes :
                config'[head'[t]] = [config[head[t]] EXCEPT ![n] = head'[t]]]_vars
  <2> SUFFICES ASSUME Filled, [Next]_vars,
                      NEW t \in Trees, head[t] # None, head'[t] # head[t]
               PROVE  Unpinned(t) \/ OneNode(t)
    OBVIOUS
  <2>0. ClientsTyped  BY ClientsTypedIn DEF Filled
  <2>1. ASSUME NEW u \in Trees, NEW r \in Revisions, NEW onto, NEW cfg,
               AppendRevision(u, r, onto, cfg)
        PROVE  t = u /\ head'[t] = r /\ config'[r] = cfg
    BY <2>1 DEF AppendRevision, Filled, TypeOK
  <2>2. ASSUME NEW u \in Trees, NEW r \in Revisions, CreateTree(u, r)  PROVE FALSE
    BY <2>1, <2>2 DEF CreateTree
  <2>3. ASSUME NEW c \in Clients, NEW r \in Revisions, SaveRevision(c, r)
        PROVE  Unpinned(t) \/ OneNode(t)
    <3>1. op[c].tree \in Trees /\ op[c].node \in Nodes
      BY <2>3 DEF SaveRevision, Filled, CallFilled, SaveLabels
    <3>2. /\ t = op[c].tree /\ head'[t] = r
          /\ config'[r] = Edit(op[c].view, op[c].node, r)
      BY <2>1, <2>3, <3>1 DEF SaveRevision
    <3>3. pc[c] = "save_write" /\ pc'[c] = "idle"
      BY <2>0, <2>3 DEF SaveRevision, End, ClientsTyped
    <3>4. CASE op[c].pinned
      <4>1. head[t] = op[c].view  BY <2>3, <3>2, <3>4 DEF SaveRevision, GuardHead
      <4> QED  BY <3>1, <3>2, <4>1 DEF Edit
    <3> QED  BY <3>2, <3>3, <3>4
  <2>4. ASSUME NEW c \in Clients, NEW r \in Revisions, CommitApply(c, r)
        PROVE  OneNode(t)
    <3> DEFINE target == payload[op[c].proposal]
    <3>1. /\ head[target.tree] = target.base
          /\ AppendRevision(target.tree, r, target.base, Edit(target.base, target.node, r))
      BY <2>4 DEF CommitApply, HeadUnmoved
    <3>2. op[c].proposal \in Proposals /\ status[op[c].proposal] # "absent"
      BY <2>4 DEF CommitApply, Filled, CallFilled, ApproveLabels
    <3>3. target.tree \in Trees /\ target.node \in Nodes
      BY <3>2 DEF Filled, PayloadFilled, OnTree
    <3>4. t = target.tree /\ head'[t] = r /\ config'[r] = Edit(target.base, target.node, r)
      <4> HIDE DEF target
      <4> QED  BY <2>1, <3>1, <3>3
    <3>5. config'[head'[t]] = [config[head[t]] EXCEPT ![target.node] = head'[t]]
      BY <3>1, <3>4 DEF Edit
    <3> QED  BY <3>3, <3>5
  <2> QED  BY <2>2, <2>3, <2>4, Writers DEF trees
<1> QED  BY <1>1, AlwaysFilled, PTL DEF Spec, NothingIsLost
=============================================================================
