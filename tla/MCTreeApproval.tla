--------------------------- MODULE MCTreeApproval ---------------------------
(***************************************************************************)
(* TreeApproval for TLC.  Reviewers, trees and nodes are interchangeable   *)
(* (SYMMETRY).  So are ids: revisions and proposals are numbered here, and *)
(* IdsInOrder explores only the behaviours that take them in order.        *)
(***************************************************************************)
EXTENDS TreeApproval, TLC

CONSTANTS MaxRevisions, MaxProposals

MCRevisions == 1..MaxRevisions
MCProposals == 1..MaxProposals

TakenInOrder(ids, Taken(_)) ==
    \A i \in ids : i > 1 /\ Taken(i) => Taken(i - 1)

RevisionTaken(r) == treeOf[r] # None
ProposalTaken(p) == status[p] # "absent"

IdsInOrder ==
    /\ TakenInOrder(Revisions, RevisionTaken)
    /\ TakenInOrder(Proposals, ProposalTaken)

\* A view for the largest instance: no step reads how an earlier call ended, and of
\* the properties checked under it only TypeOK mentions it, in a conjunct that
\* TreeApprovalProofs proves (TypeCorrect).
AnswersForgotten == <<trees, proposals, approvals, world, pc, op>>

Symmetry ==
    Permutations(Reviewers) \cup Permutations(Trees) \cup Permutations(Nodes)
=============================================================================
