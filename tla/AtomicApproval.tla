--------------------------- MODULE AtomicApproval ---------------------------
(***************************************************************************)
(* What the approval path promises, as if every call were one step: each   *)
(* tree is a single line of revisions, a proposal is decided at most once, *)
(* and it is applied only by extending the very revision it was drafted    *)
(* on, under a key that bought nothing before.  There are no clients, no   *)
(* half-finished calls and no snapshots here.  TreeApproval implements it. *)
(***************************************************************************)
EXTENDS Naturals

CONSTANTS Trees, Revisions, Proposals, Keys, None

VARIABLES
    line,       \* line[r]: the tree revision r belongs to; None: not made yet
    onto,       \* onto[r]: the revision r extends; None: it starts its tree
    tip,        \* tip[t]: the last revision of tree t; None: no such tree
    decision,   \* "none", "drafted", "open", "closed" or "applied"
    base,       \* base[p]: the revision proposal p was drafted on
    bought      \* bought[p]: the key and the revision of p's approval

vars == <<line, onto, tip, decision, base, bought>>

Init ==
    /\ line = [r \in Revisions |-> None]
    /\ onto = [r \in Revisions |-> None]
    /\ tip = [t \in Trees |-> None]
    /\ decision = [p \in Proposals |-> "none"]
    /\ base = [p \in Proposals |-> None]
    /\ bought = [p \in Proposals |-> [key |-> None, revision |-> None]]

Extend(t, r) ==
    /\ line[r] = None
    /\ line' = [line EXCEPT ![r] = t]
    /\ onto' = [onto EXCEPT ![r] = tip[t]]
    /\ tip' = [tip EXCEPT ![t] = r]

\* A new tree, or a person's edit of the tip.
Save(t, r) ==
    /\ Extend(t, r)
    /\ UNCHANGED <<decision, base, bought>>

\* A proposal is drafted on a revision that is or was a tree's tip.
Draft(p, b) ==
    /\ decision[p] = "none"
    /\ line[b] # None
    /\ decision' = [decision EXCEPT ![p] = "drafted"]
    /\ base' = [base EXCEPT ![p] = b]
    /\ UNCHANGED <<line, onto, tip, bought>>

Decide(p, from, to) ==
    /\ decision[p] = from
    /\ decision' = [decision EXCEPT ![p] = to]
    /\ UNCHANGED <<line, onto, tip, base, bought>>

Apply(p, k, t, r) ==
    /\ decision[p] = "open"
    /\ tip[t] = base[p]
    /\ t = line[base[p]]
    /\ \A q \in Proposals : bought[q].key # k
    /\ Extend(t, r)
    /\ decision' = [decision EXCEPT ![p] = "applied"]
    /\ bought' = [bought EXCEPT ![p] = [key |-> k, revision |-> r]]
    /\ UNCHANGED base

Next ==
    \/ \E t \in Trees, r \in Revisions : Save(t, r)
    \/ \E p \in Proposals, b \in Revisions : Draft(p, b)
    \/ \E p \in Proposals :
         \/ Decide(p, "drafted", "open")
         \/ Decide(p, "open", "closed")
    \/ \E p \in Proposals, k \in Keys, t \in Trees, r \in Revisions : Apply(p, k, t, r)

Spec == Init /\ [][Next]_vars
=============================================================================
