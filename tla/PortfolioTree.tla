---------------------------- MODULE PortfolioTree ----------------------------
(***************************************************************************)
(* The tree a configuration describes (v2/contracts.py, v2/model.py), what *)
(* v2/validation.py demands of it, and its contraction by                  *)
(* v2/tree_pruning.py.                                                     *)
(*                                                                         *)
(* A configuration is a record:                                            *)
(*   root, nodes   the root's id and the ids declared; ids are numbers, in *)
(*                 the order in which the nodes are listed                 *)
(*   children      per node, the ids of its children                       *)
(*   instruments   per node, the tickers it holds directly                 *)
(*   proxy         per node, the ticker its parent sees it as, or None     *)
(*   reference     per node, the kind of its risk reference                *)
(*   anchor        per node, the tickers its mean reference weighs, or     *)
(*                 None when it has none                                   *)
(*   financed      the nodes that may lend or borrow cash                  *)
(*   unclassified  the nodes with both a target and a cap in numbers,      *)
(*                 which validation lets through and classify does not     *)
(* The lists of the code are sets here: the validator refuses repeated     *)
(* ids, names and instruments first.                                       *)
(***************************************************************************)
EXTENDS Integers, FiniteSets, FiniteSetsExt

CONSTANT None

NonRoot(c) == c.nodes \ {c.root}

Parent(c, n) == CHOOSE p \in c.nodes : n \in c.children[p]

ChildProxies(c, n) == {c.proxy[k] : k \in c.children[n]}

(* What a node's own solve allocates over, by raw ticker. *)
Universe(c, n) == c.instruments[n] \cup ChildProxies(c, n)

TerminalInstruments(c) == UNION {c.instruments[n] : n \in c.nodes}

Proxies(c) == {c.proxy[n] : n \in c.nodes} \ {None}

Reached(c) ==
    LET r[k \in Nat] == IF k = 0 THEN {c.root}
                        ELSE r[k - 1] \cup UNION {c.children[n] : n \in r[k - 1]}
    IN r[Cardinality(c.nodes)]

Depth(c) ==
    LET d[n \in c.nodes] == IF n = c.root THEN 0 ELSE 1 + d[Parent(c, n)]
    IN d

-----------------------------------------------------------------------------
(* _validate_tree_structure *)

ChildrenAreDeclared(c) == \A n \in c.nodes : c.children[n] \subseteq c.nodes

OneParentEach(c) ==
    \A n \in c.nodes :
        Cardinality({p \in c.nodes : n \in c.children[p]}) = IF n = c.root THEN 0 ELSE 1

(* Cycles are never reached: every node has one parent and the root none. *)
EveryNodeIsReached(c) == Reached(c) = c.nodes

ChildrenHaveProxies(c) == \A n \in c.nodes : \A k \in c.children[n] : c.proxy[k] # None

(* The columns of one local solve: direct tickers and one per child. *)
ColumnsAreDistinct(c) ==
    \A n \in c.nodes :
        /\ Cardinality(ChildProxies(c, n)) = Cardinality(c.children[n])
        /\ ChildProxies(c, n) \cap c.instruments[n] = {}

IsTree(c) ==
    /\ c.root \in c.nodes
    /\ ChildrenAreDeclared(c)
    /\ OneParentEach(c)
    /\ EveryNodeIsReached(c)
    /\ ChildrenHaveProxies(c)

Valid(c) == IsTree(c) /\ ColumnsAreDistinct(c)

-----------------------------------------------------------------------------
(* prune_config, shallow to deep.  verdict says of each non-root node      *)
(* "retain" or "prune".                                                   *)
(* s is the contraction so far: the parents and children as they stand,    *)
(* the nodes dropped, and those of them below two pruned levels (cut).     *)

DropNode(s, n) == [s EXCEPT !.removed = @ \cup {n}]

CutBranch(s, n) == [DropNode(s, n) EXCEPT !.cut = @ \cup {n}]

(* MUTANT: a contracted branch loses its exposure. *)
ContractSilently(c, s, n) ==
    [DropNode(s, n) EXCEPT !.children[s.parent[n]] = @ \ {n}]

(* A pruned node becomes a direct position in its proxy, held by its parent. *)
Contract(c, s, n) ==
    [DropNode(s, n) EXCEPT !.children[s.parent[n]] = @ \ {n},
                           !.instruments[s.parent[n]] = @ \cup ({c.proxy[n]} \ {None})]

(* A retained node whose parent is pruned moves up, across one level only. *)
Lift(s, n) ==
    LET old == s.parent[n]
        new == s.parent[old]
    IN [s EXCEPT !.children[old] = @ \ {n}, !.children[new] = @ \cup {n}, !.parent[n] = new]

(* MUTANT: the node below two pruned levels is rescued like any other. *)
PruneAlwaysLifts(c, verdict, s, n) ==
    LET pruned(m) == m # c.root /\ verdict[m] = "prune"
        up == s.parent[n]
    IN  CASE up \in s.cut -> CutBranch(s, n)
          [] up \notin s.cut /\ ~pruned(up) /\ pruned(n) -> Contract(c, s, n)
          [] up \notin s.cut /\ ~pruned(up) /\ ~pruned(n) -> s
          [] up \notin s.cut /\ pruned(up) /\ ~pruned(n) -> Lift(s, n)
          [] OTHER -> DropNode(s, n)

PruneNode(c, verdict, s, n) ==
    LET pruned(m) == m # c.root /\ verdict[m] = "prune"
        up == s.parent[n]
    IN  CASE up \in s.cut -> CutBranch(s, n)
          [] up \notin s.cut /\ ~pruned(up) /\ pruned(n) -> Contract(c, s, n)
          [] up \notin s.cut /\ ~pruned(up) /\ ~pruned(n) -> s
          [] up \notin s.cut /\ pruned(up) /\ pruned(s.parent[up]) -> CutBranch(s, n)
          [] up \notin s.cut /\ pruned(up) /\ ~pruned(s.parent[up]) /\ ~pruned(n) -> Lift(s, n)
          [] OTHER -> DropNode(s, n)

PruneConfig(c, verdict) ==
    LET d == Depth(c)
        before(n) == {m \in NonRoot(c) : d[m] < d[n] \/ (d[m] = d[n] /\ m < n)}
        kth(k) == CHOOSE n \in NonRoot(c) : Cardinality(before(n)) = k - 1
        start == [children    |-> c.children,
                  instruments |-> c.instruments,
                  parent      |-> [n \in NonRoot(c) |-> Parent(c, n)],
                  removed     |-> {},
                  cut         |-> {}]
        last == Cardinality(NonRoot(c))
        s[k \in 0..last] == IF k = 0 THEN start ELSE PruneNode(c, verdict, s[k - 1], kth(k))
        end == s[last]
    IN [c EXCEPT !.nodes = @ \ end.removed,
                 !.children = end.children,
                 !.instruments = end.instruments]
=============================================================================
