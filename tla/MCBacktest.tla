----------------------------- MODULE MCBacktest ------------------------------
(***************************************************************************)
(* Small instances of AdaptivePruning for TLC.  Three kinds of study:      *)
(* calendars (one node, one answer, a day or a week missing, every         *)
(* frequency), estimates (two folds, several answers to every solve), and  *)
(* prunings (deeper trees, one answer to every solve).                     *)
(***************************************************************************)
EXTENDS AdaptivePruning

Tickers == {"A", "B", "C", "D", "P", "Q", "R", "S"}
MCCash == "cash:RF"
MCNames == Tickers \cup {MCCash, "cash:RF@2", "cash:RF@3"}
MCCashAt(n) == IF n = 2 THEN "cash:RF@2" ELSE "cash:RF@3"
MCUnit == 16
MCBenchmark == [x \in {"A", "P"} |-> 8]

(* Answers: an even split of two columns, or all in one; with cash, some   *)
(* of it lent, none, or half as much again borrowed.                       *)
All(columns, x) == [c \in columns |-> IF c = x THEN MCUnit ELSE 0]
Half(columns, x, y) == [c \in columns |-> IF c \in {x, y} THEN 8 ELSE 0]
Financed(columns, x) ==
    {[c \in columns \cup {CashColumn} |->
        CASE c = CashColumn -> 16 - risky [] c = x -> risky [] OTHER -> 0] :
        risky \in {8, 16, 24}}

MCSolutions(columns, financed, detail) ==
    LET x == CHOOSE c \in columns : TRUE
        y == IF columns = {x} THEN x ELSE CHOOSE c \in columns \ {x} : TRUE
        split == IF x = y THEN All(columns, x) ELSE Half(columns, x, y)
    IN  CASE columns = {} -> {Infeasible}
          [] columns # {} /\ detail = "one" -> {split}
          [] columns # {} /\ detail = "free" /\ financed ->
                 Financed(columns, x) \cup {split, Infeasible}
          [] OTHER -> {All(columns, y), split, Infeasible}

-----------------------------------------------------------------------------

Tree(parents, instruments, proxies) ==
    LET ids == DOMAIN parents
    IN [root |-> 1, nodes |-> ids,
        children    |-> [n \in ids |-> {k \in ids : parents[k] = n}],
        instruments |-> instruments,
        proxy       |-> proxies,
        reference   |-> [n \in ids |-> "none"],
        anchor      |-> [n \in ids |-> None],
        financed    |-> {},
        unclassified |-> {}]

Solo == Tree(<<0>>, <<{"A"}>>, <<None>>)
Chain == Tree(<<0, 1, 2>>, <<{"A"}, {"B"}, {"C"}>>, <<None, "P", "Q">>)
Fork == Tree(<<0, 1, 1>>, <<{}, {"B"}, {"C"}>>, <<None, "P", "Q">>)
Deep == Tree(<<0, 1, 2, 3, 2>>, <<{"A"}, {"B"}, {}, {"D"}, {"C"}>>, <<None, "P", "Q", "R", "S">>)
SameProxy == Tree(<<0, 1, 2>>, <<{"A"}, {"B"}, {"C"}>>, <<None, "P", "P">>)

ToRoot == [Chain EXCEPT !.reference = <<"none", "none", "forward_root_reference">>]
RootToRoot == [Fork EXCEPT !.reference = <<"forward_root_reference", "none", "none">>]
Anchored == [Chain EXCEPT !.anchor = <<{"A", "P"}, None, None>>]
ChildCash == [Fork EXCEPT !.financed = {2}]
LeafCash == [Chain EXCEPT !.financed = {3}]
Unclassed == [Fork EXCEPT !.unclassified = {2}]
RootCash == [Fork EXCEPT !.financed = {1}]
BothCash == [Fork EXCEPT !.financed = {1, 2}]

-----------------------------------------------------------------------------

MCBusiness == {1, 2, 3, 5, 6, 7, 9, 10, 11}
MCEnds == [D |-> 1..12, W |-> {3, 7, 11}, M |-> {6, 12}]

Base ==
    [config |-> Solo, mode |-> "forward", detail |-> "one", days |-> MCBusiness,
     estimation |-> "W", rebalance |-> "W", trainSize |-> 1, expanding |-> FALSE,
     partial |-> FALSE, workers |-> 1, adaptive |-> FALSE,
     burnIn |-> 1, evidence |-> None, maxFolds |-> None]

Calendars ==
    {[Base EXCEPT !.days = days, !.estimation = e, !.rebalance = r, !.trainSize = size,
                  !.expanding = x, !.partial = p] :
        days \in {s \in SUBSET MCBusiness : Cardinality(s) >= 8} \cup {MCBusiness \ {5, 6, 7}},
        e \in DOMAIN MCEnds, r \in DOMAIN MCEnds, size \in {1, 2},
        x \in BOOLEAN, p \in BOOLEAN}

Estimates ==
    {[Base EXCEPT !.config = c, !.mode = m, !.detail = "free", !.adaptive = TRUE] :
        c \in {Fork, Chain}, m \in {"flat", "forward", "forward_backward"}}
    \cup {[Base EXCEPT !.config = c, !.mode = "forward_backward", !.detail = "free",
                       !.rebalance = "M"] :
              c \in {ToRoot, RootToRoot, ChildCash, LeafCash, RootCash}}
    \cup {[Base EXCEPT !.config = Unclassed, !.mode = m, !.detail = "free",
                       !.rebalance = "M"] : m \in {"flat", "forward"}}
    \cup {[Base EXCEPT !.config = RootCash, !.mode = "forward_backward", !.detail = "free",
                       !.adaptive = TRUE]}

Prunings ==
    {[Base EXCEPT !.config = Deep, !.mode = "forward_backward", !.adaptive = TRUE,
                  !.rebalance = "D", !.days = {1, 2, 3, 5}, !.estimation = "D"]}
    \cup
    {[Base EXCEPT !.config = c, !.mode = "forward_backward", !.adaptive = TRUE,
                  !.rebalance = "D", !.days = {1, 2, 3, 5, 6}, !.estimation = "D",
                  !.workers = w, !.burnIn = b, !.evidence = e, !.maxFolds = k] :
        c \in {SameProxy, Anchored}, b \in {1, 2}, e \in {None, 1},
        k \in {None, 1}, w \in {1, 2}}

MCStudies == Calendars \cup Estimates \cup Prunings

CashStudies ==
    {[Base EXCEPT !.config = BothCash, !.mode = "forward_backward", !.detail = "free",
                  !.rebalance = "M"]}
=============================================================================
