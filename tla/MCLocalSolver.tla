---------------------------- MODULE MCLocalSolver ----------------------------
(***************************************************************************)
(* LocalSolver for TLC.  Six portfolios on which risk, realized            *)
(* volatility, tracking error and gain disagree, one of them rough and one *)
(* over, so that every constraint excludes something and every objective   *)
(* prefers something else; universes in which a regime is empty, cannot    *)
(* reach the target, or cannot meet the limit.                             *)
(***************************************************************************)
EXTENDS LocalSolver

P(risk, vol, tev, gain) ==
    [risk |-> risk, vol |-> vol, tev |-> tev, gain |-> gain, rough |-> FALSE, over |-> FALSE]

Calm == P(1, 1, 2, 1)
Middle == P(2, 3, 0, 2)
Odd == P(3, 2, 1, 3)
Bold == P(3, 3, 2, 4)
Rough == [P(2, 2, 1, 3) EXCEPT !.rough = TRUE]
Over == [P(2, 2, 2, 3) EXCEPT !.over = TRUE]

MCPortfolios == {Calm, Middle, Odd, Bold, Rough, Over}

Universe(none, lend, borrow) == [none |-> none, lend |-> lend, borrow |-> borrow]
MCUniverses ==
    {Universe(MCPortfolios, MCPortfolios, {Middle, Bold}),
     Universe({Calm, Middle, Bold}, {Calm, Middle}, {Odd, Bold}),
     Universe({Bold, Rough}, {}, {Bold, Rough}),
     Universe({}, {Calm}, {})}

Plain ==
    [objective |-> "min_risk", supported |-> TRUE, mode |-> "exact",
     target |-> None, targetRef |-> "none", cap |-> None, capRef |-> "none",
     limit |-> None, tevPolicy |-> "hard_fail", volPolicy |-> "hard_fail",
     cash |-> FALSE, leverage |-> FALSE, spread |-> FALSE,
     mean |-> "auto", reference |-> FALSE, views |-> "none",
     targetSeries |-> None, capSeries |-> None, tracking |-> "none"]

\* Every objective with every financing the configuration can declare ...
Financings ==
    {[Plain EXCEPT !.objective = o, !.cash = cash, !.leverage = leverage, !.spread = spread] :
        o \in Objectives, cash \in BOOLEAN, leverage \in BOOLEAN, spread \in BOOLEAN}

\* ... with every combination of risk constraints, manual or relative ...
Targeted(s, mode) ==
    {s} \cup {[s EXCEPT !.mode = mode, !.target = 2, !.targetRef = "manual"],
              [s EXCEPT !.mode = mode, !.targetRef = "relative", !.targetSeries = 3]}
Capped(s) ==
    {s} \cup {[s EXCEPT !.cap = 2, !.capRef = "manual"],
              [s EXCEPT !.capRef = "relative", !.capSeries = 2]}
Limited(s) ==
    {s} \cup {[s EXCEPT !.limit = l, !.tracking = t, !.tevPolicy = p] :
                 l \in {0, 1}, t \in {"whole", "none"}, p \in Policies}

Constrained ==
    UNION {UNION {UNION {{[u EXCEPT !.volPolicy = p] : p \in Policies}
            : u \in Limited(t)} : t \in Capped(s)}
            : s \in UNION {Targeted([Plain EXCEPT !.objective = o, !.leverage = lev,
                                                  !.cash = lev], mode)
                      : o \in {"min_risk", "max_return", "max_ratio"},
                        lev \in BOOLEAN, mode \in {"exact", "cap"}}}

\* ... and what makes a solve impossible, or its mean another.
Faulty ==
    {[Plain EXCEPT !.objective = o, !.supported = ok, !.mean = m, !.reference = r,
                   !.views = v, !.tracking = t] :
        o \in {"max_utility", "hrp"}, ok \in BOOLEAN, m \in {"auto", "equilibrium"},
        r \in BOOLEAN, v \in {"none", "fit", "foreign", "cash"}, t \in {"none", "gaps"}}

\* A relative reference finds its own series, and not the other's.
OneSeries ==
    {[Plain EXCEPT !.objective = o, !.targetRef = t, !.capRef = c, !.targetSeries = ts,
                   !.capSeries = cs] :
        o \in {"min_risk", "max_return"}, t \in {"none", "relative"}, c \in {"none", "relative"},
        ts \in {None, 2}, cs \in {None, 2}}

MCSettings == Financings \cup Constrained \cup Faulty \cup OneSeries
=============================================================================
