---------------------------- MODULE MCStudioCache ----------------------------
(***************************************************************************)
(* StudioCache for TLC: one tree under two settings, of which s2 asks for  *)
(* expanding windows, and the requests that meet in the caches: two        *)
(* pruning runs that differ in their windows only, a report that shares    *)
(* its backtest with the first of them, and an estimate or an audit bundle *)
(* beside them.                                                            *)
(***************************************************************************)
EXTENDS StudioCache, TLC

CONSTANTS tree1, s1, s2

Config(s) == [tree |-> tree1, settings |-> s]
Request(path, s) == [path |-> path, config |-> Config(s)]

MCTrees == {tree1}
MCSettings == {s1, s2}
MCGrowing == {s2}
MCQuestions ==
    {Request("pruning", s1), Request("pruning", s2), Request("report", s1),
     Request("audit", s1), Request("estimate", s1)}

\* Two requests meet a change of the data (for staleness), or three meet each other
\* (for evictions); saves happen around at most three requests and no change.
FewEvents == requests + 2 * data + edits <= 4

Symmetry == Permutations(Threads)
=============================================================================
