---------------------------- MODULE ResultService ----------------------------
(***************************************************************************)
(* What Tree Studio's numeric endpoints promise: a client that asks for a  *)
(* result gets the result of what it asked for, computed on data at least  *)
(* as new as the data the market data hub held when it asked.  There are   *)
(* no caches, no disk and no failures here.  StudioCache implements it.    *)
(***************************************************************************)
EXTENDS Naturals

CONSTANTS Threads, Questions, MaxData, Nothing

VARIABLES
    data,       \* the version of the hub's data
    asked,      \* by client: what it waits for, and the data when it asked
    told        \* by client: the last result it was given

vars == <<data, asked, told>>

Init ==
    /\ data = 0
    /\ asked = [t \in Threads |-> Nothing]
    /\ told = [t \in Threads |-> Nothing]

Refresh ==
    /\ data < MaxData
    /\ data' = data + 1
    /\ UNCHANGED <<asked, told>>

Ask(t, q) ==
    /\ asked[t] = Nothing
    /\ asked' = [asked EXCEPT ![t] = [question |-> q, since |-> data]]
    /\ told' = [told EXCEPT ![t] = Nothing]
    /\ UNCHANGED data

Tell(t) ==
    /\ asked[t] # Nothing
    /\ \E version \in asked[t].since..data :
         told' = [told EXCEPT ![t] = [question |-> asked[t].question, version |-> version]]
    /\ asked' = [asked EXCEPT ![t] = Nothing]
    /\ UNCHANGED data

\* The server fails or dies: some of its clients get an error.
Fail(T) ==
    /\ asked' = [t \in Threads |-> IF t \in T THEN Nothing ELSE asked[t]]
    /\ UNCHANGED <<data, told>>

Next ==
    \/ Refresh
    \/ \E t \in Threads : Tell(t) \/ (\E q \in Questions : Ask(t, q))
    \/ \E T \in SUBSET Threads : Fail(T)

Spec == Init /\ [][Next]_vars
=============================================================================
