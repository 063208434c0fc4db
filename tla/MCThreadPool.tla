---------------------------- MODULE MCThreadPool ----------------------------
(***************************************************************************)
(* Instances of ThreadPool: three threads, small graphs.                   *)
(***************************************************************************)
EXTENDS ThreadPool

Both  == <<"chunked", "plain">>

\* Every thread on every graph, and fewer and fewer threads.
SteadyScenes ==
    [whole  |-> [counts |-> {N + 1},  graphs |-> {Both},  calls |-> 2, grow |-> FALSE],
     fewer  |-> [counts |-> {1, 2, 3}, graphs |-> {<<"chunked">>}, calls |-> 2, grow |-> FALSE],
     pauses |-> [counts |-> {N},      graphs |-> {<<"plain">>}, calls |-> 3, grow |-> FALSE]]

\* One thread for a small graph, then all of them for a large one.
GrowScenes ==
    [grow |-> [counts |-> {1, N}, graphs |-> {<<"plain">>}, calls |-> 3, grow |-> TRUE]]
=============================================================================
