----------------------------- MODULE Rendezvous -----------------------------
(***************************************************************************)
(* What a reusable barrier promises a fixed set of threads, and nothing    *)
(* about how: nobody is let go before everybody has arrived, and a thread  *)
(* that was let go may arrive at the next round while others are still on  *)
(* their way out of the last one.                                          *)
(***************************************************************************)
CONSTANT Threads

VARIABLES
    waiting,    \* the threads that arrived at the current round
    freed       \* the threads let go by the last round that have not left yet

vars == <<waiting, freed>>

Init == waiting = {} /\ freed = {}

Arrive(t) ==
    /\ t \notin waiting \cup freed
    /\ waiting' = waiting \cup {t}
    /\ UNCHANGED freed

\* The last arrival opens the barrier and is out itself at once.
Open(t) ==
    /\ waiting = Threads
    /\ waiting' = {}
    /\ freed' = Threads \ {t}

Leave(t) ==
    /\ t \in freed
    /\ freed' = freed \ {t}
    /\ UNCHANGED waiting

Next == \E t \in Threads : Arrive(t) \/ Open(t) \/ Leave(t)

Spec == Init /\ [][Next]_vars
=============================================================================
