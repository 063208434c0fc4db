---------------------------- MODULE MCHDCache ----------------------------
(* Instances of HDCache for TLC. *)
EXTENDS HDCache

(* Two layers of weight 2 and 4: the second has twice the share.           *)
MCFreqs == <<12, 144>>

(* The second event is larger than the others and than half of each tier.  *)
MCPayloadLen == [e \in Event |-> IF e = 2 THEN 2 ELSE 1]

(* The first two events wait in different layers, the third in either.     *)
MCLayersOf == [e \in Event |-> IF e = 3 THEN {1, 2} ELSE {e}]

MCBudgets == <<1, 2, 2>>

(* Failures and a crash, the clock standing still.                         *)
Mishaps == [ttls |-> {0}, batch |-> {2}, reentrant |-> FALSE, clock |-> 0,
            faults |-> 1, restarts |-> 1]

(* Time passes, and process_fn ingests events itself.                      *)
Aging == [ttls |-> {1}, batch |-> {2}, reentrant |-> TRUE, clock |-> 2,
          faults |-> 0, restarts |-> 0]

MCScenes == {Mishaps, Aging}
OnlyMishaps == {Mishaps}
OnlyAging == {Aging}
=============================================================================
