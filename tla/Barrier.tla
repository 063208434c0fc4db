------------------------------- MODULE Barrier -------------------------------
(***************************************************************************)
(* ggml_barrier of ggml-cpu.c, the build without OpenMP: one action per    *)
(* access to a shared atomic.  The threads run their accesses in any       *)
(* order, each access seen by all at once: the memory is taken to be       *)
(* sequentially consistent, although some of the loads and stores are      *)
(* relaxed in the code.                                                    *)
(***************************************************************************)
EXTENDS Integers, FiniteSets

CONSTANTS
    Threads,    \* the threads of the pool
    IntMod      \* how many values an atomic_int has: n_barrier_passed wraps

ASSUME ThreadsAssumption == IsFiniteSet(Threads) /\ Threads # {}
ASSUME IntModAssumption == IntMod \in Nat /\ IntMod >= 2

VARIABLES
    n_threads_cur,      \* threads used in the current graph
    n_barrier,          \* threads counted in at the barrier
    n_barrier_passed,   \* how often it has opened
    bpc,                \* where each thread is in ggml_barrier
    n_threads,          \* ggml_barrier's local n_threads, per thread
    n_passed            \* ggml_barrier's local n_passed, per thread

counters == <<n_barrier, n_barrier_passed>>
locals   == <<n_threads, n_passed>>
barrierVars == <<n_threads_cur, counters, bpc, locals>>

Places == {"out", "call", "load", "enter", "reset", "release", "spin"}

\* Leaving the function ends its locals.
Forget(t) == /\ n_threads' = [n_threads EXCEPT ![t] = 0]
             /\ n_passed' = [n_passed EXCEPT ![t] = 0]

At(t, from, to) == bpc[t] = from /\ bpc' = [bpc EXCEPT ![t] = to]

\* The state ggml_threadpool_new_impl sets up, nobody at the barrier.
BarrierInit(n) ==
    /\ n_threads_cur = n
    /\ n_barrier = 0
    /\ n_barrier_passed = 0
    /\ bpc = [t \in Threads |-> "out"]
    /\ n_threads = [t \in Threads |-> 0]
    /\ n_passed = [t \in Threads |-> 0]

Call(t) == At(t, "out", "call") /\ UNCHANGED <<n_threads_cur, counters, locals>>

\* A thread on its own does not stop at the barrier.
LoadThreads(t) ==
    /\ At(t, "call", IF n_threads_cur = 1 THEN "out" ELSE "load")
    /\ n_threads' = [n_threads EXCEPT ![t] = IF n_threads_cur = 1 THEN 0 ELSE n_threads_cur]
    /\ UNCHANGED <<n_threads_cur, counters, n_passed>>

LoadPassed(t) ==
    /\ At(t, "load", "enter")
    /\ n_passed' = [n_passed EXCEPT ![t] = n_barrier_passed]
    /\ UNCHANGED <<n_threads_cur, counters, n_threads>>

\* Mutant: the last but one thread takes itself for the last.
EnterOneEarly(t) ==
    /\ At(t, "enter", IF n_barrier = n_threads[t] - 2 THEN "reset" ELSE "spin")
    /\ n_barrier' = n_barrier + 1
    /\ UNCHANGED <<n_threads_cur, n_barrier_passed, locals>>

\* The atomic addition tells each thread how many were there before it.
Enter(t) ==
    /\ At(t, "enter", IF n_barrier = n_threads[t] - 1 THEN "reset" ELSE "spin")
    /\ n_barrier' = n_barrier + 1
    /\ UNCHANGED <<n_threads_cur, n_barrier_passed, locals>>

\* The last thread: first the counter for the next round, then the signal.
Reset(t) ==
    /\ At(t, "reset", "release")
    /\ n_barrier' = 0
    /\ UNCHANGED <<n_threads_cur, n_barrier_passed, locals>>

Release(t) ==
    /\ At(t, "release", "out")
    /\ n_barrier_passed' = (n_barrier_passed + 1) % IntMod
    /\ Forget(t)
    /\ UNCHANGED <<n_threads_cur, n_barrier>>

\* The others turn until the signal differs from what they read going in.
Spin(t) ==
    /\ n_barrier_passed # n_passed[t]
    /\ At(t, "spin", "out")
    /\ Forget(t)
    /\ UNCHANGED <<n_threads_cur, counters>>

\* What a thread that is inside the barrier does next.
Inside(t) ==
    \/ LoadThreads(t)
    \/ LoadPassed(t)
    \/ Enter(t)
    \/ Reset(t)
    \/ Release(t)
    \/ Spin(t)

-----------------------------------------------------------------------------
(***************************************************************************)
(* The barrier on its own: all threads of Threads come back to it for      *)
(* ever, as between the nodes of a graph.                                  *)
(***************************************************************************)
Init == BarrierInit(Cardinality(Threads))

Next == \E t \in Threads : Call(t) \/ Inside(t)

Spec == Init /\ [][Next]_barrierVars

\* Of the threads in P: who has been counted in this round, who has been let go,
\* who is last.
Waiting(P) == {t \in P : \/ bpc[t] \in {"reset", "release"}
                         \/ bpc[t] = "spin" /\ n_passed[t] = n_barrier_passed}
Freed(P)   == {t \in P : bpc[t] = "spin" /\ n_passed[t] # n_barrier_passed}
Last(P)    == {t \in P : bpc[t] \in {"reset", "release"}}

R == INSTANCE Rendezvous WITH waiting <- Waiting(Threads), freed <- Freed(Threads)

(***************************************************************************)
(* The inductive invariant, for the set P of the threads that meet at the  *)
(* barrier: all of them here, those of the current graph in the pool.  The *)
(* counter is the number of threads counted in, until the last one clears  *)
(* it; while there is a last one everybody else is waiting; and what a     *)
(* thread read of n_barrier_passed is either still current or exactly one  *)
(* opening old, so that a wrap of the counter cannot make an old value     *)
(* look current.                                                           *)
(***************************************************************************)
BarrierTypeOK(P) ==
    /\ n_threads_cur = Cardinality(P)
    /\ n_barrier \in Nat
    /\ n_barrier_passed \in 0 .. IntMod - 1
    /\ bpc \in [Threads -> Places]
    /\ n_threads \in [Threads -> Nat]
    /\ n_passed \in [Threads -> 0 .. IntMod - 1]

ThreadsRead(P) ==
    \A t \in P : bpc[t] \in {"load", "enter"} => n_threads[t] = Cardinality(P)

Counted(P) ==
    /\ \A t \in P : bpc[t] = "release" => n_barrier = 0
    /\ (\A t \in P : bpc[t] # "release") => n_barrier = Cardinality(Waiting(P))

LastIsLast(P) ==
    /\ \A t \in Last(P) : Waiting(P) = P /\ \A u \in Last(P) : u = t
    /\ Waiting(P) = P => Last(P) # {}

PassedRead(P) ==
    /\ \A t \in P : bpc[t] \in {"enter", "reset", "release"} =>
            n_passed[t] = n_barrier_passed
    /\ \A t \in Freed(P) : (n_passed[t] + 1) % IntMod = n_barrier_passed

IInv(P) ==
    BarrierTypeOK(P) /\ ThreadsRead(P) /\ Counted(P) /\ LastIsLast(P) /\ PassedRead(P)

\* ggml_barrier refines the rendezvous: no thread returns from a round that
\* some thread has not reached, whatever the number of threads, also when
\* n_barrier_passed wraps and when a fast thread is back before a slow one left.
BarrierIsRendezvous == R!Spec
=============================================================================
