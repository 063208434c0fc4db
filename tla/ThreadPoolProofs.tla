-------------------------- MODULE ThreadPoolProofs --------------------------
(***************************************************************************)
(* ggml_barrier is a rendezvous for every number of threads and every      *)
(* width of its counters, and so is the barrier inside the thread pool.    *)
(* Then the invariant of the threads that compute a graph, and the steps   *)
(* that keep it: of one thread, of all at the opening of a barrier, and    *)
(* between two graphs.  GraphComputeProofs puts them together.             *)
(***************************************************************************)
EXTENDS ThreadPool, FiniteSetTheorems, TLAPS

-----------------------------------------------------------------------------
(***************************************************************************)
(* The barrier of the threads in P                                         *)
(***************************************************************************)
\* Adding one to an atomic_int stays in its range and changes its value.
LEMMA Wrap ==
    ASSUME NEW n \in 0 .. IntMod - 1
    PROVE  (n + 1) % IntMod \in 0 .. IntMod - 1 /\ (n + 1) % IntMod # n
<1>1. CASE n = IntMod - 1
  <2>1. (n + 1) % IntMod = 0
    BY <1>1, IntModAssumption
  <2> QED BY <2>1, <1>1, IntModAssumption
<1>2. CASE n # IntMod - 1
  <2>1. n + 1 \in 0 .. IntMod - 1
    BY <1>2, IntModAssumption
  <2>2. (n + 1) % IntMod = n + 1
    BY <2>1, IntModAssumption
  <2> QED BY <2>1, <2>2, IntModAssumption
<1> QED BY <1>1, <1>2

\* The threads counted in are a finite set, so counting one more adds one and
\* only all of them make the full count.
LEMMA Counting ==
    ASSUME NEW P \in SUBSET Threads
    PROVE  /\ IsFiniteSet(Waiting(P))
           /\ Cardinality(Waiting(P)) \in Nat
           /\ Cardinality(P) \in Nat
           /\ \A t \in P \ Waiting(P) :
                 Cardinality(Waiting(P) \cup {t}) = Cardinality(Waiting(P)) + 1
           /\ \A S \in SUBSET P : Cardinality(S) = Cardinality(P) => S = P
<1>1. Waiting(P) \in SUBSET P
  BY DEF Waiting
<1>2. IsFiniteSet(P) /\ IsFiniteSet(Waiting(P))
  BY <1>1, ThreadsAssumption, FS_Subset
<1>3. Cardinality(Waiting(P)) \in Nat /\ Cardinality(P) \in Nat
  BY <1>2, FS_CardinalityType
<1>4. \A t \in P \ Waiting(P) :
        Cardinality(Waiting(P) \cup {t}) = Cardinality(Waiting(P)) + 1
  BY <1>2, FS_AddElement, Zenon
<1>5. \A S \in SUBSET P : Cardinality(S) = Cardinality(P) => S = P
  BY <1>2, FS_Subset
<1> QED BY <1>2, <1>3, <1>4, <1>5

\* The pool starts with nobody at the barrier.
LEMMA InitIInv ==
    ASSUME BarrierInit(Cardinality(Threads))
    PROVE  IInv(Threads)
<1> USE DEF BarrierInit
<1>1. Waiting(Threads) = {} /\ Freed(Threads) = {} /\ Last(Threads) = {}
  BY DEF Waiting, Freed, Last
<1>2. Cardinality({}) = 0
  BY FS_EmptySet
<1>3. BarrierTypeOK(Threads)
  BY IntModAssumption DEF BarrierTypeOK, Places
<1>4. ThreadsRead(Threads) /\ Counted(Threads) /\ PassedRead(Threads)
  BY <1>1, <1>2 DEF ThreadsRead, Counted, PassedRead
<1>5. LastIsLast(Threads)
  BY <1>1, ThreadsAssumption DEF LastIsLast
<1> QED BY <1>3, <1>4, <1>5 DEF IInv

\* The steps before a thread is counted in leave the three sets as they are.
LEMMA OutsideSteps ==
    ASSUME NEW P \in SUBSET Threads, IInv(P), NEW t \in P,
           Call(t) \/ LoadThreads(t) \/ LoadPassed(t)
    PROVE  /\ Waiting(P)' = Waiting(P) /\ Freed(P)' = Freed(P) /\ Last(P)' = Last(P)
           /\ IInv(P)'
<1> USE DEF IInv, BarrierTypeOK, At, counters, locals
<1>1. /\ bpc[t] \in {"out", "call", "load"}
      /\ bpc'[t] \in {"out", "call", "load", "enter"}
      /\ \A u \in Threads \ {t} : bpc'[u] = bpc[u] /\ n_passed'[u] = n_passed[u]
      /\ n_barrier' = n_barrier /\ n_barrier_passed' = n_barrier_passed
  BY DEF Call, LoadThreads, LoadPassed
<1>2. Waiting(P)' = Waiting(P) /\ Freed(P)' = Freed(P) /\ Last(P)' = Last(P)
  BY <1>1 DEF Waiting, Freed, Last
<1>3. BarrierTypeOK(P)'
  <2>1. CASE Call(t)
    BY <2>1 DEF Call, Places
  <2>2. CASE LoadThreads(t)
    BY <2>2, Counting, Zenon DEF LoadThreads, Places
  <2>3. CASE LoadPassed(t)
    BY <2>3 DEF LoadPassed, Places
  <2> QED BY <2>1, <2>2, <2>3
<1>4. ThreadsRead(P)'
  <2>1. CASE Call(t)
    BY <2>1 DEF Call, ThreadsRead, Places
  <2>2. CASE LoadThreads(t)
    BY <2>2 DEF LoadThreads, ThreadsRead, Places
  <2>3. CASE LoadPassed(t)
    BY <2>3 DEF LoadPassed, ThreadsRead, Places
  <2> QED BY <2>1, <2>2, <2>3
<1>5. Counted(P)'
  BY <1>1, <1>2 DEF Counted
<1>6. LastIsLast(P)'
  BY <1>2 DEF LastIsLast
<1>7. PassedRead(P)'
  <2>1. \A u \in Freed(P)' : u \in Freed(P) /\ u # t
    BY <1>1, <1>2 DEF Freed
  <2>2. bpc'[t] = "enter" => n_passed'[t] = n_barrier_passed
    BY <1>1 DEF Call, LoadThreads, LoadPassed
  <2> QED BY <1>1, <2>1, <2>2 DEF PassedRead, Freed
<1> QED BY <1>2, <1>3, <1>4, <1>5, <1>6, <1>7

\* Going in adds the thread to those waiting; it is the last one exactly when
\* that makes all of them.
LEMMA EnterStep ==
    ASSUME NEW P \in SUBSET Threads, IInv(P), NEW t \in P, Enter(t)
    PROVE  /\ t \notin Waiting(P) \cup Freed(P)
           /\ Waiting(P)' = Waiting(P) \cup {t} /\ Freed(P)' = Freed(P)
           /\ IInv(P)'
<1> USE DEF IInv, BarrierTypeOK, At, counters, locals
<1>1. /\ bpc[t] = "enter"
      /\ bpc'[t] = IF n_barrier = n_threads[t] - 1 THEN "reset" ELSE "spin"
      /\ \A u \in Threads \ {t} : bpc'[u] = bpc[u]
      /\ n_barrier' = n_barrier + 1
      /\ n_barrier_passed' = n_barrier_passed /\ n_passed' = n_passed
      /\ n_threads' = n_threads /\ n_threads_cur' = n_threads_cur
  BY DEF Enter
<1>2. n_passed[t] = n_barrier_passed /\ n_threads[t] = Cardinality(P)
  BY <1>1 DEF PassedRead, ThreadsRead, Places
<1>3. t \notin Waiting(P) /\ t \notin Freed(P)
  BY <1>1 DEF Waiting, Freed
<1>4. Waiting(P)' = Waiting(P) \cup {t} /\ Freed(P)' = Freed(P)
  <2>1. bpc'[t] \in {"reset", "spin"}
    BY <1>1
  <2> QED BY <1>1, <1>2, <1>3, <2>1 DEF Waiting, Freed
<1>5. Last(P) = {}
  BY <1>3 DEF LastIsLast
<1>6. Last(P)' = IF bpc'[t] = "reset" THEN {t} ELSE {}
  BY <1>1, <1>5 DEF Last
<1>7. \A u \in P : bpc[u] # "release" /\ bpc'[u] # "release"
  BY <1>1, <1>5 DEF Last
<1>8. n_barrier = Cardinality(Waiting(P))
  BY <1>7 DEF Counted
<1>9. Cardinality(Waiting(P)') = n_barrier + 1
  BY <1>3, <1>4, <1>8, Counting
<1>10. BarrierTypeOK(P)'
  BY <1>1 DEF Enter, Places
<1>11. ThreadsRead(P)'
  BY <1>1 DEF ThreadsRead, Places
<1>12. Counted(P)'
  BY <1>1, <1>7, <1>9 DEF Counted
<1>13. LastIsLast(P)'
  <2>1. Waiting(P)' \in SUBSET P
    BY DEF Waiting
  <2>2. CASE n_barrier = Cardinality(P) - 1
    <3>1. Waiting(P)' = P
      <4>1. Cardinality(P) \in Nat
        BY Counting
      <4>2. Cardinality(Waiting(P)') = Cardinality(P)
        BY <1>9, <2>2, <4>1
      <4>3. \A S \in SUBSET P : Cardinality(S) = Cardinality(P) => S = P
        BY Counting, Zenon
      <4> QED BY <2>1, <4>2, <4>3
    <3> QED BY <3>1, <1>1, <1>2, <1>6, <2>2 DEF LastIsLast
  <2>3. CASE n_barrier # Cardinality(P) - 1
    <3>1. Waiting(P)' # P
      BY <1>9, <2>3, Counting
    <3> QED BY <3>1, <1>1, <1>2, <1>6, <2>3 DEF LastIsLast
  <2> QED BY <2>2, <2>3
<1>14. PassedRead(P)'
  BY <1>1, <1>2, <1>4 DEF PassedRead
<1> QED BY <1>3, <1>4, <1>10, <1>11, <1>12, <1>13, <1>14

\* Clearing the counter changes none of the sets.
LEMMA ResetStep ==
    ASSUME NEW P \in SUBSET Threads, IInv(P), NEW t \in P, Reset(t)
    PROVE  /\ Waiting(P)' = Waiting(P) /\ Freed(P)' = Freed(P)
           /\ IInv(P)'
<1> USE DEF IInv, BarrierTypeOK, At, counters, locals
<1>1. /\ bpc[t] = "reset" /\ bpc'[t] = "release"
      /\ \A u \in Threads \ {t} : bpc'[u] = bpc[u]
      /\ n_barrier' = 0
      /\ n_barrier_passed' = n_barrier_passed /\ n_passed' = n_passed
      /\ n_threads' = n_threads /\ n_threads_cur' = n_threads_cur
  BY DEF Reset
<1>2. Waiting(P)' = Waiting(P) /\ Freed(P)' = Freed(P) /\ Last(P)' = Last(P)
  BY <1>1 DEF Waiting, Freed, Last
<1>3. BarrierTypeOK(P)'
  BY <1>1 DEF Reset, Places
<1>4. ThreadsRead(P)'
  BY <1>1 DEF ThreadsRead, Places
<1>5. Counted(P)'
  BY <1>1 DEF Counted
<1>6. LastIsLast(P)'
  BY <1>2 DEF LastIsLast
<1>7. PassedRead(P)'
  BY <1>1, <1>2 DEF PassedRead
<1> QED BY <1>2, <1>3, <1>4, <1>5, <1>6, <1>7

\* The signal turns everybody who waits, all the others, into somebody free.
LEMMA ReleaseStep ==
    ASSUME NEW P \in SUBSET Threads, IInv(P), NEW t \in P, Release(t)
    PROVE  /\ Waiting(P) = P
           /\ Waiting(P)' = {} /\ Freed(P)' = P \ {t}
           /\ IInv(P)'
<1> USE DEF IInv, BarrierTypeOK, At, counters, locals
<1>1. /\ bpc[t] = "release" /\ bpc'[t] = "out"
      /\ \A u \in Threads \ {t} : bpc'[u] = bpc[u]
      /\ n_barrier' = n_barrier
      /\ n_barrier_passed' = (n_barrier_passed + 1) % IntMod
      /\ \A u \in Threads \ {t} : n_passed'[u] = n_passed[u] /\ n_threads'[u] = n_threads[u]
  BY DEF Release, Forget
<1>2. n_barrier_passed' \in 0 .. IntMod - 1 /\ n_barrier_passed' # n_barrier_passed
  BY <1>1, Wrap
<1>3. Waiting(P) = P /\ \A u \in Last(P) : u = t
  BY <1>1 DEF LastIsLast, Last
<1>4. \A u \in P \ {t} : bpc[u] = "spin" /\ n_passed[u] = n_barrier_passed
  BY <1>3 DEF Waiting, Last
<1>5. Waiting(P)' = {} /\ Freed(P)' = P \ {t} /\ Last(P)' = {}
  BY <1>1, <1>2, <1>4 DEF Waiting, Freed, Last
<1>6. BarrierTypeOK(P)'
  BY <1>1, <1>2, IntModAssumption DEF Release, Forget, Places
<1>7. ThreadsRead(P)'
  BY <1>1 DEF ThreadsRead, Places
<1>8. Counted(P)'
  <2>1. n_barrier = 0 /\ Cardinality({}) = 0
    BY <1>1, FS_EmptySet DEF Counted
  <2> QED BY <1>1, <1>5, <2>1 DEF Counted
<1>9. LastIsLast(P)'
  BY <1>5 DEF LastIsLast
<1>10. PassedRead(P)'
  BY <1>1, <1>4, <1>5 DEF PassedRead
<1> QED BY <1>3, <1>5, <1>6, <1>7, <1>8, <1>9, <1>10

\* A thread that sees the signal leaves.
LEMMA SpinStep ==
    ASSUME NEW P \in SUBSET Threads, IInv(P), NEW t \in P, Spin(t)
    PROVE  /\ t \in Freed(P)
           /\ Waiting(P)' = Waiting(P) /\ Freed(P)' = Freed(P) \ {t}
           /\ IInv(P)'
<1> USE DEF IInv, BarrierTypeOK, At, counters, locals
<1>1. /\ bpc[t] = "spin" /\ bpc'[t] = "out" /\ n_passed[t] # n_barrier_passed
      /\ \A u \in Threads \ {t} : bpc'[u] = bpc[u]
      /\ n_barrier' = n_barrier
      /\ n_barrier_passed' = n_barrier_passed
      /\ \A u \in Threads \ {t} : n_passed'[u] = n_passed[u] /\ n_threads'[u] = n_threads[u]
  BY DEF Spin, Forget
<1>2. /\ t \in Freed(P) /\ Waiting(P)' = Waiting(P)
      /\ Freed(P)' = Freed(P) \ {t} /\ Last(P)' = Last(P)
  BY <1>1 DEF Waiting, Freed, Last
<1>3. BarrierTypeOK(P)'
  BY <1>1, IntModAssumption DEF Spin, Forget, Places
<1>4. ThreadsRead(P)'
  BY <1>1 DEF ThreadsRead, Places
<1>5. Counted(P)'
  BY <1>1, <1>2 DEF Counted
<1>6. LastIsLast(P)'
  BY <1>2 DEF LastIsLast
<1>7. PassedRead(P)'
  BY <1>1, <1>2 DEF PassedRead, Freed
<1> QED BY <1>2, <1>3, <1>4, <1>5, <1>6, <1>7

\* A step that changes nothing keeps the invariant.
LEMMA StutterStep ==
    ASSUME NEW P \in SUBSET Threads, IInv(P), UNCHANGED barrierVars
    PROVE  /\ IInv(P)' /\ Waiting(P)' = Waiting(P) /\ Freed(P)' = Freed(P)
<1> USE DEF barrierVars, counters, locals
<1>1. Waiting(P)' = Waiting(P) /\ Freed(P)' = Freed(P) /\ Last(P)' = Last(P)
  BY DEF Waiting, Freed, Last
<1>2. BarrierTypeOK(P)' /\ ThreadsRead(P)'
  BY DEF IInv, BarrierTypeOK, ThreadsRead
<1>3. Counted(P)' /\ LastIsLast(P)' /\ PassedRead(P)'
  BY <1>1 DEF IInv, Counted, LastIsLast, PassedRead
<1> QED BY <1>1, <1>2, <1>3 DEF IInv

\* A thread that is not of the round may still be turning from an earlier one:
\* its leaving does not touch the round of the others.
LEMMA StrangerLeaves ==
    ASSUME NEW P \in SUBSET Threads, IInv(P), NEW t \in Threads \ P, Spin(t)
    PROVE  /\ Waiting(P)' = Waiting(P) /\ Freed(P)' = Freed(P)
           /\ IInv(P)'
<1> USE DEF IInv, BarrierTypeOK, At, counters, locals
<1>1. /\ \A u \in P : /\ bpc'[u] = bpc[u] /\ n_passed'[u] = n_passed[u]
                      /\ n_threads'[u] = n_threads[u]
      /\ n_barrier' = n_barrier /\ n_barrier_passed' = n_barrier_passed
  BY DEF Spin, Forget
<1>2. Waiting(P)' = Waiting(P) /\ Freed(P)' = Freed(P) /\ Last(P)' = Last(P)
  BY <1>1 DEF Waiting, Freed, Last
<1>3. BarrierTypeOK(P)'
  BY <1>1, IntModAssumption DEF Spin, Forget, Places
<1>4. ThreadsRead(P)'
  BY <1>1 DEF ThreadsRead
<1>5. Counted(P)' /\ LastIsLast(P)'
  BY <1>1, <1>2, Zenon DEF Counted, LastIsLast
<1>6. PassedRead(P)'
  BY <1>1, <1>2 DEF PassedRead, Freed
<1> QED BY <1>2, <1>3, <1>4, <1>5, <1>6

\* The counter of ggml_barrier counts the threads that wait, and a thread is
\* told it is the last one exactly when all the others wait, in every reachable
\* state, for every number of threads and every width of the counters.
THEOREM BarrierCounts == Spec => []IInv(Threads)
<1>1. Init => IInv(Threads)
  BY InitIInv DEF Init
<1>2. IInv(Threads) /\ [Next]_barrierVars => IInv(Threads)'
  <2> SUFFICES ASSUME IInv(Threads), [Next]_barrierVars PROVE IInv(Threads)'
    OBVIOUS
  <2>1. CASE UNCHANGED barrierVars
    BY <2>1, StutterStep
  <2>2. ASSUME NEW t \in Threads, Call(t) \/ Inside(t) PROVE IInv(Threads)'
    BY <2>2, OutsideSteps, EnterStep, ResetStep, ReleaseStep, SpinStep DEF Inside
  <2> QED BY <2>1, <2>2 DEF Next
<1> QED BY <1>1, <1>2, PTL DEF Spec

\* ggml_barrier implements the rendezvous for every number of threads: nobody
\* returns from a round that somebody has not reached.
THEOREM BarrierRefines == Spec => BarrierIsRendezvous
<1>1. Init => R!Init
  BY DEF Init, BarrierInit, R!Init, Waiting, Freed
<1>2. IInv(Threads) /\ [Next]_barrierVars => [R!Next]_(R!vars)
  <2> SUFFICES ASSUME IInv(Threads), [Next]_barrierVars PROVE [R!Next]_(R!vars)
    OBVIOUS
  <2> USE DEF R!Next, R!vars
  <2>1. CASE UNCHANGED barrierVars
    BY <2>1, StutterStep
  <2>2. ASSUME NEW t \in Threads, Call(t) \/ Inside(t) PROVE [R!Next]_(R!vars)
    <3>1. CASE Call(t) \/ LoadThreads(t) \/ LoadPassed(t)
      BY <3>1, OutsideSteps
    <3>2. CASE Enter(t)
      BY <3>2, EnterStep DEF R!Arrive
    <3>3. CASE Reset(t)
      BY <3>3, ResetStep
    <3>4. CASE Release(t)
      BY <3>4, ReleaseStep DEF R!Open
    <3>5. CASE Spin(t)
      BY <3>5, SpinStep DEF R!Leave
    <3> QED BY <2>2, <3>1, <3>2, <3>3, <3>4, <3>5 DEF Inside
  <2> QED BY <2>1, <2>2 DEF Next
<1>3. Spec => []IInv(Threads)
  BY BarrierCounts, Zenon
<1> QED BY <1>1, <1>2, <1>3, PTL DEF Spec, BarrierIsRendezvous, R!Spec

-----------------------------------------------------------------------------
(***************************************************************************)
(* The barrier inside the pool                                             *)
(***************************************************************************)
\* The pool's steps touch the barrier in three ways: a thread calls it, a thread
\* inside it goes on, and a kickoff sets how many threads are to come.
LEMMA BarrierMoves ==
    ASSUME [PoolNext]_vars
    PROVE  /\ scene' = scene
           /\ \/ UNCHANGED <<barrierVars, want>>
              \/ UNCHANGED want /\ \E t \in Threads :
                    \/ Call(t) /\ pc[t] \in {"loop", "chunked", "after"}
                    \/ Inside(t)
              \/ Kick
              \/ /\ UNCHANGED barrierVars
                 /\ \E n \in Scenes[scene].counts, g \in Scenes[scene].graphs :
                        GraphCompute(n, g)
<1> USE DEF computeKeeps, mainKeeps, workerKeeps
<1>1. CASE UNCHANGED vars
  BY <1>1, Zenon DEF vars
<1>2. CASE MainStep
  BY <1>2, Zenon DEF MainStep, Kick, KickGraph, KickWake, Return, FreeWake, Join
<1>3. CASE Ask
  <2>1. ASSUME NEW n \in Scenes[scene].counts, NEW g \in Scenes[scene].graphs,
               GraphCompute(n, g)
        PROVE  UNCHANGED <<scene, barrierVars>>
    BY <2>1 DEF GraphCompute
  <2>2. ASSUME NEW on \in BOOLEAN, SetPause(on)
        PROVE  UNCHANGED <<scene, barrierVars, want>>
    BY <2>2 DEF SetPause
  <2>3. Free => UNCHANGED <<scene, barrierVars, want>>
    BY DEF Free
  <2> QED BY <1>3, <2>1, <2>2, <2>3 DEF Ask
<1>4. ASSUME NEW t \in Workers, WorkerStep(t) \/ SpuriousWake(t)
      PROVE  UNCHANGED <<scene, barrierVars, want>>
  BY <1>4, Zenon DEF WorkerStep, SpuriousWake, PauseCheck, PauseLock, PauseWoken,
              StopCheck, PollActive, Poll, PollReady, SleepCheck
<1>5. ASSUME NEW t \in Threads, ComputeStep(t)
      PROVE  /\ UNCHANGED <<scene, want>>
             /\ \/ UNCHANGED barrierVars
                \/ Call(t) /\ pc[t] \in {"loop", "chunked", "after"}
                \/ Inside(t)
  BY <1>5 DEF ComputeStep, Start, Loop, Plain, ChunkSet, ChunkFirst, ChunkStep,
              ChunksOut, After, NodeBarrier, Final, BarrierStep, Go
<1>6. Terminated => UNCHANGED vars
  BY DEF Terminated
<1> QED BY <1>1, <1>2, <1>3, <1>4, <1>5, <1>6, Zenon DEF PoolNext, vars

\* when every graph uses the whole pool, so does the barrier
WholeInv == scene \in DOMAIN Scenes /\ (Whole => IInv(Threads) /\ want = N)

\* n_threads_max is the number of the pool's threads.
LEMMA PoolSizeType == N \in Nat /\ N = Cardinality(Threads)
  BY ThreadsAssumption, FS_CardinalityType DEF N

\* Every step keeps WholeInv and is a step of the rendezvous.
LEMMA WholeStep ==
    ASSUME WholeInv, [PoolNext]_vars
    PROVE  WholeInv' /\ [PR!Next]_(PR!vars)
<1> USE DEF PR!Next, PR!vars
<1>1. (Whole <=> Whole') /\ scene \in DOMAIN Scenes /\ scene' \in DOMAIN Scenes
  BY BarrierMoves DEF Whole, WholeInv
<1>2. CASE ~Whole
  BY <1>1, <1>2, Zenon DEF WholeInv
<1>3. CASE Whole
  <2>1. IInv(Threads) /\ want = N
    BY <1>3 DEF WholeInv
  <2>2. CASE UNCHANGED <<barrierVars, want>>
    BY <1>1, <1>3, <2>1, <2>2, StutterStep DEF WholeInv
  <2>3. ASSUME UNCHANGED want, NEW t \in Threads, Call(t) \/ Inside(t)
        PROVE  WholeInv' /\ [PR!Next]_(PR!vars)
    <3>1. CASE Call(t) \/ LoadThreads(t) \/ LoadPassed(t)
      BY <1>1, <1>3, <2>1, <2>3, <3>1, OutsideSteps DEF WholeInv
    <3>2. CASE Enter(t)
      BY <1>1, <1>3, <2>1, <2>3, <3>2, EnterStep DEF WholeInv, PR!Arrive
    <3>3. CASE Reset(t)
      BY <1>1, <1>3, <2>1, <2>3, <3>3, ResetStep DEF WholeInv
    <3>4. CASE Release(t)
      BY <1>1, <1>3, <2>1, <2>3, <3>4, ReleaseStep DEF WholeInv, PR!Open
    <3>5. CASE Spin(t)
      BY <1>1, <1>3, <2>1, <2>3, <3>5, SpinStep DEF WholeInv, PR!Leave
    <3> QED BY <2>3, <3>1, <3>2, <3>3, <3>4, <3>5 DEF Inside
  <2>4. CASE Kick
    <3>1. UNCHANGED <<barrierVars, want>>
      BY <2>1, <2>4, PoolSizeType DEF Kick, IInv, BarrierTypeOK, barrierVars
    <3> QED BY <1>1, <1>3, <2>1, <3>1, StutterStep DEF WholeInv
  <2>5. ASSUME UNCHANGED barrierVars, NEW n \in Scenes[scene].counts,
               NEW g \in Scenes[scene].graphs, GraphCompute(n, g)
        PROVE  WholeInv' /\ [PR!Next]_(PR!vars)
    <3>1. want' = IF n > N THEN N ELSE n
      BY <2>5 DEF GraphCompute
    <3>2. n \in Nat /\ n >= N
      BY <1>1, <1>3, PoolAssumption DEF Whole
    <3>3. want' = N
      BY <3>1, <3>2, PoolSizeType
    <3> QED BY <1>1, <1>3, <2>1, <2>5, <3>3, StutterStep DEF WholeInv
  <2> QED BY <2>2, <2>3, <2>4, <2>5, BarrierMoves, Zenon
<1> QED BY <1>2, <1>3

\* In the pool, too, ggml_barrier is a rendezvous when every graph uses all the
\* threads, for every number of them: a kickoff between two graphs lets nobody
\* through the last barrier of the earlier one before all have reached it.
THEOREM PoolRefines == PoolSpec => PoolIsRendezvous
<1>1. PoolInit => WholeInv /\ PR!Init
  <2> SUFFICES ASSUME PoolInit PROVE WholeInv /\ PR!Init
    OBVIOUS
  <2>1. BarrierInit(Cardinality(Threads)) /\ want = N
    BY DEF PoolInit, N
  <2>2. Waiting(Threads) = {} /\ Freed(Threads) = {}
    BY <2>1 DEF BarrierInit, Waiting, Freed
  <2>3. scene \in DOMAIN Scenes
    BY DEF PoolInit
  <2> QED BY <2>1, <2>2, <2>3, InitIInv DEF WholeInv, PR!Init
<1>2. WholeInv /\ [PoolNext]_vars => WholeInv' /\ [PR!Next]_(PR!vars)
  BY WholeStep
<1> QED BY <1>1, <1>2, PTL DEF PoolSpec, PoolIsRendezvous, PR!Spec

-----------------------------------------------------------------------------
(***************************************************************************)
(* Types                                                                   *)
(***************************************************************************)
Kinds == {"plain", "chunked"}

MainPlaces   == InCompute \cup {"idle", "kick", "kick_graph", "kick_wake", "return",
                                "free", "join", "freed"}
WorkerPlaces == InCompute \cup {"pause", "pause_lock", "pause_wait", "pause_woken",
                                "stop", "active", "poll", "poll_active", "lock",
                                "sleep", "exit"}
Runs == [graph : Seq(Kinds), nth : Nat, node : Nat, chunk : Nat]

PlaceTypes ==
    /\ pc \in [Threads -> MainPlaces \cup WorkerPlaces]
    /\ pc[0] \in MainPlaces
    /\ \A t \in Workers : pc[t] \in WorkerPlaces
    /\ mutex \in BOOLEAN
    /\ mutex <=> pc[0] \in {"kick_graph", "kick_wake", "free"}

DataTypes ==
    /\ scene \in DOMAIN Scenes
    /\ n_graph \in Nat
    /\ n_threads_cur \in 1 .. N
    /\ want \in 1 .. N
    /\ cgraph \in Seq(Kinds)
    /\ abort \in Nat \cup {-1}
    /\ ec \in {"success", "aborted"}
    /\ current_chunk \in Nat
    /\ last_graph \in [Threads -> Nat]
    /\ seen \in [Threads -> Nat]
    /\ run \in [Threads -> Runs]
    /\ done \in [Threads -> Nat]
    /\ work \in [1 .. Len(cgraph) -> [0 .. N + WantedChunks -> Nat]]

\* no call asks for more threads than the pool used last
NoGrow == \A c \in DOMAIN Scenes : ~Scenes[c].grow

WantInv == pc[0] = "kick" => want <= n_threads_cur

\* Thread 0 is one of the threads, and there is at least one.
LEMMA MainIsThread == N \in Nat \ {0} /\ 0 \in Threads /\ Threads \subseteq Nat
<1>1. N # 0
  BY ThreadsAssumption, FS_EmptySet DEF N
<1>2. Threads = 0 .. N - 1
  BY PoolAssumption
<1>3. N \in Nat
  BY PoolSizeType
<1> QED BY <1>1, <1>2, <1>3

\* A broadcast moves sleepers only, to where they wait for the mutex.
LEMMA BroadcastMoves ==
    ASSUME NEW p \in [Threads -> MainPlaces \cup WorkerPlaces]
    PROVE  /\ Broadcast(p) \in [Threads -> MainPlaces \cup WorkerPlaces]
           /\ \A t \in Threads :
                 \/ Broadcast(p)[t] = p[t] /\ p[t] \notin {"sleep", "pause_wait"}
                 \/ p[t] = "sleep" /\ Broadcast(p)[t] = "lock"
                 \/ p[t] = "pause_wait" /\ Broadcast(p)[t] = "pause_woken"
  BY DEF Broadcast, MainPlaces, WorkerPlaces, InCompute

\* The node a thread is at is of one of the two kinds.
LEMMA NodeKind ==
    ASSUME NEW r \in Runs, r.node < Len(r.graph)
    PROVE  r.graph[r.node + 1] \in Kinds
<1>1. r.graph \in Seq(Kinds) /\ r.node \in Nat
  BY DEF Runs
<1>2. Len(r.graph) \in Nat /\ r.graph \in [1 .. Len(r.graph) -> Kinds]
  BY <1>1
<1>3. r.node + 1 \in 1 .. Len(r.graph)
  BY <1>1, <1>2
<1> QED BY <1>2, <1>3

\* Each thread stays within its own function, and the mutex is held by thread 0
\* exactly while it is in the part of its code between lock and unlock.
LEMMA PlacesStep ==
    ASSUME PlaceTypes, DataTypes, PoolNext
    PROVE  PlaceTypes'
<1> USE MainIsThread DEF PlaceTypes
<1>1. CASE MainStep
  <2>1. CASE Kick
    BY <2>1 DEF Kick, Go, MainPlaces, Workers
  <2>4. CASE KickGraph
    BY <2>4 DEF KickGraph, Go, MainPlaces, Workers
  <2>5. CASE Return \/ Join
    BY <2>5 DEF Return, Join, Go, poolVars, MainPlaces, Workers
  <2>2. CASE KickWake
    <3> DEFINE p == [pc EXCEPT ![0] = "start"]
    <3>1. /\ p \in [Threads -> MainPlaces \cup WorkerPlaces]
          /\ p[0] = "start" /\ \A t \in Workers : p[t] \in WorkerPlaces
      BY DEF MainPlaces, InCompute, Workers
    <3>2. ~mutex' /\ mutex' \in BOOLEAN /\ pc' = Broadcast(p)
      BY <2>2, Zenon DEF KickWake
    <3> HIDE DEF p
    <3>3. pc'[0] = "start"
      BY <3>1, <3>2, BroadcastMoves
    <3>4. \A t \in Workers : pc'[t] \in WorkerPlaces
      BY <3>1, <3>2, BroadcastMoves DEF WorkerPlaces, Workers
    <3> QED BY <3>1, <3>2, <3>3, <3>4, BroadcastMoves DEF MainPlaces, InCompute
  <2>3. CASE FreeWake
    <3> DEFINE p == [pc EXCEPT ![0] = "join"]
    <3>1. /\ p \in [Threads -> MainPlaces \cup WorkerPlaces]
          /\ p[0] = "join" /\ \A t \in Workers : p[t] \in WorkerPlaces
      BY DEF MainPlaces, InCompute, Workers
    <3>2. ~mutex' /\ mutex' \in BOOLEAN /\ pc' = Broadcast(p)
      BY <2>3, Zenon DEF FreeWake
    <3> HIDE DEF p
    <3>3. pc'[0] = "join"
      BY <3>1, <3>2, BroadcastMoves
    <3>4. \A t \in Workers : pc'[t] \in WorkerPlaces
      BY <3>1, <3>2, BroadcastMoves DEF WorkerPlaces, Workers
    <3> QED BY <3>1, <3>2, <3>3, <3>4, BroadcastMoves DEF MainPlaces, InCompute
  <2> QED BY <1>1, <2>1, <2>2, <2>3, <2>4, <2>5 DEF MainStep
<1>2. CASE Ask
  <2>1. ASSUME NEW n \in Scenes[scene].counts, NEW g \in Scenes[scene].graphs,
               GraphCompute(n, g)
        PROVE  PlaceTypes'
    BY <2>1 DEF GraphCompute, Go, poolVars, MainPlaces, Workers
  <2>2. ASSUME NEW on \in BOOLEAN, SetPause(on) PROVE PlaceTypes'
    <3>1. mutex' = mutex /\ pc[0] = "idle" /\ (pc' = pc \/ pc' = Broadcast(pc))
      BY <2>2 DEF SetPause
    <3> QED BY <3>1, BroadcastMoves DEF MainPlaces, WorkerPlaces, InCompute, Workers
  <2>3. CASE Free
    BY <2>3 DEF Free, Go, MainPlaces, Workers
  <2> QED BY <1>2, <2>1, <2>2, <2>3 DEF Ask
<1>3. ASSUME NEW t \in Workers, WorkerStep(t) \/ SpuriousWake(t) PROVE PlaceTypes'
  <2>1. /\ \E to \in WorkerPlaces : pc' = [pc EXCEPT ![t] = to]
        /\ mutex' = mutex
    BY <1>3 DEF WorkerStep, SpuriousWake, PauseCheck, PauseLock, PauseWoken, StopCheck,
                PollActive, Poll, PollReady, SleepCheck, Go, workerKeeps, poolVars,
                WorkerPlaces, InCompute
  <2> QED BY <2>1 DEF Workers
<1>4. ASSUME NEW t \in Threads, ComputeStep(t) PROVE PlaceTypes'
  <2>1. \A r \in Runs : r.node < Len(r.graph) => r.graph[r.node + 1] \in Kinds
    BY NodeKind
  <2>2. run[t] \in Runs
    BY ZenonT(30) DEF DataTypes
  <2>3. /\ mutex' = mutex
        /\ \/ pc' = pc
           \/ /\ pc[t] \in InCompute
              /\ \E to \in InCompute \cup {IF t = 0 THEN "return" ELSE "pause"} :
                    pc' = [pc EXCEPT ![t] = to]
    BY <1>4, <2>1, <2>2, Zenon
       DEF ComputeStep, Start, Loop, Plain, ChunkSet, ChunkFirst, ChunkStep, ChunksOut,
           After, NodeBarrier, Final, BarrierStep, Go, computeKeeps, poolVars, InCompute,
           Kinds
  <2> QED BY <2>3 DEF Workers, MainPlaces, WorkerPlaces, InCompute
<1>5. CASE Terminated
  BY <1>5 DEF Terminated, vars, poolVars
<1> QED BY <1>1, <1>2, <1>3, <1>4, <1>5 DEF PoolNext

\* The counters, the graph and the locals of the threads keep their types.
LEMMA DataStep ==
    ASSUME PlaceTypes, DataTypes, PoolNext
    PROVE  DataTypes'
<1> USE DEF DataTypes
<1>1. CASE MainStep
  <2>1. CASE Kick
    BY <2>1 DEF Kick, mainKeeps, graphVars, history
  <2>2. CASE KickGraph
    BY <2>2, SMTT(20) DEF KickGraph, mainKeeps, graphVars, history, barrierVars
  <2>3. CASE KickWake \/ Return \/ FreeWake \/ Join
    BY <2>3, Zenon DEF KickWake, Return, FreeWake, Join, mainKeeps, graphVars, history,
                barrierVars, poolVars
  <2> QED BY <1>1, <2>1, <2>2, <2>3, Zenon DEF MainStep
<1>2. CASE Ask
  <2>1. ASSUME NEW n \in Scenes[scene].counts, NEW g \in Scenes[scene].graphs,
               GraphCompute(n, g)
        PROVE  DataTypes'
    <3>1. n \in Nat \ {0} /\ g \in Seq(Kinds) /\ N \in Nat \ {0}
      BY PoolAssumption, MainIsThread DEF Kinds
    <3>2. /\ cgraph' = g /\ current_chunk' = 0 /\ abort' = -1 /\ ec' = "success"
          /\ want' = IF n > N THEN N ELSE n
          /\ done' = [t \in Threads |-> 0] /\ work' = Nobody(g)
          /\ UNCHANGED <<scene, n_graph, n_threads_cur, last_graph, seen, run>>
      BY <2>1 DEF GraphCompute, poolVars, barrierVars, mainKeeps
    <3>3. want' \in 1 .. N
      BY <3>1, <3>2, SMTT(20)
    <3>4. work' \in [1 .. Len(cgraph') -> [0 .. N + WantedChunks -> Nat]]
      BY <3>2 DEF Nobody
    <3> QED BY <3>1, <3>2, <3>3, <3>4, Zenon
  <2>2. ASSUME NEW on \in BOOLEAN, SetPause(on) PROVE DataTypes'
    BY <2>2 DEF SetPause, mainKeeps, graphVars, history, barrierVars
  <2>3. CASE Free
    BY <2>3 DEF Free, mainKeeps, graphVars, history, barrierVars
  <2> QED BY <1>2, <2>1, <2>2, <2>3, Zenon DEF Ask
<1>3. ASSUME NEW t \in Workers, WorkerStep(t) \/ SpuriousWake(t) PROVE DataTypes'
  <2>1. UNCHANGED workerKeeps
    BY <1>3 DEF WorkerStep, SpuriousWake, PauseCheck, PauseLock, PauseWoken, StopCheck,
                PollActive, Poll, PollReady, SleepCheck
  <2>2. last_graph' \in [Threads -> Nat] /\ seen' \in [Threads -> Nat]
    BY <1>3, SMTT(20) DEF WorkerStep, SpuriousWake, PauseCheck, PauseLock, PauseWoken, StopCheck,
                PollActive, Poll, PollReady, SleepCheck, Workers
  <2> QED BY <2>1, <2>2 DEF workerKeeps, poolVars, graphVars, history, barrierVars
<1>4. ASSUME NEW t \in Threads, ComputeStep(t) PROVE DataTypes'
  <2>1. UNCHANGED <<scene, n_graph, want, last_graph, seen, cgraph, n_threads_cur>>
    BY <1>4, Zenon DEF ComputeStep, Start, Loop, Plain, ChunkSet, ChunkFirst, ChunkStep,
                ChunksOut, After, NodeBarrier, Final, BarrierStep, computeKeeps, poolVars,
                graphVars, barrierVars, Call, Inside, LoadThreads, LoadPassed, Enter,
                Reset, Release, Spin
  <2>2. run[t] \in Runs /\ t \in Nat
    BY MainIsThread
  <2>3. Idle \in Runs /\ [Idle EXCEPT !.graph = cgraph, !.nth = n_threads_cur] \in Runs
    <3>1. <<>> \in Seq(Kinds) /\ n_threads_cur \in Nat
      BY MainIsThread
    <3> QED BY <3>1, Zenon DEF Idle, Runs
  <2>4. run' \in [Threads -> Runs]
    <3>1. \A c \in Nat : [run[t] EXCEPT !.chunk = c] \in Runs
      BY <2>2, Zenon DEF Runs
    <3>2. \A n \in Nat : [run[t] EXCEPT !.node = n] \in Runs
      BY <2>2, Zenon DEF Runs
    <3>3. run[t].node + 1 \in Nat
      BY <2>2 DEF Runs
    <3>4. CASE Start(t) \/ Final(t)
      <4>1. \E r \in Runs : run' = [run EXCEPT ![t] = r]
        BY <2>3, <3>4 DEF Start, Final
      <4> QED BY <4>1
    <3>5. CASE ChunkFirst(t) \/ ChunkStep(t)
      <4>1. run' = run \/ \E c \in Nat : run' = [run EXCEPT ![t] = [run[t] EXCEPT !.chunk = c]]
        BY <2>2, <3>5, Zenon DEF ChunkFirst, ChunkStep
      <4> QED BY <3>1, <4>1, Zenon
    <3>6. CASE After(t) \/ NodeBarrier(t)
      <4>1. \/ run' = run
            \/ run' = [run EXCEPT ![t] = [run[t] EXCEPT !.node = run[t].node + 1]]
        BY <3>6 DEF After, NodeBarrier
      <4> QED BY <3>2, <3>3, <4>1, Zenon
    <3>7. CASE Loop(t) \/ Plain(t) \/ ChunkSet(t) \/ ChunksOut(t) \/ BarrierStep(t)
      BY <3>7 DEF Loop, Plain, ChunkSet, ChunksOut, BarrierStep
    <3> QED BY <1>4, <3>4, <3>5, <3>6, <3>7 DEF ComputeStep
  <2>5. /\ abort' \in Nat \cup {-1} /\ ec' \in {"success", "aborted"}
        /\ done' \in [Threads -> Nat]
    <3>1. CASE After(t)
      <4>1. run[t].node \in Nat
        BY <2>2 DEF Runs
      <4>2. done' = [done EXCEPT ![t] = done[t] + 1]
        BY <3>1 DEF After
      <4>3. UNCHANGED <<abort, ec>> \/ (abort' = run[t].node + 1 /\ ec' = "aborted")
        BY <3>1 DEF After
      <4>4. done' \in [Threads -> Nat]
        BY <4>2
      <4> QED BY <4>1, <4>3, <4>4
    <3>2. CASE ~After(t)
      <4>1. UNCHANGED <<abort, ec, done>>
        BY <1>4, <3>2 DEF ComputeStep, Start, Loop, Plain, ChunkSet, ChunkFirst, ChunkStep,
               ChunksOut, NodeBarrier, Final, BarrierStep, graphVars, history
      <4> QED BY <4>1
    <3> QED BY <3>1, <3>2
  <2>6. current_chunk' \in Nat
    BY <1>4, <2>2, SMTT(20) DEF ComputeStep, Start, Loop, Plain, ChunkSet, ChunkFirst, ChunkStep,
           ChunksOut, After, NodeBarrier, Final, BarrierStep, graphVars, Runs
  <2>7. work' \in [1 .. Len(cgraph) -> [0 .. N + WantedChunks -> Nat]]
    <3>1. CASE ChunkStep(t)
      <4>1. work' = [work EXCEPT ![run[t].node + 1][run[t].chunk] = @ + 1]
        BY <3>1 DEF ChunkStep
      <4>2. ASSUME NEW i \in 1 .. Len(cgraph), NEW c \in Nat
            PROVE  [work[i] EXCEPT ![c] = @ + 1] \in [0 .. N + WantedChunks -> Nat]
        <5> DEFINE D == 0 .. N + WantedChunks
        <5>1. PICK w \in [D -> Nat] : w = work[i]
          OBVIOUS
        <5> HIDE DEF D
        <5>2. c \in D => w[c] + 1 \in Nat
          OBVIOUS
        <5>3. [w EXCEPT ![c] = w[c] + 1] \in [D -> Nat]
          BY <5>2, Zenon
        <5> QED BY <5>1, <5>3 DEF D
      <4>3. run[t].chunk \in Nat
        BY <2>2 DEF Runs
      <4> QED BY <4>1, <4>2, <4>3, Zenon
    <3>2. CASE ~ChunkStep(t)
      <4>1. work' = work
        BY <1>4, <3>2 DEF ComputeStep, Start, Loop, Plain, ChunkSet, ChunkFirst,
               ChunksOut, After, NodeBarrier, Final, BarrierStep, history
      <4> QED BY <4>1
    <3> QED BY <3>1, <3>2
  <2> QED BY <2>1, <2>4, <2>5, <2>6, <2>7
<1>5. CASE Terminated
  BY <1>5 DEF Terminated, vars, poolVars, graphVars, history, barrierVars
<1> QED BY <1>1, <1>2, <1>3, <1>4, <1>5, Zenon DEF PoolNext

-----------------------------------------------------------------------------
(***************************************************************************)
(* Where the threads of a graph are                                        *)
(*                                                                         *)
(* The argument for the pool is that the threads of a graph are always at  *)
(* the same stage, a stage being what lies between two barriers.  Only the *)
(* thread that opens a barrier moves them to the next one, all at once.    *)
(***************************************************************************)
\* a graph is being computed, or its threads are being called
Underway == pc[0] \in InCompute \cup {"kick_wake"}

\* the thread has yet to take up the current graph
Due(t) == IF t = 0 THEN pc[0] = "kick_wake" ELSE last_graph[t] # n_graph

\* the barrier the thread called has let it go
Through(t) == bpc[t] = "out" \/ (bpc[t] = "spin" /\ n_passed[t] # n_barrier_passed)

AtBarrier == {"chunk_barrier", "node_barrier", "final"}

\* Where the thread is, seen from the barriers: one that a barrier has let go is
\* beyond it, although it may not have noticed.
Spot(t) ==
    IF Due(t) THEN "due"
    ELSE IF pc[t] \notin InCompute \/ (pc[t] = "final" /\ Through(t)) THEN "ended"
    ELSE IF pc[t] = "chunk_barrier" /\ Through(t) THEN "chunk_free"
    ELSE IF pc[t] = "node_barrier" /\ Through(t) THEN "node_free"
    ELSE pc[t]

Spots == InCompute \cup {"due", "chunk_free", "node_free", "ended"}

\* what a matrix product has more than another node: a barrier in its middle
Part(g, n) == IF g[n + 1] = "chunked" THEN 1 ELSE 0

LoopStage(g, n) ==
    IF n > 0 /\ n >= Len(g) THEN 2 * (n - 1) + Part(g, n - 1) ELSE 2 * n

\* the stage of a thread at spot s of node n: 2 * n up to the first barrier of the
\* node, 2 * n + 1 between the two of a matrix product, -1 behind the last one
Stage(s, n, g) ==
    CASE s \in {"due", "start"}                        -> 0
      [] s \in {"loop", "final"}                       -> LoopStage(g, n)
      [] s \in {"plain", "chunked", "chunk_barrier"}   -> 2 * n
      [] s \in {"chunk_free", "chunk"}                 -> 2 * n + 1
      [] s \in {"after", "node_barrier"}               -> 2 * n + Part(g, n)
      [] s = "node_free"                               -> 2 * (n + 1)
      [] s = "ended"                                   -> -1

Chunking == {"chunked", "chunk_barrier", "chunk_free", "chunk"}
Busy     == {"plain", "after"} \cup Chunking

\* What holds of a thread at spot s of node n of the graph g that has finished d
\* nodes, a being the node the graph is aborted at.
Sound(s, n, d, g, a) ==
    /\ s \in {"due", "start"} => d = 0
    /\ s \in Busy \cup {"loop", "final"} => d = n
    /\ s \in {"node_barrier", "node_free"} => d = n + 1 /\ n + 1 < Len(g)
    /\ s \in {"loop", "final"} => n <= Len(g)
    /\ s \in Busy => n < Len(g)
    /\ s = "plain" => g[n + 1] = "plain"
    /\ s \in Chunking => g[n + 1] = "chunked"
    /\ s \in Busy \cup {"node_barrier"} => a # n
    /\ s = "final" /\ n < Len(g) => a = n
    /\ s \in {"loop", "final"} /\ n = Len(g) /\ n > 0 => a # n - 1

\* The stage of each spot.
LEMMA StageIs ==
    ASSUME NEW g \in Seq(Kinds), NEW n \in Nat
    PROVE  /\ Len(g) \in Nat /\ Part(g, n) \in {0, 1}
           /\ \A s \in {"due", "start"} : Stage(s, n, g) = 0
           /\ \A s \in {"loop", "final"} :
                /\ n > 0 /\ n = Len(g) =>
                      /\ Stage(s, n, g) = 2 * (n - 1) + Part(g, n - 1)
                      /\ Part(g, n - 1) \in {0, 1}
                /\ n < Len(g) \/ n = 0 => Stage(s, n, g) = 2 * n
           /\ \A s \in {"plain", "chunked", "chunk_barrier"} : Stage(s, n, g) = 2 * n
           /\ \A s \in {"chunk_free", "chunk"} : Stage(s, n, g) = 2 * n + 1
           /\ \A s \in {"after", "node_barrier"} : Stage(s, n, g) = 2 * n + Part(g, n)
           /\ Stage("node_free", n, g) = 2 * (n + 1)
           /\ Stage("ended", n, g) = -1
<1>1. Len(g) \in Nat
  OBVIOUS
<1> QED BY <1>1 DEF Stage, LoopStage, Part

\* Two threads that wait at the same stage wait at the same barrier, and its
\* opening takes them to the same stage.
LEMMA SameBarrier ==
    ASSUME NEW g \in Seq(Kinds), NEW a \in Int, NEW n \in Nat, NEW m \in Nat,
           NEW d \in Nat, NEW e \in Nat, NEW p \in AtBarrier, NEW q \in AtBarrier,
           Sound(p, n, d, g, a), Sound(q, m, e, g, a), Stage(p, n, g) = Stage(q, m, g)
    PROVE  p = q /\ n = m /\ d = e
<1>1. Len(g) \in Nat
  OBVIOUS
<1> USE <1>1 DEF AtBarrier, Sound, Stage, LoopStage, Part, Busy, Chunking
<1>2. CASE p = "chunk_barrier"
  BY <1>2, SMTT(20)
<1>3. CASE p = "node_barrier"
  <2>1. CASE q = "chunk_barrier"
    BY <1>3, <2>1
  <2>2. CASE q = "node_barrier"
    <3> DEFINE x == Part(g, n)
               y == Part(g, m)
    <3>1. 2 * n + x = 2 * m + y
      BY <1>3, <2>2, Zenon
    <3>2. x \in {0, 1} /\ y \in {0, 1}
      OBVIOUS
    <3>3. d = n + 1 /\ e = m + 1
      BY <1>3, <2>2
    <3> HIDE DEF x, y
    <3>4. n = m
      BY <3>1, <3>2, SMTT(20)
    <3> QED BY <1>3, <2>2, <3>3, <3>4
  <2>3. CASE q = "final"
    BY <1>3, <2>3
  <2> QED BY <2>1, <2>2, <2>3
<1>4. CASE p = "final"
  <2>1. CASE q = "chunk_barrier"
    BY <1>4, <2>1
  <2>2. CASE q = "node_barrier"
    BY <1>4, <2>2
  <2>3. CASE q = "final"
    <3>1. d = n /\ e = m /\ n <= Len(g) /\ m <= Len(g)
      BY <1>4, <2>3
    <3>2. CASE n < Len(g) /\ m < Len(g)
      BY <1>4, <2>3, <3>1, <3>2
    <3>3. CASE n = Len(g) /\ m = Len(g)
      BY <1>4, <2>3, <3>1, <3>3
    <3>4. CASE n < Len(g) /\ m = Len(g)
      <4>1. a = n /\ a # m - 1 /\ m > 0
        BY <1>4, <2>3, <3>4, SMTT(20)
      <4> HIDE DEF Stage, LoopStage, Part
      <4>2. Stage("final", n, g) = 2 * n
        BY <3>4, StageIs, Zenon
      <4>3. /\ Stage("final", m, g) = 2 * (m - 1) + Part(g, m - 1)
            /\ Part(g, m - 1) \in {0, 1}
        BY <3>4, <4>1, StageIs, Zenon
      <4> QED BY <1>4, <2>3, <4>1, <4>2, <4>3
    <3>5. CASE n = Len(g) /\ m < Len(g)
      <4>1. a = m /\ a # n - 1 /\ n > 0
        BY <1>4, <2>3, <3>5
      <4> HIDE DEF Stage, LoopStage, Part
      <4>2. Stage("final", m, g) = 2 * m
        BY <3>5, StageIs
      <4>3. /\ Stage("final", n, g) = 2 * (n - 1) + Part(g, n - 1)
            /\ Part(g, n - 1) \in {0, 1}
        BY <3>5, <4>1, StageIs, Zenon
      <4> QED BY <1>4, <2>3, <4>1, <4>2, <4>3
    <3> QED BY <3>1, <3>2, <3>3, <3>4, <3>5
  <2> QED BY <2>1, <2>2, <2>3
<1> QED BY <1>2, <1>3, <1>4

\* When thread 0 aborts the graph behind a node, no thread at its stage has yet
\* compared the abort mark with that node or a later one.
LEMMA AbortUnseen ==
    ASSUME NEW g \in Seq(Kinds), NEW a \in Int, NEW n \in Nat, NEW m \in Nat,
           NEW d \in Nat, NEW e \in Nat, NEW s \in Spots,
           Sound("after", n, d, g, a), Sound(s, m, e, g, a),
           Stage("after", n, g) = Stage(s, m, g)
    PROVE  Sound(s, m, e, g, n + 1)
<1>1. Len(g) \in Nat
  OBVIOUS
<1>2. a # n /\ n < Len(g)
  BY DEF Sound, Busy
<1> USE <1>1, <1>2 DEF Sound, Stage, LoopStage, Part, Busy, Chunking
<1>3. CASE s \in {"loop", "final"}
  BY <1>3, SMTT(20)
<1>4. CASE s \in Busy \cup {"node_barrier"}
  BY <1>4, SMTT(20)
<1>5. CASE s \in {"due", "start", "node_free", "ended"}
  BY <1>5, Zenon
<1> QED BY <1>3, <1>4, <1>5 DEF Spots, InCompute

\* A thread at the stage of one that works on a node has finished all before it.
LEMMA NotBehind ==
    ASSUME NEW g \in Seq(Kinds), NEW a \in Int, NEW n \in Nat, NEW m \in Nat,
           NEW d \in Nat, NEW e \in Nat, NEW s \in Spots, NEW b \in Busy,
           Sound(b, n, d, g, a), Sound(s, m, e, g, a), Stage(b, n, g) = Stage(s, m, g)
    PROVE  e >= n
<1>1. Len(g) \in Nat
  OBVIOUS
<1>2. n < Len(g) /\ Stage(b, n, g) \in {2 * n, 2 * n + 1}
  BY DEF Sound, Busy, Chunking, Stage, Part
<1>3. CASE s \in {"loop", "final"}
  <2>1. e = m /\ m <= Len(g)
    BY <1>3 DEF Sound
  <2>2. CASE m > 0 /\ m = Len(g)
    BY <1>1, <1>2, <2>1, <2>2
  <2>3. CASE m < Len(g) \/ m = 0
    <3>1. Stage(s, m, g) = 2 * m
      BY <1>3, <2>3, StageIs, Zenon
    <3> QED BY <1>2, <2>1, <3>1
  <2> QED BY <1>1, <2>1, <2>2, <2>3
<1>4. CASE s \in Busy
  <2>1. e = m
    BY <1>4 DEF Sound
  <2>2. Stage(s, m, g) \in {2 * m, 2 * m + 1}
    BY <1>4 DEF Busy, Chunking, Stage, Part
  <2> QED BY <1>2, <2>1, <2>2
<1>5. CASE s \in {"node_barrier", "node_free"}
  <2>1. e = m + 1
    BY <1>5 DEF Sound
  <2>2. Stage(s, m, g) \in {2 * m, 2 * m + 1, 2 * (m + 1)}
    BY <1>5 DEF Stage, Part
  <2> QED BY <1>2, <2>1, <2>2
<1>6. CASE s \in {"due", "start", "ended"}
  <2>1. Stage(s, m, g) \in {0, -1}
    BY <1>6 DEF Stage
  <2> QED BY <1>2, <2>1
<1> QED BY <1>3, <1>4, <1>5, <1>6 DEF Spots, InCompute, Busy, Chunking

\* Only behind the last barrier is the stage -1.
LEMMA EndedStage ==
    ASSUME NEW g \in Seq(Kinds), NEW n \in Nat, NEW s \in Spots
    PROVE  Stage(s, n, g) = -1 <=> s = "ended"
<1>1. Len(g) \in Nat
  BY SMTT(20)
<1> QED BY <1>1 DEF Stage, LoopStage, Part, Spots, InCompute

\* A thread that goes on in the code of a graph stays sound and within its stage:
\* from the start to the loop,
LEMMA StartGoesOn ==
    ASSUME NEW g \in Seq(Kinds), NEW a \in Int, NEW n \in Nat, NEW d \in Nat,
           Sound("start", n, d, g, a)
    PROVE  Sound("loop", 0, d, g, a) /\ Stage("loop", 0, g) = Stage("start", n, g)
<1>1. Len(g) \in Nat
  OBVIOUS
<1>2. Stage("loop", 0, g) = 0 /\ Stage("start", n, g) = 0
  BY StageIs
<1> QED BY <1>1, <1>2 DEF Sound, Busy, Chunking

\* into a node,
LEMMA LoopGoesOn ==
    ASSUME NEW g \in Seq(Kinds), NEW a \in Int, NEW n \in Nat, NEW d \in Nat,
           Sound("loop", n, d, g, a), n < Len(g), a # n
    PROVE  /\ g[n + 1] \in Kinds
           /\ Sound(g[n + 1], n, d, g, a) /\ Stage(g[n + 1], n, g) = Stage("loop", n, g)
<1>1. Len(g) \in Nat /\ n + 1 \in 1 .. Len(g)
  OBVIOUS
<1>2. g[n + 1] \in Kinds
  BY <1>1
<1> QED BY <1>1, <1>2, StageIs, ZenonT(30) DEF Sound, Busy, Chunking, Kinds

\* out of the loop,
LEMMA LoopEnds ==
    ASSUME NEW g \in Seq(Kinds), NEW a \in Int, NEW n \in Nat, NEW d \in Nat,
           Sound("loop", n, d, g, a), ~(n < Len(g) /\ a # n)
    PROVE  Sound("final", n, d, g, a) /\ Stage("final", n, g) = Stage("loop", n, g)
<1>1. Len(g) \in Nat
  OBVIOUS
<1> QED BY <1>1 DEF Sound, Busy, Chunking, Stage

\* through a node that is computed in one piece or in chunks,
LEMMA PlainGoesOn ==
    ASSUME NEW g \in Seq(Kinds), NEW a \in Int, NEW n \in Nat, NEW d \in Nat,
           Sound("plain", n, d, g, a)
    PROVE  Sound("after", n, d, g, a) /\ Stage("after", n, g) = Stage("plain", n, g)
<1>1. Len(g) \in Nat
  OBVIOUS
<1> QED BY <1>1 DEF Sound, Busy, Chunking, Stage, Part

LEMMA ChunkedGoesOn ==
    ASSUME NEW g \in Seq(Kinds), NEW a \in Int, NEW n \in Nat, NEW d \in Nat,
           Sound("chunked", n, d, g, a)
    PROVE  /\ Sound("chunk_barrier", n, d, g, a)
           /\ Stage("chunk_barrier", n, g) = Stage("chunked", n, g)
  BY DEF Sound, Busy, Chunking, Stage

LEMMA ChunkFreeGoesOn ==
    ASSUME NEW g \in Seq(Kinds), NEW a \in Int, NEW n \in Nat, NEW d \in Nat,
           Sound("chunk_free", n, d, g, a)
    PROVE  Sound("chunk", n, d, g, a) /\ Stage("chunk", n, g) = Stage("chunk_free", n, g)
  BY DEF Sound, Busy, Chunking, Stage

LEMMA ChunkGoesOn ==
    ASSUME NEW g \in Seq(Kinds), NEW a \in Int, NEW n \in Nat, NEW d \in Nat,
           Sound("chunk", n, d, g, a)
    PROVE  Sound("after", n, d, g, a) /\ Stage("after", n, g) = Stage("chunk", n, g)
<1>1. Len(g) \in Nat
  OBVIOUS
<1> QED BY <1>1 DEF Sound, Busy, Chunking, Stage, Part

\* and on to the next node.
LEMMA NodeGoesOn ==
    ASSUME NEW g \in Seq(Kinds), NEW a \in Int, NEW n \in Nat, NEW d \in Nat,
           Sound("node_free", n, d, g, a)
    PROVE  Sound("loop", n + 1, d, g, a) /\ Stage("loop", n + 1, g) = Stage("node_free", n, g)
<1>1. Len(g) \in Nat
  OBVIOUS
<1>2. d = n + 1 /\ n + 1 < Len(g) /\ n + 1 \in Nat
  BY DEF Sound
<1>3. Stage("loop", n + 1, g) = 2 * (n + 1) /\ Stage("node_free", n, g) = 2 * (n + 1)
  BY <1>1, <1>2 DEF Stage, LoopStage
<1> QED BY <1>1, <1>2, <1>3 DEF Sound, Busy, Chunking

\* So does one behind a node, whether or not the callback aborts the graph there.
LEMMA GoesOnAfter ==
    ASSUME NEW g \in Seq(Kinds), NEW a \in Int, NEW n \in Nat, NEW d \in Nat,
           NEW b \in {a, n + 1}, Sound("after", n, d, g, a)
    PROVE  /\ n + 1 < Len(g) =>
                /\ Sound("node_barrier", n, d + 1, g, b)
                /\ Stage("node_barrier", n, g) = Stage("after", n, g)
           /\ n + 1 >= Len(g) =>
                /\ Sound("loop", n + 1, d + 1, g, b)
                /\ Stage("loop", n + 1, g) = Stage("after", n, g)
<1>1. Len(g) \in Nat /\ n + 1 \in Nat /\ (n + 1) - 1 = n
  OBVIOUS
<1>2. d = n /\ n < Len(g) /\ a # n
  BY DEF Sound, Busy
<1>3. CASE n + 1 < Len(g)
  <2>1. Stage("node_barrier", n, g) = Stage("after", n, g)
    BY DEF Stage
  <2>2. Sound("node_barrier", n, d + 1, g, b)
    BY <1>1, <1>2, <1>3, SMTT(20) DEF Sound, Busy, Chunking
  <2> QED BY <1>1, <1>3, <2>1, <2>2
<1>4. CASE n + 1 >= Len(g)
  <2>1. n + 1 = Len(g)
    BY <1>1, <1>2, <1>4
  <2>2. Stage("loop", n + 1, g) = 2 * n + Part(g, n)
    BY <1>1, <2>1 DEF Stage, LoopStage
  <2>3. Stage("after", n, g) = 2 * n + Part(g, n)
    BY StageIs
  <2> QED BY <1>1, <1>2, <2>1, <2>2, <2>3 DEF Sound, Busy, Chunking
<1> QED BY <1>1, <1>3, <1>4

\* A thread of a graph has done no more nodes than there are.
LEMMA SoundBounds ==
    ASSUME NEW g \in Seq(Kinds), NEW a \in Int, NEW n \in Nat, NEW d \in Nat,
           NEW s \in Spots, Sound(s, n, d, g, a), s # "ended"
    PROVE  d <= Len(g)
<1>1. Len(g) \in Nat
  OBVIOUS
<1> QED BY <1>1 DEF Sound, Spots, InCompute, Busy, Chunking

-----------------------------------------------------------------------------
(***************************************************************************)
(* The invariant of the pool                                               *)
(***************************************************************************)
StageOf(t) == Stage(Spot(t), run[t].node, cgraph)

\* what holds of each thread: it takes part only in a graph that is underway and
\* that it was called for, one that a graph does not use is on its way out of an
\* earlier barrier at most, and one about to look whether the graph uses it has
\* seen the current graph
ThreadInv(t) ==
    /\ last_graph[t] <= n_graph /\ seen[t] <= n_graph
    /\ bpc[t] # "out" => pc[t] \in AtBarrier
    /\ pc[t] \in InCompute \ {"final"} => t \in Active /\ ~Due(t)
    /\ t \in Active /\ Spot(t) # "ended" => Underway
    /\ t \in Active /\ Spot(t) \notin {"ended", "due", "start"} =>
            run[t].graph = cgraph /\ run[t].nth = n_threads_cur
    /\ t \in Active => Sound(Spot(t), run[t].node, done[t], cgraph, abort)
    /\ t \in Active /\ Due(t) => Through(t)
    /\ t \notin Active => bpc[t] \in {"out", "spin"}
    /\ t \in Active /\ pc[t] = "poll_active" => Due(t) /\ seen[t] = n_graph

\* all threads of the graph are at the same stage
InPhase == \A t \in Active : StageOf(t) = StageOf(0)

\* behind the last barrier all have done the same nodes: every node, if the graph
\* was not aborted
EndInv ==
    /\ done[0] <= Len(cgraph)
    /\ Spot(0) = "ended" => \A t \in Active : done[t] = done[0]
    /\ Spot(0) = "ended" /\ pc[0] \in {"final", "return"} /\ ec = "success" =>
            done[0] = Len(cgraph)

KickInv ==
    /\ pc[0] \in {"kick", "kick_graph"} => /\ \A t \in Threads : done[t] = 0
                                           /\ work = Nobody(cgraph)
    /\ pc[0] \in {"kick", "kick_graph", "kick_wake"} => abort = -1 /\ ec = "success"
    /\ pc[0] \in InCompute /\ ec = "success" => abort = -1

GraphInv == (\A t \in Threads : ThreadInv(t)) /\ InPhase /\ EndInv /\ KickInv

PoolInv == PlaceTypes /\ DataTypes /\ WantInv /\ IInv(Active) /\ GraphInv

\* The threads of the current graph are the first n_threads_cur, thread 0 with them.
LEMMA ActiveIs ==
    ASSUME NEW n \in 1 .. N
    PROVE  /\ {t \in Threads : t < n} \in SUBSET Threads
           /\ 0 \in {t \in Threads : t < n}
           /\ Cardinality({t \in Threads : t < n}) = n
<1>1. Threads = 0 .. N - 1 /\ N \in Nat \ {0}
  BY PoolAssumption, MainIsThread
<1>2. {t \in Threads : t < n} = 0 .. n - 1
  BY <1>1
<1>3. n \in Nat /\ 0 \in Int /\ n - 1 \in Int
  BY <1>1
<1>4. Cardinality(0 .. n - 1) = IF 0 > n - 1 THEN 0 ELSE (n - 1) - 0 + 1
  BY <1>3, FS_Interval
<1>5. Cardinality(0 .. n - 1) = n
  BY <1>1, <1>4
<1>6. 0 \in 0 .. n - 1
  BY <1>1
<1> QED BY <1>2, <1>5, <1>6, Zenon

\* Every thread is at one of the spots.
LEMMA SpotType ==
    ASSUME NEW t \in Threads
    PROVE  Spot(t) \in Spots
  BY Zenon DEF Spot, Spots

\* what a step of others leaves as it is for thread u
Keeps(u) ==
    /\ pc'[u] = pc[u] /\ bpc'[u] = bpc[u] /\ run'[u] = run[u]
    /\ last_graph'[u] = last_graph[u] /\ seen'[u] = seen[u]
    /\ Through(u)' <=> Through(u)
    /\ n_graph' = n_graph /\ n_threads_cur' = n_threads_cur

\* Steps of others keep what holds of a thread, if the graph stays underway or the
\* thread has ended it, and if the thread is sound with the new abort mark.
LEMMA Kept ==
    ASSUME NEW u \in Threads, ThreadInv(u), Keeps(u),
           u \in Active => Sound(Spot(u), run[u].node, done'[u], cgraph', abort'),
           Underway' \/ (u \in Active => Spot(u) = "ended"),
           cgraph' = cgraph \/ (u \in Active => Spot(u) = "ended")
    PROVE  ThreadInv(u)' /\ Spot(u)' = Spot(u)
<1>1. (Due(u)' <=> Due(u)) /\ (u \in Active' <=> u \in Active)
  BY Zenon DEF Keeps, Due, Active
<1>2. Spot(u)' = Spot(u)
  BY <1>1, Zenon DEF Keeps, Spot
<1>3. /\ last_graph'[u] <= n_graph' /\ seen'[u] <= n_graph'
      /\ bpc'[u] # "out" => pc'[u] \in AtBarrier
      /\ pc'[u] \in InCompute \ {"final"} => u \in Active' /\ ~Due(u)'
  BY <1>1, Zenon DEF ThreadInv, Keeps
<1>4. u \in Active' /\ Spot(u)' # "ended" => Underway'
  BY <1>1, <1>2, Zenon
<1>5. u \in Active' /\ Spot(u)' \notin {"ended", "due", "start"} =>
            run'[u].graph = cgraph' /\ run'[u].nth = n_threads_cur'
  BY <1>1, <1>2, Zenon DEF ThreadInv, Keeps
<1>6. u \in Active' => Sound(Spot(u), run[u].node, done[u], cgraph, abort)'
  BY <1>1, <1>2, ZenonT(30) DEF Keeps
<1>7. /\ u \in Active' /\ Due(u)' => Through(u)'
      /\ u \notin Active' => bpc'[u] \in {"out", "spin"}
      /\ u \in Active' /\ pc'[u] = "poll_active" => Due(u)' /\ seen'[u] = n_graph'
  BY <1>1, Zenon DEF ThreadInv, Keeps
<1> QED BY <1>2, <1>3, <1>4, <1>5, <1>6, <1>7, Zenon DEF ThreadInv

\* When one thread of a graph is behind the last barrier, all of them are.
LEMMA EndTogether ==
    ASSUME PoolInv, NEW u \in Active
    PROVE  Spot(u) = "ended" <=> Spot(0) = "ended"
<1>1. cgraph \in Seq(Kinds) /\ run[u].node \in Nat /\ run[0].node \in Nat
  BY MainIsThread, Zenon DEF PoolInv, DataTypes, Runs, Active
<1>2. StageOf(u) = StageOf(0)
  BY DEF PoolInv, GraphInv, InPhase
<1>3. StageOf(0) = -1 <=> Spot(0) = "ended"
  BY <1>1, SpotType, MainIsThread, EndedStage DEF StageOf
<1>4. StageOf(u) = -1 <=> Spot(u) = "ended"
  BY <1>1, SpotType, EndedStage, Zenon DEF StageOf, Active
<1> QED BY <1>2, <1>3, <1>4

\* a step that only thread t takes part in
Alone(t) ==
    /\ \A u \in Threads \ {t} : Keeps(u) /\ done'[u] = done[u]
    /\ cgraph' = cgraph /\ n_graph' = n_graph /\ n_threads_cur' = n_threads_cur

\* a step of thread t that keeps every thread of the graph at its stage
Within(t) ==
    /\ Alone(t)
    /\ \A u \in Active : StageOf(u)' = StageOf(u) /\ (u # t => Spot(u)' = Spot(u))

\* When one thread takes a step within its stage, the others stay where they are.
LEMMA OthersStay ==
    ASSUME PoolInv, NEW t \in Threads, Alone(t), Underway' \/ Spot(0) = "ended",
           \/ abort' = abort
           \/ \A u \in Active : Sound(Spot(u), run[u].node, done[u], cgraph, abort')
    PROVE  \A u \in Threads \ {t} :
              ThreadInv(u)' /\ Spot(u)' = Spot(u) /\ StageOf(u)' = StageOf(u)
<1> SUFFICES ASSUME NEW u \in Threads \ {t}
             PROVE  ThreadInv(u)' /\ Spot(u)' = Spot(u) /\ StageOf(u)' = StageOf(u)
  OBVIOUS
<1>1. ThreadInv(u) /\ Keeps(u) /\ done'[u] = done[u]
  BY DEF PoolInv, GraphInv, Alone
<1>2. Spot(0) = "ended" /\ u \in Active => Spot(u) = "ended"
  BY EndTogether, Zenon
<1>3. u \in Active => Sound(Spot(u), run[u].node, done'[u], cgraph', abort')
  BY <1>1, Zenon DEF ThreadInv, Alone
<1>4. ThreadInv(u)' /\ Spot(u)' = Spot(u)
  BY <1>1, <1>2, <1>3, Kept, Zenon DEF Alone
<1> QED BY <1>1, <1>4, Zenon DEF StageOf, Keeps, Alone

\* a step of thread t within ggml_graph_compute_thread
Moved(t) ==
    /\ Alone(t) /\ UNCHANGED <<last_graph, seen>>
    /\ pc[t] \in InCompute /\ pc'[t] \in InCompute
    /\ bpc'[t] # "out" => pc'[t] \in AtBarrier
    /\ run'[t].graph = cgraph /\ run'[t].nth = n_threads_cur

\* A thread that stays sound and within its stage keeps the invariant.
LEMMA MoveKeeps ==
    ASSUME PoolInv, DataTypes', NEW t \in Active, Spot(t) \notin {"ended", "due"}, Moved(t),
           \/ abort' = abort /\ ec' = ec
           \/ /\ t = 0 /\ ec' = "aborted"
              /\ \A u \in Active : Sound(Spot(u), run[u].node, done[u], cgraph, abort'),
           Sound(Spot(t), run[t].node, done[t], cgraph, abort)',
           StageOf(t)' = StageOf(t)
    PROVE  GraphInv' /\ Within(t)
<1>1. t \in Threads /\ ThreadInv(t) /\ 0 \in Threads /\ Active' = Active
  BY MainIsThread, Zenon DEF Active, PoolInv, GraphInv, Moved, Alone
<1>2. ~Due(t) /\ Underway
  BY <1>1, Zenon DEF ThreadInv, Spot
<1>3. t = 0 \/ pc'[0] = pc[0]
  BY <1>1, Zenon DEF Moved, Alone, Keeps
<1>4. Underway'
  BY <1>2, <1>3, Zenon DEF Underway, Moved
<1>5. \A u \in Threads \ {t} :
        ThreadInv(u)' /\ Spot(u)' = Spot(u) /\ StageOf(u)' = StageOf(u)
  BY <1>1, <1>4, OthersStay, Zenon DEF Moved
<1>6. ~Due(t)'
  BY <1>2, Zenon DEF Due, Moved, Alone, InCompute
<1>7. ThreadInv(t)'
  <2>1. last_graph'[t] <= n_graph' /\ seen'[t] <= n_graph'
    BY <1>1, Zenon DEF ThreadInv, Moved, Alone
  <2>2. pc'[t] # "poll_active" /\ t \in Active'
    BY <1>1, Zenon DEF Moved, InCompute
  <2>3. /\ bpc'[t] # "out" => pc'[t] \in AtBarrier
        /\ run'[t].graph = cgraph' /\ run'[t].nth = n_threads_cur'
    BY Zenon DEF Moved, Alone
  <2> QED BY <1>4, <1>6, <2>1, <2>2, <2>3, Zenon DEF ThreadInv
<1>8. \A u \in Active' : StageOf(u)' = StageOf(u) /\ StageOf(u) = StageOf(0)
  BY <1>1, <1>5, Zenon DEF PoolInv, GraphInv, InPhase, Active
<1>9. 0 \in Active
  BY ActiveIs, Zenon DEF PoolInv, DataTypes, Active
<1>10. InPhase'
  BY <1>1, <1>8, <1>9, Zenon DEF InPhase
<1>11. Spot(0)' # "ended"
  <2>1. /\ cgraph \in Seq(Kinds) /\ cgraph' \in Seq(Kinds)
        /\ run[0].node \in Nat /\ run'[0].node \in Nat
    BY <1>1, Zenon DEF PoolInv, DataTypes, Runs
  <2>2. Spot(0) \in Spots /\ Spot(0)' \in Spots
    BY <1>1, SpotType, Zenon DEF Spot, Spots
  <2>3. Spot(0) # "ended"
    BY EndTogether, Zenon
  <2>4. StageOf(0) # -1
    BY <2>1, <2>2, <2>3, EndedStage, Zenon DEF StageOf
  <2>5. StageOf(0)' # -1
    BY <1>1, <1>8, <1>9, <2>4, Zenon
  <2> QED BY <2>1, <2>2, <2>5, EndedStage, Zenon DEF StageOf
<1>12. done'[0] <= Len(cgraph')
  <2>1. ThreadInv(0)'
    BY <1>1, <1>5, <1>7, Zenon
  <2>2. Sound(Spot(0), run[0].node, done[0], cgraph, abort)'
    BY <1>1, <1>9, <2>1, Zenon DEF ThreadInv
  <2>3. /\ cgraph' \in Seq(Kinds) /\ run'[0].node \in Nat
        /\ done'[0] \in Nat /\ abort' \in Int
    <3>1. /\ run' \in [Threads -> Runs] /\ done' \in [Threads -> Nat]
          /\ cgraph' \in Seq(Kinds) /\ abort' \in Int
      BY SMTT(20) DEF DataTypes
    <3> QED BY <1>1, <3>1, Zenon DEF Runs
  <2>4. Spot(0)' \in Spots
    BY Zenon DEF Spot, Spots
  <2> QED BY <1>11, <2>2, <2>3, <2>4, SoundBounds, Zenon
<1>13. EndInv'
  BY <1>11, <1>12, Zenon DEF EndInv
<1>14. KickInv'
  BY <1>2, <1>3, Zenon DEF PoolInv, GraphInv, KickInv, Moved, Underway, InCompute
<1>15. Within(t)
  BY <1>1, <1>5, <1>8, Zenon DEF Within, Moved, Active
<1> QED BY <1>5, <1>7, <1>10, <1>13, <1>14, <1>15, Zenon DEF GraphInv

\* The steps a thread takes outside ggml_barrier are its own.
LEMMA ComputeAlone ==
    ASSUME PoolInv, NEW t \in Threads,
           \/ Start(t) \/ Loop(t) \/ Plain(t) \/ ChunkSet(t) \/ ChunkFirst(t) \/ ChunkStep(t)
           \/ ChunksOut(t) \/ After(t) \/ NodeBarrier(t) \/ Final(t)
    PROVE  Alone(t) /\ UNCHANGED <<last_graph, seen>>
<1>1. UNCHANGED <<n_graph, last_graph, seen, cgraph, n_threads_cur, n_barrier_passed, n_passed>>
  BY Zenon DEF Start, Loop, Plain, ChunkSet, ChunkFirst, ChunkStep, ChunksOut, After, NodeBarrier,
         Final, computeKeeps, poolVars, graphVars, barrierVars, counters, locals, Call
<1>2. \A u \in Threads \ {t} : pc'[u] = pc[u]
  BY ZenonT(30) DEF Start, Loop, Plain, ChunkSet, ChunkFirst, ChunkStep, ChunksOut, After, NodeBarrier,
         Final, Go, PoolInv, PlaceTypes
<1>3. \A u \in Threads \ {t} : bpc'[u] = bpc[u]
  BY Zenon DEF Start, Loop, Plain, ChunkSet, ChunkFirst, ChunkStep, ChunksOut, After, NodeBarrier,
         Final, barrierVars, Call, At, PoolInv, IInv, BarrierTypeOK
<1>4. \A u \in Threads \ {t} : run'[u] = run[u]
  BY DEF Start, Loop, Plain, ChunkSet, ChunkFirst, ChunkStep, ChunksOut, After, NodeBarrier,
         Final, PoolInv, DataTypes
<1>5. \A u \in Threads \ {t} : done'[u] = done[u]
  BY Zenon DEF Start, Loop, Plain, ChunkSet, ChunkFirst, ChunkStep, ChunksOut, After, NodeBarrier,
         Final, history, PoolInv, DataTypes
<1>6. \A u \in Threads \ {t} : Through(u)' <=> Through(u)
  BY <1>1, <1>3, Zenon DEF Through
<1> QED BY <1>1, <1>2, <1>3, <1>4, <1>5, <1>6, ZenonT(30) DEF Alone, Keeps

\* Every such step but the last of a graph keeps the invariant.
LEMMA ComputeKeeps ==
    ASSUME PoolInv, DataTypes', NEW t \in Threads,
           \/ Start(t) \/ Loop(t) \/ Plain(t) \/ ChunkSet(t) \/ ChunkFirst(t) \/ ChunkStep(t)
           \/ ChunksOut(t) \/ After(t) \/ NodeBarrier(t)
    PROVE  GraphInv' /\ Within(t)
<1> DEFINE n == run[t].node
           g == cgraph
           d == done[t]
<1>1. /\ pc[t] \in InCompute \ {"final"}
      /\ ThreadInv(t)
  BY Zenon DEF PoolInv, GraphInv, Start, Loop, Plain, ChunkSet, ChunkFirst, ChunkStep, ChunksOut,
         After, NodeBarrier, Go, InCompute
<1>2. t \in Active /\ ~Due(t) /\ Spot(t) \notin {"ended", "due"}
  BY <1>1, Zenon DEF ThreadInv, Spot, InCompute
<1>3. /\ n \in Nat /\ g \in Seq(Kinds) /\ d \in Nat /\ abort \in Int /\ run[t] \in Runs
      /\ run \in [Threads -> Runs] /\ done \in [Threads -> Nat]
  <2>1. /\ run \in [Threads -> Runs] /\ done \in [Threads -> Nat]
        /\ g \in Seq(Kinds) /\ abort \in Int
    BY SMTT(20) DEF PoolInv, DataTypes
  <2> QED BY <2>1, Zenon DEF Runs
<1>0. pc \in [Threads -> MainPlaces \cup WorkerPlaces] /\ bpc \in [Threads -> Places]
  BY DEF PoolInv, PlaceTypes, IInv, BarrierTypeOK
<1>4. Sound(Spot(t), n, d, g, abort)
  BY <1>1, <1>2, Zenon DEF ThreadInv
<1>5. Spot(t) # "start" => run[t].graph = g /\ run[t].nth = n_threads_cur
  BY <1>1, <1>2, Zenon DEF ThreadInv
<1>6. Alone(t) /\ UNCHANGED <<last_graph, seen>>
  BY ComputeAlone, Zenon
<1>7. bpc[t] # "out" => pc[t] \in AtBarrier
  BY <1>1, Zenon DEF ThreadInv
<1>8. ASSUME NEW p \in InCompute, pc'[t] = p, UNCHANGED <<abort, ec>>,
             bpc'[t] # "out" => p \in AtBarrier,
             NEW s, Spot(t)' = s, NEW m \in Nat, run'[t].node = m, NEW e, done'[t] = e,
             run'[t].graph = g, run'[t].nth = n_threads_cur,
             Sound(s, m, e, g, abort), Stage(s, m, g) = Stage(Spot(t), n, g)
      PROVE  GraphInv' /\ Within(t)
  <2>1. Moved(t) /\ g' = g
    BY <1>1, <1>6, <1>8, Zenon DEF Moved, Alone
  <2>2. StageOf(t)' = StageOf(t)
    BY <1>8, <2>1, Zenon DEF StageOf
  <2>3. Sound(Spot(t), run[t].node, done[t], cgraph, abort)'
    BY <1>8, <2>1, Zenon
  <2> QED BY <1>2, <1>8, <2>1, <2>2, <2>3, MoveKeeps, Zenon
<1>9. pc'[t] \in InCompute =>
        /\ pc'[t] \notin AtBarrier \/ bpc'[t] = "call" => Spot(t)' = pc'[t]
        /\ bpc'[t] = "call" => bpc'[t] # "out"
  <2>1. pc'[t] \in InCompute => ~Due(t)'
    BY <1>2, <1>6, Zenon DEF Due, Alone, InCompute
  <2> QED BY <2>1, Zenon DEF Spot, Through, AtBarrier
<1>10. /\ pc[t] \notin AtBarrier => Spot(t) = pc[t] /\ bpc[t] = "out"
       /\ pc[t] = "chunk_barrier" /\ bpc[t] = "out" => Spot(t) = "chunk_free"
       /\ pc[t] = "node_barrier" /\ bpc[t] = "out" => Spot(t) = "node_free"
  BY <1>1, <1>2, <1>7, Zenon DEF Spot, Through, AtBarrier
<1>11. CASE Start(t)
  <2>1. /\ pc[t] = "start" /\ pc'[t] = "loop" /\ UNCHANGED <<abort, ec>> /\ bpc' = bpc
        /\ run'[t] = [Idle EXCEPT !.graph = g, !.nth = n_threads_cur] /\ done' = done
    BY <1>0, <1>3, <1>11 DEF Start, Go, graphVars, history, barrierVars
  <2>2. run'[t].node = 0 /\ run'[t].graph = g /\ run'[t].nth = n_threads_cur
    BY <2>1 DEF Idle
  <2>3. Spot(t) = "start" /\ Spot(t)' = "loop" /\ bpc'[t] = "out"
    BY <1>9, <1>10, <2>1, Zenon DEF AtBarrier, InCompute
  <2>4. Sound("loop", 0, d, g, abort) /\ Stage("loop", 0, g) = Stage("start", n, g)
    <3>1. Sound("start", n, d, g, abort)
      BY <1>4, <2>3, Zenon
    <3> QED BY <1>3, <3>1, StartGoesOn, Zenon
  <2> QED BY <1>8, <2>1, <2>2, <2>3, <2>4 DEF InCompute
<1>12. CASE Loop(t)
  <2>1. /\ pc[t] = "loop" /\ UNCHANGED <<abort, ec>> /\ run' = run /\ done' = done
    BY <1>12, Zenon DEF Loop, Go, graphVars, history
  <2>2. Spot(t) = "loop" /\ run[t].graph = g /\ run[t].nth = n_threads_cur
    BY <1>5, <1>10, <2>1, Zenon DEF AtBarrier
  <2>3. CASE n < Len(g) /\ abort # n
    <3>1. pc'[t] = g[n + 1] /\ bpc' = bpc
      BY <1>0, <1>12, <2>2, <2>3, Zenon DEF Loop, Go, barrierVars
    <3>2. /\ g[n + 1] \in Kinds
          /\ Sound(g[n + 1], n, d, g, abort) /\ Stage(g[n + 1], n, g) = Stage("loop", n, g)
      <4>1. Sound("loop", n, d, g, abort)
        BY <1>4, <2>2, Zenon
      <4> QED BY <1>3, <2>3, <4>1, LoopGoesOn, Zenon
    <3>3. Spot(t)' = g[n + 1] /\ g[n + 1] \in InCompute /\ bpc'[t] = "out"
      BY <1>9, <1>10, <2>1, <3>1, <3>2, Zenon DEF Kinds, AtBarrier, InCompute
    <3> QED BY <1>3, <1>8, <2>1, <2>2, <3>1, <3>2, <3>3, Zenon
  <2>4. CASE ~(n < Len(g) /\ abort # n)
    <3>1. pc'[t] = "final" /\ bpc'[t] = "call"
      BY <1>0, <1>12, <2>2, <2>4, Zenon DEF Loop, Go, Call, At
    <3>2. Sound("final", n, d, g, abort) /\ Stage("final", n, g) = Stage("loop", n, g)
      <4>1. Sound("loop", n, d, g, abort)
        BY <1>4, <2>2, Zenon
      <4> QED BY <1>3, <2>4, <4>1, LoopEnds, Zenon
    <3>3. Spot(t)' = "final"
      BY <1>9, <3>1, Zenon DEF InCompute
    <3> QED BY <1>3, <1>8, <2>1, <2>2, <3>1, <3>2, <3>3, Zenon DEF AtBarrier, InCompute
  <2> QED BY <2>3, <2>4, Zenon
<1>13. CASE Plain(t)
  <2>1. /\ pc[t] = "plain" /\ pc'[t] = "after" /\ UNCHANGED <<abort, ec>> /\ bpc' = bpc
        /\ run' = run /\ done' = done
    BY <1>0, <1>13, Zenon DEF Plain, Go, graphVars, history, barrierVars
  <2>2. /\ Spot(t) = "plain" /\ Spot(t)' = "after" /\ bpc'[t] = "out"
        /\ run[t].graph = g /\ run[t].nth = n_threads_cur
    BY <1>5, <1>9, <1>10, <2>1, Zenon DEF AtBarrier, InCompute
  <2>3. Sound("after", n, d, g, abort) /\ Stage("after", n, g) = Stage("plain", n, g)
    <3>1. Sound("plain", n, d, g, abort)
      BY <1>4, <2>2, Zenon
    <3> QED BY <1>3, <3>1, PlainGoesOn, Zenon
  <2> QED BY <1>3, <1>8, <2>1, <2>2, <2>3, Zenon DEF InCompute
<1>14. CASE ChunkSet(t)
  <2>1. /\ pc[t] = "chunked" /\ pc'[t] = "chunk_barrier" /\ UNCHANGED <<abort, ec>>
        /\ bpc'[t] = "call" /\ run' = run /\ done' = done
    BY <1>0, <1>14 DEF ChunkSet, Go, history, Call, At
  <2>2. /\ Spot(t) = "chunked" /\ Spot(t)' = "chunk_barrier"
        /\ run[t].graph = g /\ run[t].nth = n_threads_cur
    BY <1>5, <1>9, <1>10, <2>1, Zenon DEF AtBarrier, InCompute
  <2>3. /\ Sound("chunk_barrier", n, d, g, abort)
        /\ Stage("chunk_barrier", n, g) = Stage("chunked", n, g)
    <3>1. Sound("chunked", n, d, g, abort)
      BY <1>4, <2>2, Zenon
    <3> QED BY <1>3, <3>1, ChunkedGoesOn, Zenon
  <2> QED BY <1>3, <1>8, <2>1, <2>2, <2>3, ZenonT(30) DEF InCompute, AtBarrier
<1>15. CASE ChunkFirst(t)
  <2>1. /\ pc[t] = "chunk_barrier" /\ pc'[t] = "chunk" /\ UNCHANGED <<abort, ec>>
        /\ bpc[t] = "out" /\ bpc' = bpc /\ done' = done
        /\ run'[t] = [run[t] EXCEPT !.chunk = t]
    BY <1>0, <1>3, <1>15 DEF ChunkFirst, Go, graphVars, history, barrierVars
  <2>2. /\ Spot(t) = "chunk_free" /\ Spot(t)' = "chunk"
        /\ run[t].graph = g /\ run[t].nth = n_threads_cur
    BY <1>5, <1>9, <1>10, <2>1 DEF AtBarrier, InCompute
  <2>3. run'[t].node = n /\ run'[t].graph = g /\ run'[t].nth = n_threads_cur
    BY <1>3, <2>1, <2>2 DEF Runs
  <2>4. Sound("chunk", n, d, g, abort) /\ Stage("chunk", n, g) = Stage("chunk_free", n, g)
    <3>1. Sound("chunk_free", n, d, g, abort)
      BY <1>4, <2>2, Zenon
    <3> QED BY <1>3, <3>1, ChunkFreeGoesOn, Zenon
  <2> QED BY <1>3, <1>8, <2>1, <2>2, <2>3, <2>4 DEF InCompute
<1>16. CASE ChunkStep(t) \/ ChunksOut(t)
  <2>1. /\ pc[t] = "chunk" /\ pc'[t] \in {"chunk", "after"} /\ UNCHANGED <<abort, ec>>
        /\ bpc' = bpc /\ done' = done
    BY <1>0, <1>16, Zenon DEF ChunkStep, ChunksOut, Go, graphVars, history, barrierVars
  <2>2. /\ Spot(t) = "chunk" /\ Spot(t)' = pc'[t] /\ bpc'[t] = "out"
        /\ run[t].graph = g /\ run[t].nth = n_threads_cur
    BY <1>5, <1>9, <1>10, <2>1, Zenon DEF AtBarrier, InCompute
  <2>3. run' = run \/ run'[t] = [run[t] EXCEPT !.chunk = current_chunk]
    BY <1>3, <1>16, Zenon DEF ChunkStep, ChunksOut
  <2>4. run'[t].node = n /\ run'[t].graph = g /\ run'[t].nth = n_threads_cur
    BY <1>3, <2>2, <2>3 DEF Runs
  <2>5. /\ Sound("chunk", n, d, g, abort)
        /\ Sound("after", n, d, g, abort) /\ Stage("after", n, g) = Stage("chunk", n, g)
    <3>1. Sound("chunk", n, d, g, abort)
      BY <1>4, <2>2, Zenon
    <3> QED BY <1>3, <3>1, ChunkGoesOn, Zenon
  <2> QED BY <1>3, <1>8, <2>1, <2>2, <2>4, <2>5, Zenon DEF InCompute
<1>17. CASE NodeBarrier(t)
  <2>1. /\ pc[t] = "node_barrier" /\ pc'[t] = "loop" /\ UNCHANGED <<abort, ec>>
        /\ bpc[t] = "out" /\ bpc' = bpc /\ done' = done
        /\ run'[t] = [run[t] EXCEPT !.node = n + 1]
    BY <1>0, <1>3, <1>17 DEF NodeBarrier, Go, graphVars, history, barrierVars
  <2>2. /\ Spot(t) = "node_free" /\ Spot(t)' = "loop"
        /\ run[t].graph = g /\ run[t].nth = n_threads_cur
    BY <1>5, <1>9, <1>10, <2>1 DEF AtBarrier, InCompute
  <2>3. /\ run'[t].node = n + 1 /\ n + 1 \in Nat
        /\ run'[t].graph = g /\ run'[t].nth = n_threads_cur
    BY <1>3, <2>1, <2>2 DEF Runs
  <2>4. Sound("loop", n + 1, d, g, abort) /\ Stage("loop", n + 1, g) = Stage("node_free", n, g)
    <3>1. Sound("node_free", n, d, g, abort)
      BY <1>4, <2>2, Zenon
    <3> QED BY <1>3, <3>1, NodeGoesOn, Zenon
  <2> QED BY <1>3, <1>8, <2>1, <2>2, <2>3, <2>4 DEF InCompute
<1>18. CASE After(t)
  <2>1. /\ pc[t] = "after" /\ done'[t] = d + 1 /\ d + 1 \in Nat /\ abort' \in {abort, n + 1}
        /\ UNCHANGED <<abort, ec>> \/ (t = 0 /\ abort' = n + 1 /\ ec' = "aborted")
    BY <1>3, <1>18 DEF After, Go
  <2>2. Spot(t) = "after" /\ run[t].graph = g /\ run[t].nth = n_threads_cur /\ bpc[t] = "out"
    BY <1>5, <1>10, <2>1, Zenon DEF AtBarrier
  <2>3. PICK b \in {abort, n + 1} : b = abort'
    BY <2>1, Zenon
  <2>4. PICK s \in {"node_barrier", "loop"}, m \in {n, n + 1} :
          /\ pc'[t] = s /\ run'[t].node = m
          /\ run'[t].graph = g /\ run'[t].nth = n_threads_cur
          /\ bpc'[t] # "out" => s = "node_barrier"
          /\ Spot(t)' = s
          /\ Sound(s, m, d + 1, g, b) /\ Stage(s, m, g) = Stage("after", n, g)
    <3>1. Sound("after", n, d, g, abort)
      BY <1>4, <2>2, Zenon
    <3>2. CASE n + 1 < Len(g)
      <4>1. pc'[t] = "node_barrier" /\ bpc'[t] = "call" /\ run' = run
        BY <1>0, <1>3, <1>18, <2>2, <3>2 DEF After, Go, Call, At
      <4>2. Spot(t)' = "node_barrier"
        BY <1>9, <4>1, Zenon DEF InCompute
      <4>3. /\ Sound("node_barrier", n, d + 1, g, b)
            /\ Stage("node_barrier", n, g) = Stage("after", n, g)
        BY <1>3, <3>1, <3>2, GoesOnAfter, Zenon
      <4> QED BY <2>2, <4>1, <4>2, <4>3, Zenon
    <3>3. CASE ~(n + 1 < Len(g))
      <4>1. /\ pc'[t] = "loop" /\ bpc' = bpc /\ run'[t] = [run[t] EXCEPT !.node = n + 1]
        BY <1>0, <1>3, <1>18, <2>2, <3>3 DEF After, Go, barrierVars
      <4>2. Spot(t)' = "loop" /\ bpc'[t] = "out"
        BY <1>9, <2>2, <4>1 DEF InCompute, AtBarrier
      <4>3. run'[t].node = n + 1 /\ run'[t].graph = g /\ run'[t].nth = n_threads_cur
        BY <1>3, <2>2, <4>1, Zenon DEF Runs
      <4>4. n + 1 >= Len(g)
        BY <1>3, <3>3, SMTT(20)
      <4>5. /\ Sound("loop", n + 1, d + 1, g, b)
            /\ Stage("loop", n + 1, g) = Stage("after", n, g)
        BY <1>3, <3>1, <4>4, GoesOnAfter, Zenon
      <4> QED BY <4>1, <4>2, <4>3, <4>5, Zenon
    <3> QED BY <3>2, <3>3, Zenon
  <2>5. Moved(t) /\ g' = g
    <3>1. s \in InCompute /\ (s = "node_barrier" => s \in AtBarrier)
      BY DEF InCompute, AtBarrier
    <3>2. pc[t] \in InCompute /\ g' = g
      BY <1>1, <1>6, Zenon DEF Alone
    <3> QED BY <1>6, <2>4, <3>1, <3>2, ZenonT(30) DEF Moved
  <2>6. StageOf(t)' = StageOf(t)
    BY <2>2, <2>4, <2>5, Zenon DEF StageOf
  <2>7. Sound(Spot(t), run[t].node, done[t], cgraph, abort)'
    BY <2>1, <2>3, <2>4, <2>5, Zenon
  <2>8. t = 0 /\ abort' = n + 1 =>
          \A u \in Active : Sound(Spot(u), run[u].node, done[u], cgraph, abort')
    <3> SUFFICES ASSUME t = 0, abort' = n + 1, NEW u \in Active
                 PROVE  Sound(Spot(u), run[u].node, done[u], cgraph, n + 1)
      BY Zenon
    <3>1. u \in Threads /\ ThreadInv(u) /\ StageOf(u) = StageOf(t)
      BY Zenon DEF Active, PoolInv, GraphInv, InPhase
    <3>2. run[u].node \in Nat /\ done[u] \in Nat /\ Spot(u) \in Spots
      BY <1>3, <3>1, SpotType, Zenon DEF Runs
    <3>3. Sound(Spot(u), run[u].node, done[u], cgraph, abort)
      BY <3>1, Zenon DEF ThreadInv
    <3>4. Sound("after", n, d, g, abort) /\ Stage("after", n, g) = Stage(Spot(u), run[u].node, g)
      BY <1>4, <2>2, <3>1, Zenon DEF StageOf
    <3> QED BY <1>3, <3>2, <3>3, <3>4, AbortUnseen, Zenon
  <2> QED BY <1>2, <2>1, <2>5, <2>6, <2>7, <2>8, MoveKeeps, Zenon
<1> QED BY <1>11, <1>12, <1>13, <1>14, <1>15, <1>16, <1>17, <1>18, Zenon

\* So does a step by which a thread stays at its stage and finishes no node.
LEMMA CalmKeeps ==
    ASSUME PoolInv, NEW t \in Threads, Alone(t), UNCHANGED <<done, work, abort, ec>>,
           ThreadInv(t)',
           t \in Active => StageOf(t)' = StageOf(t) /\ (Spot(t)' = "ended" <=> Spot(t) = "ended"),
           \/ pc'[0] = pc[0]
           \/ t = 0 /\ pc[0] = "final" /\ pc'[0] = "return" /\ Spot(0) = "ended"
    PROVE  GraphInv' /\ Within(t)
<1>1. 0 \in Threads /\ 0 \in Active /\ Active' = Active
  BY MainIsThread, ActiveIs, ZenonT(30) DEF Active, PoolInv, DataTypes, Alone
<1>2. Underway' \/ Spot(0) = "ended"
  BY DEF Underway, Spot, Due
<1>3. \A u \in Threads \ {t} :
        ThreadInv(u)' /\ Spot(u)' = Spot(u) /\ StageOf(u)' = StageOf(u)
  BY <1>2, OthersStay
<1>4. \A u \in Active : StageOf(u)' = StageOf(u) /\ StageOf(u) = StageOf(0)
  BY <1>3 DEF PoolInv, GraphInv, InPhase, Active
<1>5. InPhase'
  BY <1>1, <1>4 DEF InPhase
<1>6. Spot(0)' = "ended" <=> Spot(0) = "ended"
  BY <1>1, <1>3, Zenon
<1>7. EndInv'
  BY <1>1, <1>6, Zenon DEF PoolInv, GraphInv, EndInv, Alone
<1>8. KickInv'
  BY Zenon DEF PoolInv, GraphInv, KickInv, Alone, InCompute
<1>9. Within(t)
  BY <1>3, <1>4 DEF Within, Active
<1> QED BY <1>3, <1>5, <1>7, <1>8, <1>9, Zenon DEF GraphInv

\* The stages of a thread that is behind the last barrier, or called for a graph.
LEMMA RestStage ==
    \A n, g : Stage("ended", n, g) = -1 /\ Stage("due", n, g) = 0
  BY Zenon DEF Stage

\* A thread that returns from a graph keeps the invariant.
LEMMA FinalKeeps ==
    ASSUME PoolInv, NEW t \in Threads, Final(t)
    PROVE  GraphInv' /\ Within(t)
<1>1. Alone(t) /\ UNCHANGED <<last_graph, seen>> /\ ThreadInv(t)
  BY ComputeAlone DEF PoolInv, GraphInv
<1>2. pc \in [Threads -> MainPlaces \cup WorkerPlaces]
  BY DEF PoolInv, PlaceTypes
<1>3. /\ bpc[t] = "out" /\ bpc' = bpc /\ pc[t] = "final"
      /\ pc' = [pc EXCEPT ![t] = IF t = 0 THEN "return" ELSE "pause"]
      /\ UNCHANGED <<done, work, abort, ec>>
  BY DEF Final, Go, graphVars, history, barrierVars
<1>4. pc'[t] = (IF t = 0 THEN "return" ELSE "pause") /\ (t # 0 => pc'[0] = pc[0])
  BY <1>2, <1>3, MainIsThread
<1>5. Through(t) /\ Through(t)'
  BY <1>3 DEF Through
<1>6. Due(t)' <=> Due(t)
  BY <1>1, <1>3, <1>4, SMTT(20) DEF Due, Alone
<1>7. /\ Spot(t) = IF Due(t) THEN "due" ELSE "ended"
      /\ Spot(t)' = Spot(t)
  BY <1>3, <1>4, <1>5, <1>6, SMTT(20) DEF Spot, InCompute
<1>8. StageOf(t)' = StageOf(t)
  BY <1>7, RestStage DEF StageOf
<1>9. t = 0 => Spot(0) = "ended"
  BY <1>3, <1>7, Zenon DEF Due
<1>10. ThreadInv(t)'
  <2>1. t \in Active' <=> t \in Active
    BY <1>1, Zenon DEF Alone, Active
  <2>2. t \in Active' /\ Spot(t)' # "ended" => Underway'
    BY <1>1, <1>4, <1>7, <1>9, <2>1, Zenon DEF ThreadInv, Underway
  <2>3. t \in Active' => Sound(Spot(t), run[t].node, done[t], cgraph, abort)'
    BY <1>1, <1>3, <1>7, <2>1, Zenon DEF ThreadInv, Sound, Busy, Chunking
  <2>4. Spot(t)' \in {"due", "ended"}
    BY <1>7, Zenon
  <2>5. last_graph'[t] <= n_graph' /\ seen'[t] <= n_graph'
    BY <1>1, Zenon DEF ThreadInv, Alone
  <2> QED BY <1>3, <1>4, <1>5, <2>2, <2>3, <2>4, <2>5, SMTT(20) DEF ThreadInv, InCompute
<1> QED BY <1>1, <1>3, <1>4, <1>7, <1>8, <1>9, <1>10, CalmKeeps, Zenon

\* What a thread does inside ggml_barrier without opening it keeps the invariant.
LEMMA InsideKeeps ==
    ASSUME PoolInv, NEW t \in Threads, BarrierStep(t),
           \/ LoadThreads(t) /\ n_threads_cur # 1
           \/ LoadPassed(t) \/ Enter(t) \/ Reset(t) \/ Spin(t)
    PROVE  GraphInv' /\ Within(t) /\ (t \in Active => Spot(t)' = Spot(t))
<1>1. /\ UNCHANGED <<pc, run, cgraph, abort, ec, done, work, last_graph, seen, n_graph>>
      /\ UNCHANGED <<n_threads_cur, n_barrier_passed>>
  BY DEF BarrierStep, graphVars, history, computeKeeps, poolVars, LoadThreads, LoadPassed,
         Enter, Reset, Spin, counters
<1>2. bpc \in [Threads -> Places] /\ n_passed \in [Threads -> 0 .. IntMod - 1]
  BY Zenon DEF PoolInv, IInv, BarrierTypeOK
<1>3. \A u \in Threads \ {t} : bpc'[u] = bpc[u] /\ n_passed'[u] = n_passed[u]
  BY <1>2, Zenon DEF LoadThreads, LoadPassed, Enter, Reset, Spin, At, Forget, locals
<1>4. Alone(t)
  BY <1>1, <1>3, Zenon DEF Alone, Keeps, Through
<1>5. ThreadInv(t) /\ bpc[t] # "out"
  BY Zenon DEF PoolInv, GraphInv, LoadThreads, LoadPassed, Enter, Reset, Spin, At
<1>6. t \notin Active => Spin(t)
  BY <1>5, Zenon DEF ThreadInv, LoadThreads, LoadPassed, Enter, Reset, At
<1>7. bpc'[t] = "out" <=> Spin(t)
  BY <1>2 DEF LoadThreads, LoadPassed, Enter, Reset, Spin, At
<1>8. t \in Active => (Through(t)' <=> Through(t))
  <2> SUFFICES ASSUME t \in Active PROVE Through(t)' <=> Through(t)
    OBVIOUS
  <2>1. CASE Spin(t)
    BY <1>2, <2>1, Zenon DEF Spin, At, Through
  <2>2. CASE Enter(t)
    <3>1. n_passed[t] = n_barrier_passed /\ n_passed' = n_passed
      BY <2>2, Zenon DEF PoolInv, IInv, PassedRead, Enter, At, locals
    <3> QED BY <1>1, <1>2, <2>2, <3>1, Zenon DEF Enter, At, Through
  <2>3. CASE (LoadThreads(t) /\ n_threads_cur # 1) \/ LoadPassed(t) \/ Reset(t)
    BY <1>2, <2>3, Zenon DEF LoadThreads, LoadPassed, Reset, At, Through
  <2> QED BY <2>1, <2>2, <2>3
<1>9. (Due(t)' <=> Due(t)) /\ (t \in Active' <=> t \in Active) /\ (Underway' <=> Underway)
  BY <1>1, Zenon DEF Due, Active, Underway
<1>10. t \in Active => Spot(t)' = Spot(t) /\ StageOf(t)' = StageOf(t)
  <2>1. t \in Active => Spot(t)' = Spot(t)
    BY <1>1, <1>8, <1>9, Zenon DEF Spot
  <2> QED BY <1>1, <2>1, Zenon DEF StageOf
<1>11. ThreadInv(t)'
  BY <1>1, <1>5, <1>6, <1>7, <1>8, <1>9, <1>10, Zenon DEF ThreadInv
<1> QED BY <1>1, <1>4, <1>10, <1>11, CalmKeeps, Zenon

-----------------------------------------------------------------------------
(***************************************************************************)
(* The opening of a barrier, and the steps between two graphs              *)
(***************************************************************************)
\* where a barrier lets its threads go
Beyond(p) == CASE p = "chunk_barrier" -> "chunk_free"
               [] p = "node_barrier"  -> "node_free"
               [] p = "final"         -> "ended"

\* Beyond a barrier a thread is sound.
LEMMA BeyondSound ==
    ASSUME NEW g \in Seq(Kinds), NEW a \in Int, NEW n \in Nat, NEW d \in Nat,
           NEW p \in AtBarrier, Sound(p, n, d, g, a)
    PROVE  Sound(Beyond(p), n, d, g, a)
  BY DEF Beyond, AtBarrier, Sound, Busy, Chunking

\* all threads of the graph were held at a barrier, and are let go
Opens ==
    /\ UNCHANGED <<pc, run, graphVars, history, last_graph, seen, n_graph, n_threads_cur>>
    /\ \A u \in Active : ~Through(u) /\ Through(u)'
    /\ \A u \in Threads : bpc'[u] \in {bpc[u], "out"}

\* they were at the same one, and leave it together
Together(p, n) ==
    /\ p \in AtBarrier /\ Underway
    /\ \A u \in Active : /\ pc[u] = p /\ Spot(u) = p /\ Spot(u)' = Beyond(p)
                          /\ run[u].node = n

\* The opening of a barrier takes all threads of the graph to the next stage.
LEMMA OpenKeeps ==
    ASSUME PoolInv, Opens
    PROVE  GraphInv' /\ Together(pc[0], run[0].node)
<1>1. /\ UNCHANGED <<pc, run, cgraph, abort, ec, done, work, last_graph, seen>>
      /\ n_graph' = n_graph /\ n_threads_cur' = n_threads_cur
  BY DEF Opens, graphVars, history
<1>2. Active' = Active /\ (Underway' <=> Underway) /\ \A u \in Threads : Due(u)' <=> Due(u)
  BY <1>1 DEF Active, Underway, Due
<1>3. 0 \in Active /\ 0 \in Threads
  BY MainIsThread, ActiveIs DEF PoolInv, DataTypes, Active
<1>4. \A u \in Active : u \in Threads /\ ThreadInv(u)
  BY DEF PoolInv, GraphInv, Active
<1>5. \A u \in Active : pc[u] \in AtBarrier /\ ~Due(u)
  BY <1>4 DEF ThreadInv, Opens, Through
<1>6. \A u \in Active : Spot(u) = pc[u] /\ Spot(u)' = Beyond(pc[u])
  BY <1>1, <1>2, <1>4, <1>5 DEF Spot, Opens, AtBarrier, InCompute, Beyond
<1>7. /\ cgraph \in Seq(Kinds) /\ abort \in Int
      /\ \A u \in Threads : run[u].node \in Nat /\ done[u] \in Nat
  <2>1. run \in [Threads -> Runs] /\ done \in [Threads -> Nat]
    BY DEF PoolInv, DataTypes
  <2>2. cgraph \in Seq(Kinds) /\ abort \in Int
    BY DEF PoolInv, DataTypes
  <2> QED BY <2>1, <2>2 DEF Runs
<1>8. \A u \in Active : Sound(pc[u], run[u].node, done[u], cgraph, abort)
  BY <1>4, <1>6 DEF ThreadInv
<1>9. \A u \in Active : pc[u] = pc[0] /\ run[u].node = run[0].node /\ done[u] = done[0]
  <2> SUFFICES ASSUME NEW u \in Active
               PROVE  pc[u] = pc[0] /\ run[u].node = run[0].node /\ done[u] = done[0]
    OBVIOUS
  <2>1. Stage(pc[u], run[u].node, cgraph) = Stage(pc[0], run[0].node, cgraph)
    BY <1>3, <1>6 DEF PoolInv, GraphInv, InPhase, StageOf
  <2>2. /\ pc[u] \in AtBarrier /\ pc[0] \in AtBarrier
        /\ Sound(pc[u], run[u].node, done[u], cgraph, abort)
        /\ Sound(pc[0], run[0].node, done[0], cgraph, abort)
    BY <1>3, <1>5, <1>8
  <2>3. /\ run[u].node \in Nat /\ run[0].node \in Nat /\ done[u] \in Nat /\ done[0] \in Nat
        /\ cgraph \in Seq(Kinds) /\ abort \in Int
    BY <1>3, <1>4, <1>7
  <2>4. \A n, m, d, e \in Nat, p, q \in AtBarrier :
          /\ Sound(p, n, d, cgraph, abort) /\ Sound(q, m, e, cgraph, abort)
          /\ Stage(p, n, cgraph) = Stage(q, m, cgraph)
          => p = q /\ n = m /\ d = e
    BY <2>3, SameBarrier
  <2> HIDE DEF AtBarrier
  <2> QED BY <2>1, <2>2, <2>3, <2>4, Zenon
<1>10. \A u \in Threads : ThreadInv(u)'
  <2> SUFFICES ASSUME NEW u \in Threads PROVE ThreadInv(u)'
    OBVIOUS
  <2>1. ThreadInv(u) /\ bpc'[u] \in {bpc[u], "out"}
    BY DEF PoolInv, GraphInv, Opens
  <2>2. CASE u \notin Active
    BY <1>1, <1>2, <2>1, <2>2, Zenon DEF ThreadInv
  <2>3. CASE u \in Active
    <3>1. Underway
      BY <1>5, <1>6, <2>1, <2>3 DEF ThreadInv, AtBarrier
    <3>2. run[u].graph = cgraph /\ run[u].nth = n_threads_cur
      BY <1>5, <1>6, <2>1, <2>3 DEF ThreadInv, AtBarrier
    <3>3. Sound(Spot(u), run[u].node, done[u], cgraph, abort)'
      BY <1>1, <1>5, <1>6, <1>7, <1>8, <2>3, BeyondSound, Zenon
    <3>4. pc[u] # "poll_active"
      BY <1>5, <2>3 DEF AtBarrier
    <3> QED BY <1>1, <1>2, <1>5, <2>1, <2>3, <3>1, <3>2, <3>3, <3>4, Zenon DEF ThreadInv
  <2> QED BY <2>2, <2>3
<1>11. InPhase'
  BY <1>1, <1>2, <1>3, <1>6, <1>9 DEF InPhase, StageOf
<1>12. EndInv'
  <2>1. done[0] <= Len(cgraph)
    BY DEF PoolInv, GraphInv, EndInv
  <2>2. ASSUME Spot(0)' = "ended", ec = "success" PROVE done[0] = Len(cgraph)
    <3>1. pc[0] = "final"
      BY <1>3, <1>5, <1>6, <2>2 DEF Beyond, AtBarrier
    <3>2. abort = -1
      BY <2>2, <3>1 DEF PoolInv, GraphInv, KickInv, InCompute
    <3>3. Sound("final", run[0].node, done[0], cgraph, abort)
      BY <1>3, <1>8, <3>1
    <3>4. run[0].node = done[0] /\ ~(run[0].node < Len(cgraph))
      BY <1>3, <1>7, <3>2, <3>3 DEF Sound
    <3>5. Len(cgraph) \in Nat /\ done[0] \in Nat
      BY <1>3, <1>7
    <3> QED BY <2>1, <3>4, <3>5
  <2> QED BY <1>1, <1>2, <1>9, <2>1, <2>2 DEF EndInv
<1>13. KickInv'
  BY <1>1 DEF PoolInv, GraphInv, KickInv
<1>14. Together(pc[0], run[0].node)
  BY <1>3, <1>4, <1>5, <1>6, <1>9 DEF Together, ThreadInv, AtBarrier
<1> QED BY <1>10, <1>11, <1>12, <1>13, <1>14 DEF GraphInv

\* It is opened by the last thread to come, or by the only one.
LEMMA OpeningKeeps ==
    ASSUME PoolInv, NEW t \in Threads, BarrierStep(t),
           Release(t) \/ (LoadThreads(t) /\ n_threads_cur = 1)
    PROVE  GraphInv' /\ Opens /\ Together(pc[0], run[0].node)
<1>1. UNCHANGED <<pc, run, graphVars, history, last_graph, seen, n_graph, n_threads_cur>>
  BY Zenon DEF BarrierStep, computeKeeps, poolVars, LoadThreads, Release
<1>2. /\ bpc \in [Threads -> Places] /\ n_passed \in [Threads -> 0 .. IntMod - 1]
      /\ Active \in SUBSET Threads /\ IInv(Active)
  BY Zenon DEF PoolInv, IInv, BarrierTypeOK, Active
<1>3. /\ bpc[t] \in {"call", "release"} /\ bpc'[t] = "out"
      /\ \A u \in Threads \ {t} : bpc'[u] = bpc[u]
  BY <1>2 DEF LoadThreads, Release, At
<1>4. t \in Active
  BY <1>3 DEF PoolInv, GraphInv, ThreadInv
<1>5. \A u \in Active : ~Through(u) /\ Through(u)'
  <2>1. CASE LoadThreads(t) /\ n_threads_cur = 1
    <3>1. \A u \in Active : u = t
      <4>1. \A u \in Active : u \in Nat /\ u < 1
        BY <2>1, MainIsThread DEF Active
      <4> QED BY <1>4, <4>1
    <3> QED BY <1>3, <3>1 DEF Through
  <2>2. CASE Release(t)
    <3>1. PICK P \in SUBSET Threads : P = Active
      BY <1>2
    <3>2. Waiting(P) = P /\ Waiting(P)' = {} /\ Freed(P)' = P \ {t}
      BY <1>2, <1>4, <2>2, <3>1, ReleaseStep
    <3>3. \A u \in P : ~Through(u)
      BY <3>2 DEF Waiting, Through
    <3>4. \A u \in P \ {t} : Through(u)'
      BY <3>2 DEF Freed, Through
    <3> QED BY <1>3, <3>1, <3>3, <3>4 DEF Through
  <2> QED BY <2>1, <2>2
<1>6. Opens
  BY <1>1, <1>3, <1>5 DEF Opens
<1> QED BY <1>6, OpenKeeps

\* A worker that polls, sleeps, pauses or takes up a graph keeps the invariant.
LEMMA WorkerKeeps ==
    ASSUME PoolInv, NEW t \in Workers, WorkerStep(t) \/ SpuriousWake(t)
    PROVE  GraphInv' /\ Within(t)
<1>1. t \in Threads /\ t # 0 /\ ThreadInv(t)
  BY DEF Workers, PoolInv, GraphInv
<1>2. /\ pc \in [Threads -> MainPlaces \cup WorkerPlaces]
      /\ last_graph \in [Threads -> Nat] /\ seen \in [Threads -> Nat] /\ n_graph \in Nat
  BY DEF PoolInv, PlaceTypes, DataTypes
<1>3. UNCHANGED workerKeeps
  BY DEF WorkerStep, SpuriousWake, PauseCheck, PauseLock, PauseWoken, StopCheck, PollActive,
         Poll, PollReady, SleepCheck
<1>4. /\ UNCHANGED <<run, cgraph, abort, ec, done, work, n_graph, n_threads_cur>>
      /\ UNCHANGED <<bpc, n_passed, n_barrier_passed>>
  BY <1>3 DEF workerKeeps, poolVars, graphVars, history, barrierVars, counters, locals
<1>5. \A u \in Threads \ {t} :
        pc'[u] = pc[u] /\ last_graph'[u] = last_graph[u] /\ seen'[u] = seen[u]
  BY <1>1, <1>2 DEF WorkerStep, SpuriousWake, PauseCheck, PauseLock, PauseWoken, StopCheck,
         PollActive, Poll, PollReady, SleepCheck, Go
<1>6. Alone(t) /\ pc'[0] = pc[0]
  BY <1>1, <1>4, <1>5, MainIsThread DEF Alone, Keeps, Through
<1>7. /\ t \in Active' <=> t \in Active
      /\ Underway' <=> Underway
      /\ Through(t)' <=> Through(t)
  BY <1>4, <1>6, Zenon DEF Active, Underway, Through
<1>8. /\ pc[t] \notin InCompute
      /\ \/ /\ pc'[t] \notin InCompute /\ last_graph'[t] = last_graph[t]
            /\ pc'[t] # "poll_active" /\ seen'[t] = seen[t]
         \/ /\ pc'[t] = "poll_active" /\ last_graph'[t] = last_graph[t]
            /\ n_graph # last_graph[t] /\ seen'[t] = n_graph
         \/ /\ pc'[t] \notin InCompute \cup {"poll_active"} /\ t \notin Active
            /\ last_graph'[t] \in {n_graph, seen[t]} /\ seen'[t] \in {seen[t], 0}
         \/ /\ pc'[t] = "start" /\ t \in Active /\ last_graph'[t] = n_graph
            /\ Due(t) /\ seen'[t] \in {seen[t], 0}
  <2>1. CASE PauseCheck(t) \/ PauseLock(t) \/ PauseWoken(t) \/ StopCheck(t) \/ PollActive(t)
    BY <1>1, <1>2, <2>1 DEF PauseCheck, PauseLock, PauseWoken, StopCheck, PollActive, Go,
           InCompute
  <2>2. CASE SpuriousWake(t)
    BY <1>1, <1>2, <2>2 DEF SpuriousWake, Go, InCompute
  <2>3. CASE Poll(t)
    BY <1>1, <1>2, <2>3 DEF Poll, Go, InCompute
  <2>4. CASE PollReady(t)
    <3>1. /\ pc[t] = "poll_active" /\ last_graph'[t] = seen[t] /\ seen'[t] = 0
          /\ pc'[t] \in {"start", "poll", "lock"} /\ (pc'[t] = "start" <=> t < n_threads_cur)
      BY <1>1, <1>2, <2>4 DEF PollReady, Go
    <3>2. t \in Active => Due(t) /\ seen[t] = n_graph
      BY <1>1, <3>1, Zenon DEF ThreadInv
    <3> QED BY <1>1, <3>1, <3>2 DEF Active, InCompute
  <2>5. CASE SleepCheck(t)
    <3>1. pc[t] = "lock" /\ seen' = seen
      BY <2>5 DEF SleepCheck, Go
    <3>2. CASE ~(~stop /\ ~pause /\ n_graph # last_graph[t])
      <4>1. pc'[t] \in {"pause", "sleep"} /\ last_graph'[t] = last_graph[t]
        BY <1>1, <1>2, <2>5, <3>2, Zenon DEF SleepCheck, Go
      <4> QED BY <3>1, <4>1 DEF InCompute
    <3>3. CASE ~stop /\ ~pause /\ n_graph # last_graph[t]
      <4>1. /\ last_graph'[t] = n_graph
            /\ pc'[t] = IF t < n_threads_cur THEN "start" ELSE "sleep"
        BY <1>1, <1>2, <2>5, <3>3, Zenon DEF SleepCheck, Go
      <4>2. Due(t)
        BY <1>1, <3>3 DEF Due
      <4> QED BY <1>1, <3>1, <4>1, <4>2 DEF Active, InCompute
    <3> QED BY <3>2, <3>3
  <2> QED BY <2>1, <2>2, <2>3, <2>4, <2>5, ZenonT(30) DEF WorkerStep
<1>9. bpc[t] = "out" /\ Through(t)
  BY <1>1, <1>8 DEF ThreadInv, AtBarrier, InCompute, Through
<1>10. last_graph'[t] <= n_graph' /\ seen'[t] <= n_graph'
  BY <1>1, <1>2, <1>4, <1>8, SMTT(20) DEF ThreadInv
<1>11. t \in Active =>
         \/ /\ Spot(t)' = Spot(t) /\ Spot(t) \in {"due", "ended"}
            /\ pc'[t] \notin InCompute /\ (Due(t)' <=> Due(t))
            /\ pc'[t] = "poll_active" => Due(t)' /\ seen'[t] = n_graph'
         \/ Spot(t) = "due" /\ Spot(t)' = "start" /\ pc'[t] = "start" /\ ~Due(t)'
  BY <1>1, <1>4, <1>8 DEF Due, Spot, InCompute
<1>12. t \in Active => /\ StageOf(t)' = StageOf(t)
                       /\ Spot(t)' = "ended" <=> Spot(t) = "ended"
  BY <1>11 DEF StageOf, Stage
<1>13. ThreadInv(t)'
  <2>1. CASE t \notin Active
    BY <1>4, <1>7, <1>8, <1>9, <1>10, <2>1, Zenon DEF ThreadInv, InCompute
  <2>2. CASE t \in Active
    <3>1. Sound(Spot(t), run[t].node, done[t], cgraph, abort)'
      BY <1>1, <1>4, <1>11, <2>2, Zenon DEF ThreadInv, Sound, Busy, Chunking
    <3>2. Spot(t)' # "ended" => Underway'
      BY <1>1, <1>7, <1>11, <2>2, Zenon DEF ThreadInv
    <3>3. Spot(t)' \in {"ended", "due", "start"} /\ bpc'[t] = "out" /\ Through(t)'
      BY <1>4, <1>7, <1>9, <1>11, <2>2, Zenon
    <3> QED BY <1>7, <1>10, <1>11, <2>2, <3>1, <3>2, <3>3, Zenon DEF ThreadInv, InCompute
  <2> QED BY <2>1, <2>2, Zenon
<1> QED BY <1>1, <1>4, <1>6, <1>12, <1>13, CalmKeeps, Zenon

\* between two graphs, a broadcast may move a worker out of its sleep
Nudged(t) ==
    \/ pc'[t] = pc[t]
    \/ /\ pc[t] \notin InCompute \cup {"poll_active"}
       /\ pc'[t] \notin InCompute \cup {"poll_active"}

\* When no graph is underway every thread of the last one has ended it.
LEMMA AllEnded ==
    ASSUME PoolInv, ~Underway
    PROVE  /\ \A t \in Active : /\ Spot(t) = "ended" /\ ~Due(t) /\ pc[t] # "poll_active"
                                /\ Through(t)
           /\ \A t \in Threads : pc[t] \notin InCompute \ {"final"}
<1> SUFFICES ASSUME NEW t \in Threads
             PROVE  /\ t \in Active => /\ Spot(t) = "ended" /\ ~Due(t) /\ Through(t)
                                       /\ pc[t] # "poll_active"
                    /\ pc[t] \notin InCompute \ {"final"}
  BY DEF Active
<1>1. ThreadInv(t)
  BY DEF PoolInv, GraphInv
<1>2. t \in Active => Spot(t) = "ended"
  BY <1>1 DEF ThreadInv
<1>3. Spot(t) = "ended" =>
        ~Due(t) /\ (pc[t] \notin InCompute \/ (pc[t] = "final" /\ Through(t)))
  BY DEF Spot, InCompute
<1>4. pc[t] \notin InCompute => Through(t)
  BY <1>1 DEF ThreadInv, Through, AtBarrier, InCompute
<1> QED BY <1>1, <1>2, <1>3, <1>4, Zenon DEF ThreadInv

\* Between two graphs thread 0 keeps the invariant, also when it sets up the next
\* graph or has it use fewer threads.
LEMMA RestKeeps ==
    ASSUME PoolInv, ~Underway, ~Underway', pc'[0] \notin {"return", "poll_active"},
           UNCHANGED <<n_graph, last_graph, seen, run, bpc, n_passed, n_barrier_passed>>,
           n_threads_cur' \in 1 .. n_threads_cur, n_threads_cur' \in 1 .. N,
           \A t \in Workers : Nudged(t),
           \/ /\ UNCHANGED <<cgraph, abort, ec, done, work>>
              /\ pc'[0] \in {"kick", "kick_graph"} => pc[0] = "kick"
           \/ /\ abort' = -1 /\ ec' = "success"
              /\ cgraph' \in Seq(Kinds)
              /\ done' = [t \in Threads |-> 0] /\ work' = Nobody(cgraph')
    PROVE  GraphInv'
<1>1. 0 \in Threads /\ 0 \in Active /\ 0 \in Active' /\ Active' \subseteq Active
  <2>1. n_threads_cur \in 1 .. N /\ N \in Nat /\ 0 \in Threads /\ Threads \subseteq Nat
    BY MainIsThread DEF PoolInv, DataTypes
  <2>2. /\ 0 < n_threads_cur /\ 0 < n_threads_cur' /\ n_threads_cur' <= n_threads_cur
        /\ n_threads_cur \in Nat /\ n_threads_cur' \in Nat
    BY <2>1
  <2>3. \A t \in Threads : t < n_threads_cur' => t < n_threads_cur
    BY <2>1, <2>2
  <2> QED BY <2>1, <2>2, <2>3, Zenon DEF Active
<1>2. pc'[0] \notin InCompute \cup {"kick_wake"} /\ pc[0] \notin InCompute \cup {"kick_wake"}
  BY DEF Underway
<1>3. \A t \in Threads : Nudged(t) \/ t = 0
  BY Zenon DEF Workers
<1>4. \A t \in Threads : ThreadInv(t)'
  <2> SUFFICES ASSUME NEW t \in Threads PROVE ThreadInv(t)'
    OBVIOUS
  <2>1. ThreadInv(t) /\ pc[t] \notin InCompute \ {"final"}
    BY AllEnded DEF PoolInv, GraphInv
  <2>9. \/ pc'[t] = pc[t]
        \/ pc[t] \notin InCompute /\ pc'[t] \notin InCompute \cup {"poll_active"}
    BY <1>2, <1>3 DEF Nudged, PoolInv, PlaceTypes
  <2>2. pc'[t] \notin InCompute \ {"final"}
    BY <2>1, <2>9, Zenon
  <2>3. bpc'[t] # "out" => pc'[t] \in AtBarrier
    BY <2>1, <2>9 DEF ThreadInv, AtBarrier, InCompute
  <2>4. Through(t)' <=> Through(t)
    BY DEF Through
  <2>5. t \in Active' => ~Due(t)' /\ Spot(t)' = "ended" /\ pc'[t] # "poll_active"
    <3> HAVE t \in Active'
    <3>1. Spot(t) = "ended" /\ ~Due(t) /\ Through(t) /\ pc[t] # "poll_active"
      BY <1>1, AllEnded
    <3>2. ~Due(t)'
      BY <1>2, <3>1, Zenon DEF Due
    <3> QED BY <2>1, <2>2, <2>4, <2>9, <3>1, <3>2, Zenon DEF Spot
  <2>6. t \notin Active' => bpc'[t] \in {"out", "spin"}
    BY <2>1, AllEnded DEF ThreadInv, Through
  <2>7. Sound("ended", run'[t].node, done'[t], cgraph', abort')
    BY DEF Sound, Busy, Chunking
  <2>8. last_graph'[t] <= n_graph' /\ seen'[t] <= n_graph'
    BY <2>1, Zenon DEF ThreadInv
  <2> QED BY <2>2, <2>3, <2>5, <2>6, <2>7, <2>8, Zenon DEF ThreadInv
<1>5. \A t \in Active' : Spot(t)' = "ended"
  BY <1>4 DEF ThreadInv, Active
<1>6. InPhase'
  BY <1>1, <1>5 DEF InPhase, StageOf, Stage
<1>7. done'[0] <= Len(cgraph') /\ \A t \in Active' : done'[t] = done'[0]
  <2>1. CASE UNCHANGED <<cgraph, done>>
    BY <1>1, <2>1, AllEnded DEF PoolInv, GraphInv, EndInv
  <2>2. CASE cgraph' \in Seq(Kinds) /\ done' = [t \in Threads |-> 0]
    BY <1>1, <2>2 DEF Active
  <2> QED BY <2>1, <2>2, Zenon
<1>8. EndInv'
  BY <1>2, <1>7 DEF EndInv, InCompute
<1>9. KickInv'
  BY <1>2 DEF KickInv, PoolInv, GraphInv
<1> QED BY <1>4, <1>6, <1>8, <1>9, Zenon DEF GraphInv

\* What the caller does while no graph is underway keeps the invariant.
LEMMA CallerKeeps ==
    ASSUME PoolInv, \/ Return \/ FreeWake \/ Join \/ Kick \/ Free
                    \/ \E on \in BOOLEAN : SetPause(on)
                    \/ \E n \in Scenes[scene].counts, g \in Scenes[scene].graphs :
                            GraphCompute(n, g)
    PROVE  GraphInv'
<1> USE DEF mainKeeps, graphVars, history, barrierVars, counters, locals, poolVars
<1>1. /\ 0 \in Threads /\ pc \in [Threads -> MainPlaces \cup WorkerPlaces]
      /\ n_threads_cur \in 1 .. N /\ N \in Nat /\ n_threads_cur \in 1 .. n_threads_cur
  BY MainIsThread DEF PoolInv, PlaceTypes, DataTypes
<1>2. ASSUME NEW to \in {"idle", "freed", "free"}, pc' = [pc EXCEPT ![0] = to]
      PROVE  ~Underway' /\ pc'[0] = to /\ \A t \in Workers : Nudged(t)
  BY <1>1, <1>2, Zenon DEF Underway, InCompute, Workers, Nudged
<1>3. CASE Return \/ Join
  BY <1>1, <1>2, <1>3, RestKeeps, Zenon DEF Return, Join, Go, Underway, InCompute
<1>4. CASE Free
  BY <1>1, <1>2, <1>4, RestKeeps, Zenon DEF Free, Go, Underway, InCompute
<1>5. CASE Kick
  <2>1. /\ pc[0] = "kick" /\ pc'[0] = "kick_graph" /\ n_threads_cur' = want
        /\ \A t \in Workers : Nudged(t)
    BY <1>1, <1>5, Zenon DEF Kick, Go, Workers, Nudged
  <2>2. want \in 1 .. N /\ want <= n_threads_cur
    BY <2>1 DEF PoolInv, DataTypes, WantInv
  <2>3. n_threads_cur' \in 1 .. n_threads_cur /\ n_threads_cur' \in 1 .. N
    BY <1>1, <2>1, <2>2, SMTT(20)
  <2> QED BY <1>5, <2>1, <2>3, RestKeeps, Zenon DEF Kick, Underway, InCompute
<1>6. ASSUME NEW n \in Scenes[scene].counts, NEW g \in Scenes[scene].graphs,
             GraphCompute(n, g)
      PROVE  GraphInv'
  <2>1. /\ pc[0] = "idle" /\ pc'[0] = "kick" /\ cgraph' = g
        /\ \A t \in Workers : Nudged(t)
    BY <1>1, <1>6, Zenon DEF GraphCompute, Go, Workers, Nudged
  <2>2. g \in Seq(Kinds)
    BY PoolAssumption, Zenon DEF Kinds, PoolInv, DataTypes
  <2>3. /\ abort' = -1 /\ ec' = "success"
        /\ done' = [t \in Threads |-> 0] /\ work' = Nobody(g)
        /\ UNCHANGED <<n_graph, last_graph, seen, run, bpc, n_passed, n_barrier_passed>>
        /\ n_threads_cur' = n_threads_cur
    BY <1>6, Zenon DEF GraphCompute
  <2> QED BY <1>1, <2>1, <2>2, <2>3, RestKeeps, Zenon DEF Underway, InCompute
<1>7. ASSUME NEW on \in BOOLEAN, SetPause(on) PROVE GraphInv'
  <2>1. pc[0] = "idle" /\ (pc' = pc \/ pc' = Broadcast(pc))
    BY <1>7 DEF SetPause
  <2>2. pc'[0] = "idle" /\ \A t \in Workers : Nudged(t)
    BY <1>1, <2>1, BroadcastMoves, SMTT(20) DEF Workers, Nudged, InCompute
  <2> QED BY <1>1, <1>7, <2>1, <2>2, RestKeeps, Zenon DEF SetPause, Underway, InCompute
<1>8. CASE FreeWake
  <2> DEFINE p == [pc EXCEPT ![0] = "join"]
  <2>1. /\ p \in [Threads -> MainPlaces \cup WorkerPlaces]
        /\ p[0] = "join" /\ \A t \in Workers : p[t] = pc[t]
    BY <1>1, Zenon DEF MainPlaces, Workers
  <2>2. pc[0] = "free" /\ pc' = Broadcast(p)
    BY <1>8 DEF FreeWake
  <2> HIDE DEF p
  <2>3. pc'[0] = "join" /\ \A t \in Workers : Nudged(t)
    BY <1>1, <2>1, <2>2, BroadcastMoves, SMTT(20) DEF Workers, Nudged, InCompute
  <2> QED BY <1>1, <1>8, <2>2, <2>3, RestKeeps, Zenon DEF FreeWake, Underway, InCompute
<1> QED BY <1>3, <1>4, <1>5, <1>6, <1>7, <1>8, Zenon

\* Counting the graph up calls every thread of it: all have ended the last one, and
\* none can have seen the new number.
LEMMA KickGraphKeeps ==
    ASSUME PoolInv, KickGraph
    PROVE  GraphInv'
<1>1. /\ 0 \in Threads /\ 0 \in Active /\ Active' = Active /\ Threads \subseteq Nat
      /\ UNCHANGED <<run, last_graph, seen, bpc, n_passed, n_barrier_passed>>
      /\ UNCHANGED <<n_threads_cur, cgraph, abort, ec, done, work>>
      /\ n_graph' = n_graph + 1
  <2>1. n_threads_cur \in 1 .. N
    BY DEF PoolInv, DataTypes
  <2> QED BY <2>1, MainIsThread, ActiveIs DEF Active, KickGraph, mainKeeps, graphVars,
             history, barrierVars, counters, locals
<1>2. /\ pc[0] = "kick_graph" /\ pc'[0] = "kick_wake"
      /\ \A t \in Threads \ {0} : pc'[t] = pc[t]
  BY <1>1 DEF KickGraph, Go, PoolInv, PlaceTypes
<1>3. ~Underway /\ Underway'
  BY <1>2 DEF Underway, InCompute
<1>4. /\ last_graph \in [Threads -> Nat] /\ seen \in [Threads -> Nat] /\ n_graph \in Nat
      /\ cgraph \in Seq(Kinds)
  BY DEF PoolInv, DataTypes
<1>5. /\ \A t \in Threads : done[t] = 0
      /\ abort = -1 /\ ec = "success"
  BY <1>2, Zenon DEF PoolInv, GraphInv, KickInv
<1>6. \A t \in Threads : ThreadInv(t)' /\ (t \in Active => Spot(t)' = "due")
  <2> SUFFICES ASSUME NEW t \in Threads
               PROVE  ThreadInv(t)' /\ (t \in Active => Spot(t)' = "due")
    OBVIOUS
  <2>1. ThreadInv(t) /\ pc[t] \notin InCompute \ {"final"}
    BY <1>3, AllEnded DEF PoolInv, GraphInv
  <2>2. pc'[t] \notin InCompute \ {"final"} /\ (bpc'[t] # "out" => pc'[t] \in AtBarrier)
    BY <1>1, <1>2, <2>1, Zenon DEF ThreadInv, AtBarrier, InCompute
  <2>3. last_graph'[t] <= n_graph' /\ seen'[t] <= n_graph' /\ last_graph'[t] # n_graph'
    BY <1>1, <1>4, <2>1 DEF ThreadInv
  <2>4. Due(t)' /\ Spot(t)' = "due"
    BY <1>2, <2>3 DEF Due, Spot
  <2>5. t \in Active => Through(t)' /\ pc'[t] # "poll_active"
    BY <1>1, <1>2, <1>3, AllEnded, Zenon DEF Through
  <2>6. t \notin Active => bpc'[t] \in {"out", "spin"}
    BY <1>1, <2>1, Zenon DEF ThreadInv
  <2>7. Sound("due", run'[t].node, done'[t], cgraph', abort')
    BY <1>1, <1>5 DEF Sound, Busy, Chunking
  <2> QED BY <1>1, <1>3, <2>2, <2>3, <2>4, <2>5, <2>6, <2>7, Zenon DEF ThreadInv
<1>7. InPhase'
  <2>1. \A t \in Active : StageOf(t)' = 0
    BY <1>6 DEF Active, StageOf, Stage
  <2> QED BY <1>1, <2>1 DEF InPhase
<1>8. EndInv'
  BY <1>1, <1>4, <1>5, <1>6 DEF EndInv
<1>9. KickInv'
  BY <1>1, <1>2, <1>5 DEF KickInv, InCompute
<1> QED BY <1>6, <1>7, <1>8, <1>9, Zenon DEF GraphInv

\* Waking the workers, thread 0 starts on the graph itself.
LEMMA KickWakeKeeps ==
    ASSUME PoolInv, KickWake
    PROVE  GraphInv' /\ \A t \in Active : /\ StageOf(t)' = StageOf(t)
                                          /\ \/ Spot(t)' = Spot(t)
                                             \/ Spot(t) = "due" /\ Spot(t)' = "start"
<1>1. /\ 0 \in Threads /\ 0 \in Active /\ Active' = Active
      /\ UNCHANGED <<run, last_graph, seen, bpc, n_passed, n_barrier_passed>>
      /\ UNCHANGED <<n_threads_cur, n_graph, cgraph, abort, ec, done, work>>
  <2>1. n_threads_cur \in 1 .. N
    BY DEF PoolInv, DataTypes
  <2> QED BY <2>1, MainIsThread, ActiveIs, Zenon DEF Active, KickWake, mainKeeps, graphVars,
             history, barrierVars, counters, locals
<1>2. /\ pc[0] = "kick_wake" /\ pc'[0] = "start"
      /\ \A t \in Workers : Nudged(t)
  <2> DEFINE p == [pc EXCEPT ![0] = "start"]
  <2>1. pc \in [Threads -> MainPlaces \cup WorkerPlaces]
    BY DEF PoolInv, PlaceTypes
  <2>2. /\ p \in [Threads -> MainPlaces \cup WorkerPlaces]
        /\ p[0] = "start" /\ \A t \in Workers : p[t] = pc[t]
    BY <1>1, <2>1 DEF MainPlaces, InCompute, Workers
  <2>3. pc[0] = "kick_wake" /\ pc' = Broadcast(p)
    BY DEF KickWake
  <2> HIDE DEF p
  <2> QED BY <1>1, <2>2, <2>3, BroadcastMoves DEF Workers, Nudged, InCompute
<1>3. Underway /\ Underway'
  BY <1>2 DEF Underway, InCompute
<1>4. \A t \in Threads : /\ ThreadInv(t)' /\ (t \in Active => StageOf(t)' = StageOf(t))
                         /\ Spot(t)' = Spot(t) \/ (Spot(t) = "due" /\ Spot(t)' = "start")
  <2> SUFFICES ASSUME NEW t \in Threads
               PROVE  /\ ThreadInv(t)' /\ (t \in Active => StageOf(t)' = StageOf(t))
                      /\ Spot(t)' = Spot(t) \/ (Spot(t) = "due" /\ Spot(t)' = "start")
    OBVIOUS
  <2>1. ThreadInv(t) /\ (Through(t)' <=> Through(t))
    BY <1>1, Zenon DEF PoolInv, GraphInv, Through
  <2>2. CASE t = 0
    <3>1. Due(t) /\ ~Due(t)' /\ Spot(t) = "due" /\ Spot(t)' = "start"
      BY <1>2, <2>2, Zenon DEF Due, Spot, InCompute
    <3>2. Sound("start", run'[t].node, done'[t], cgraph', abort')
      BY <1>1, <2>1, <2>2, <3>1, Zenon DEF ThreadInv, Sound, Busy, Chunking
    <3>3. bpc'[t] = "out"
      BY <1>1, <1>2, <2>1, <2>2, Zenon DEF ThreadInv, AtBarrier
    <3>4. StageOf(t)' = StageOf(t)
      BY <3>1, Zenon DEF StageOf, Stage
    <3> QED BY <1>1, <1>2, <1>3, <2>1, <2>2, <3>1, <3>2, <3>3, <3>4, Zenon DEF ThreadInv
  <2>3. CASE t # 0
    <3>1. Nudged(t) /\ (Due(t)' <=> Due(t))
      BY <1>1, <1>2, <2>3, Zenon DEF Due, Workers
    <3>2. Spot(t)' = Spot(t)
      BY <2>1, <3>1 DEF Spot, Nudged, InCompute
    <3>3. Sound(Spot(t), run[t].node, done[t], cgraph, abort)' <=>
          Sound(Spot(t), run[t].node, done[t], cgraph, abort)
      BY <1>1, <3>2
    <3>4. StageOf(t)' = StageOf(t)
      BY <1>1, <3>2, Zenon DEF StageOf
    <3>5. /\ bpc'[t] # "out" => pc'[t] \in AtBarrier
          /\ pc'[t] \in InCompute \ {"final"} => t \in Active' /\ ~Due(t)'
          /\ t \in Active' /\ pc'[t] = "poll_active" => Due(t)' /\ seen'[t] = n_graph'
      BY <1>1, <2>1, <3>1, Zenon DEF ThreadInv, Nudged, AtBarrier, InCompute
    <3>6. t \in Active' /\ Spot(t)' \notin {"ended", "due", "start"} =>
              run'[t].graph = cgraph' /\ run'[t].nth = n_threads_cur'
      BY <1>1, <2>1, <3>2, Zenon DEF ThreadInv
    <3>7. /\ last_graph'[t] <= n_graph' /\ seen'[t] <= n_graph'
          /\ t \in Active' => Sound(Spot(t), run[t].node, done[t], cgraph, abort)'
          /\ t \in Active' /\ Due(t)' => Through(t)'
          /\ t \notin Active' => bpc'[t] \in {"out", "spin"}
      BY <1>1, <2>1, <3>1, <3>3, Zenon DEF ThreadInv
    <3> QED BY <1>3, <3>2, <3>4, <3>5, <3>6, <3>7, Zenon DEF ThreadInv
  <2> QED BY <2>2, <2>3
<1>5. InPhase'
  <2>1. \A t \in Active : StageOf(t)' = StageOf(t) /\ StageOf(t) = StageOf(0)
    BY <1>4 DEF Active, InPhase, PoolInv, GraphInv
  <2> QED BY <1>1, <2>1 DEF InPhase
<1>6. EndInv'
  <2>1. Spot(0)' = "start"
    BY <1>2 DEF Spot, Due, InCompute
  <2> QED BY <1>1, <2>1 DEF EndInv, PoolInv, GraphInv
<1>7. KickInv'
  BY <1>1, <1>2, Zenon DEF KickInv, PoolInv, GraphInv
<1> QED BY <1>4, <1>5, <1>6, <1>7, Zenon DEF GraphInv, Active

=============================================================================
