------------------------- MODULE GraphComputeProofs -------------------------
(***************************************************************************)
(* The threads that compute a graph stay in step, the caller is alone when *)
(* it resets the parameters, and the call returns with the graph computed. *)
(***************************************************************************)
EXTENDS ThreadPoolProofs

-----------------------------------------------------------------------------
(***************************************************************************)
(* The threads stay in step                                                *)
(***************************************************************************)
\* Without "grow" a kickoff never asks for more threads than the last graph used.
LEMMA WantStep ==
    ASSUME NoGrow, PoolInv, PoolNext
    PROVE  WantInv'
<1>1. /\ 0 \in Threads /\ pc \in [Threads -> MainPlaces \cup WorkerPlaces]
      /\ pc[0] = "kick" => want <= n_threads_cur
      /\ scene \in DOMAIN Scenes
  BY MainIsThread DEF PoolInv, PlaceTypes, DataTypes, WantInv
<1>2. ASSUME NEW n \in Scenes[scene].counts, NEW g \in Scenes[scene].graphs,
             GraphCompute(n, g)
      PROVE  WantInv'
  <2>1. want' <= n_threads_cur /\ n_threads_cur' = n_threads_cur
    BY <1>1, <1>2 DEF GraphCompute, NoGrow, barrierVars
  <2> QED BY <2>1 DEF WantInv
<1>3. CASE MainStep
  <2>1. pc'[0] # "kick"
    <3>1. CASE Kick \/ KickGraph \/ Return \/ Join
      BY <1>1, <3>1 DEF Kick, KickGraph, Return, Join, Go
    <3>2. ASSUME NEW to \in {"start", "join"}, pc' = Broadcast([pc EXCEPT ![0] = to])
          PROVE  pc'[0] # "kick"
      <4> DEFINE p == [pc EXCEPT ![0] = to]
      <4>1. p \in [Threads -> MainPlaces \cup WorkerPlaces] /\ p[0] = to
        BY <1>1 DEF MainPlaces, InCompute
      <4>2. pc' = Broadcast(p)
        BY <3>2
      <4> HIDE DEF p
      <4> QED BY <1>1, <4>1, <4>2, BroadcastMoves, Zenon
    <3> QED BY <1>3, <3>1, <3>2, Zenon DEF MainStep, KickWake, FreeWake
  <2> QED BY <2>1 DEF WantInv
<1>4. ASSUME NEW on \in BOOLEAN, SetPause(on) PROVE WantInv'
  <2>1. pc[0] = "idle" /\ (pc' = pc \/ pc' = Broadcast(pc))
    BY <1>4 DEF SetPause
  <2> QED BY <1>1, <2>1, BroadcastMoves DEF WantInv
<1>5. CASE Free
  BY <1>1, <1>5 DEF Free, Go, WantInv
<1>6. ASSUME NEW t \in Workers, WorkerStep(t) \/ SpuriousWake(t) PROVE WantInv'
  <2>1. pc'[0] = pc[0] /\ want' = want /\ n_threads_cur' = n_threads_cur
    BY <1>1, <1>6 DEF WorkerStep, SpuriousWake, PauseCheck, PauseLock, PauseWoken,
           StopCheck, PollActive, Poll, PollReady, SleepCheck, Go, workerKeeps, Workers,
           barrierVars
  <2> QED BY <1>1, <2>1, Zenon DEF WantInv
<1>7. ASSUME NEW t \in Threads, ComputeStep(t) PROVE WantInv'
  <2>1. want' = want /\ n_threads_cur' = n_threads_cur
    BY <1>7, Zenon DEF ComputeStep, Start, Loop, Plain, ChunkSet, ChunkFirst, ChunkStep,
           ChunksOut, After, NodeBarrier, Final, BarrierStep, computeKeeps, barrierVars,
           Call, Inside, LoadThreads, LoadPassed, Enter, Reset, Release, Spin
  <2>2. run[t] \in Runs
    BY DEF PoolInv, DataTypes
  <2>3. \A r \in Runs : r.node < Len(r.graph) => r.graph[r.node + 1] \in Kinds
    BY NodeKind, Zenon
  <2>4. pc'[0] = pc[0] \/ pc'[0] # "kick"
    BY <1>1, <1>7, <2>2, <2>3, Zenon DEF ComputeStep, Start, Loop, Plain, ChunkSet, ChunkFirst,
           ChunkStep, ChunksOut, After, NodeBarrier, Final, BarrierStep, Go, Kinds
  <2> QED BY <1>1, <2>1, <2>4, ZenonT(30) DEF WantInv
<1>8. CASE Terminated
  BY <1>1, <1>8 DEF Terminated, vars, barrierVars, WantInv
<1> QED BY <1>2, <1>3, <1>4, <1>5, <1>6, <1>7, <1>8, Zenon DEF PoolNext, Ask

\* A graph with fewer threads has a barrier of its own: nobody waits at the old one.
LEMMA Shrink ==
    ASSUME NEW P \in SUBSET Threads, NEW Q \in SUBSET P, Q # {}, IInv(P),
           Waiting(P) = {}, \A t \in P : bpc[t] \in {"out", "spin"},
           n_threads_cur' = Cardinality(Q), UNCHANGED <<counters, bpc, locals>>
    PROVE  IInv(Q)'
<1> USE DEF counters, locals
<1>1. Waiting(Q)' = {} /\ Last(Q)' = {} /\ Cardinality({}) = 0
  BY FS_EmptySet DEF Waiting, Last
<1>2. n_barrier = 0
  BY <1>1 DEF IInv, Counted
<1>3. BarrierTypeOK(Q)'
  BY Zenon DEF IInv, BarrierTypeOK
<1>4. ThreadsRead(Q)' /\ Counted(Q)' /\ LastIsLast(Q)'
  BY <1>1, <1>2, Zenon DEF ThreadsRead, Counted, LastIsLast
<1>5. PassedRead(Q)'
  BY DEF IInv, PassedRead, Freed
<1> QED BY <1>3, <1>4, <1>5, Zenon DEF IInv

\* The barrier of the threads of the current graph keeps its invariant.
LEMMA BarrierInPool ==
    ASSUME PoolInv, [PoolNext]_vars
    PROVE  IInv(Active)'
<1>1. Active \in SUBSET Threads /\ IInv(Active)
  BY DEF Active, PoolInv
<1>2. PICK P \in SUBSET Threads : P = Active
  BY <1>1
<1>3. IInv(P) /\ \A t \in Threads : ThreadInv(t)
  BY <1>1, <1>2 DEF PoolInv, GraphInv
<1>4. ASSUME n_threads_cur' = n_threads_cur, IInv(P)' PROVE IInv(Active)'
  <2>1. Active' = P
    BY <1>2, <1>4 DEF Active
  <2> QED BY <1>4, <2>1
<1>5. CASE UNCHANGED barrierVars
  BY <1>3, <1>4, <1>5, StutterStep DEF barrierVars
<1>6. ASSUME NEW t \in Threads, \/ Call(t) /\ pc[t] \in {"loop", "chunked", "after"}
                                \/ Inside(t)
      PROVE  IInv(Active)'
  <2>1. n_threads_cur' = n_threads_cur
    BY <1>6, Zenon DEF Call, Inside, LoadThreads, LoadPassed, Enter, Reset, Release, Spin
  <2>2. CASE t \in P
    BY <1>3, <1>4, <1>6, <2>1, <2>2, OutsideSteps, EnterStep, ResetStep, ReleaseStep,
       SpinStep, Zenon DEF Inside
  <2>3. CASE t \notin P
    <3>1. bpc[t] \in {"out", "spin"} /\ pc[t] \notin {"loop", "chunked", "after"}
      BY <1>2, <1>3, <2>3, Zenon DEF ThreadInv, InCompute
    <3>2. Spin(t)
      BY <1>6, <3>1 DEF Inside, LoadThreads, LoadPassed, Enter, Reset, Release, At
    <3> QED BY <1>3, <1>4, <2>1, <2>3, <3>2, StrangerLeaves, Zenon
  <2> QED BY <2>2, <2>3, Zenon
<1>7. CASE Kick
  <2>1. /\ pc[0] = "kick" /\ n_threads_cur' = want
        /\ UNCHANGED <<counters, bpc, locals>>
    BY <1>7 DEF Kick, Go
  <2>2. /\ want \in 1 .. N /\ want <= n_threads_cur /\ n_threads_cur \in 1 .. N /\ N \in Nat
        /\ Threads \subseteq Nat
    BY <2>1, MainIsThread DEF PoolInv, DataTypes, WantInv
  <2>3. PICK Q \in SUBSET Threads : Q = {t \in Threads : t < want}
    BY Zenon
  <2>4. 0 \in Q /\ Cardinality(Q) = want
    BY <2>2, <2>3, ActiveIs
  <2>5. want \in Nat /\ n_threads_cur \in Nat
    BY <2>2
  <2>6. Q \subseteq P
    <3>1. \A t \in Threads : t < want => t < n_threads_cur
      BY <2>2, <2>5
    <3> QED BY <1>2, <2>3, <3>1 DEF Active
  <2>7. Q = Active'
    BY <2>1, <2>3 DEF Active
  <2>8. \A t \in P : Through(t)
    BY <1>2, <2>1, AllEnded, Zenon DEF Underway, InCompute
  <2>9. Waiting(P) = {} /\ \A t \in P : bpc[t] \in {"out", "spin"}
    BY <2>8 DEF Waiting, Through
  <2>10. IInv(Q)'
    BY <1>3, <2>1, <2>4, <2>6, <2>9, Shrink, Zenon
  <2> QED BY <2>7, <2>10
<1> QED BY <1>5, <1>6, <1>7, BarrierMoves

\* Every step of the pool keeps the invariant.
LEMMA PoolStep ==
    ASSUME NoGrow, PoolInv, [PoolNext]_vars
    PROVE  PoolInv'
<1>1. CASE UNCHANGED vars
  <2>1. UNCHANGED <<scene, n_graph, mutex, cgraph, abort, ec, current_chunk, want, pc,
                    last_graph, seen, run, done, work, n_threads_cur, bpc, n_passed,
                    n_barrier_passed>>
    BY <1>1, Zenon DEF vars, poolVars, graphVars, history, barrierVars, counters, locals
  <2>2. PlaceTypes' /\ DataTypes' /\ WantInv'
    BY <2>1 DEF PoolInv, PlaceTypes, DataTypes, WantInv
  <2>3. Active' = Active /\ (Underway' <=> Underway)
    BY <2>1 DEF Active, Underway
  <2>4. \A t \in Threads : /\ Due(t)' <=> Due(t)
                           /\ Through(t)' <=> Through(t)
    BY <2>1, Zenon DEF Due, Through
  <2>5. \A t \in Threads : Spot(t)' = Spot(t) /\ StageOf(t)' = StageOf(t)
    BY <2>1, <2>4, Zenon DEF Spot, StageOf
  <2>6. \A t \in Threads : ThreadInv(t)'
    BY <2>1, <2>3, <2>4, <2>5, Zenon DEF ThreadInv, PoolInv, GraphInv
  <2>7. 0 \in Threads /\ Active \subseteq Threads
    BY MainIsThread DEF Active
  <2>8. InPhase' /\ EndInv' /\ KickInv'
    <3>1. InPhase'
      BY <2>3, <2>5, <2>7, Zenon DEF InPhase, PoolInv, GraphInv
    <3>2. EndInv'
      BY <2>1, <2>3, <2>5, <2>7, Zenon DEF EndInv, PoolInv, GraphInv
    <3>3. KickInv'
      BY <2>1, Zenon DEF KickInv, PoolInv, GraphInv
    <3> QED BY <3>1, <3>2, <3>3
  <2> QED BY <2>2, <2>6, <2>8, BarrierInPool, Zenon DEF PoolInv, GraphInv
<1>2. CASE PoolNext
  <2>1. PlaceTypes' /\ DataTypes' /\ WantInv' /\ IInv(Active)'
    BY <1>2, PlacesStep, DataStep, WantStep, BarrierInPool, Zenon DEF PoolInv
  <2>2. ASSUME MainStep PROVE GraphInv'
    <3>1. CASE Return \/ FreeWake \/ Join \/ Kick
      BY <3>1, CallerKeeps
    <3>2. CASE KickGraph
      BY <3>2, KickGraphKeeps
    <3>3. CASE KickWake
      BY <3>3, KickWakeKeeps, Zenon
    <3> QED BY <2>2, <3>1, <3>2, <3>3, Zenon DEF MainStep
  <2>3. ASSUME Ask PROVE GraphInv'
    <3>1. \/ Free \/ \E on \in BOOLEAN : SetPause(on)
          \/ \E n \in Scenes[scene].counts, g \in Scenes[scene].graphs : GraphCompute(n, g)
      BY <2>3 DEF Ask
    <3> QED BY <3>1, CallerKeeps, Zenon
  <2>4. ASSUME NEW t \in Workers, WorkerStep(t) \/ SpuriousWake(t) PROVE GraphInv'
    BY <2>4, WorkerKeeps, Zenon
  <2>5. ASSUME NEW t \in Threads, ComputeStep(t) PROVE GraphInv'
    <3>1. CASE BarrierStep(t)
      <4>1. \/ LoadThreads(t) \/ LoadPassed(t) \/ Enter(t) \/ Reset(t) \/ Release(t)
            \/ Spin(t)
        BY <3>1 DEF BarrierStep, Inside
      <4> QED BY <3>1, <4>1, InsideKeeps, OpeningKeeps, Zenon
    <3>2. CASE Final(t)
      BY <3>2, FinalKeeps
    <3> QED BY <2>1, <2>5, <3>1, <3>2, ComputeKeeps, Zenon DEF ComputeStep
  <2>6. CASE Terminated
    BY <1>1, <2>6 DEF Terminated, PoolInv
  <2> QED BY <1>2, <2>1, <2>2, <2>3, <2>4, <2>5, <2>6, Zenon DEF PoolNext, PoolInv
<1> QED BY <1>1, <1>2

\* A new pool has the invariant: all threads are idle and count as those of the
\* last graph, which was empty.
LEMMA PoolInitInv ==
    ASSUME PoolInit
    PROVE  PoolInv
<1>1. N \in Nat \ {0} /\ 0 \in Threads /\ Threads \subseteq Nat /\ Threads = 0 .. N - 1
  BY MainIsThread, PoolAssumption, Zenon
<1>2. BarrierInit(Cardinality(Threads)) /\ n_threads_cur = N /\ bpc = [t \in Threads |-> "out"]
  BY DEF PoolInit, BarrierInit, N
<1>3. Active = Threads
  BY <1>1, <1>2 DEF Active
<1>4. IInv(Active)
  BY <1>2, <1>3, InitIInv, Zenon
<1>5. PlaceTypes
  BY <1>1, Zenon DEF PoolInit, PlaceTypes, MainPlaces, WorkerPlaces, Workers
<1>6. DataTypes
  <2>1. <<>> \in Seq(Kinds) /\ Len(<<>>) = 0
    BY SMTT(20)
  <2>2. Idle \in Runs
    BY <2>1 DEF Idle, Runs
  <2>3. work \in [1 .. Len(cgraph) -> [0 .. N + WantedChunks -> Nat]]
    BY DEF PoolInit, Nobody
  <2>4. n_threads_cur \in 1 .. N /\ want \in 1 .. N
    BY <1>1, <1>2 DEF PoolInit
  <2>5. run \in [Threads -> Runs]
    BY <2>2, Zenon DEF PoolInit
  <2> QED BY <2>1, <2>3, <2>4, <2>5, Zenon DEF PoolInit, DataTypes
<1>7. \A t \in Threads : ThreadInv(t) /\ Spot(t) = "ended"
  <2> SUFFICES ASSUME NEW t \in Threads PROVE ThreadInv(t) /\ Spot(t) = "ended"
    OBVIOUS
  <2>1. /\ pc[t] = IF t = 0 THEN "idle" ELSE "pause"
        /\ last_graph[t] = 0 /\ seen[t] = 0 /\ n_graph = 0 /\ bpc[t] = "out"
        /\ pc[0] = "idle"
    BY <1>1, <1>2, Zenon DEF PoolInit
  <2>2. ~Due(t) /\ Spot(t) = "ended"
    BY <2>1, Zenon DEF Due, Spot, InCompute
  <2>3. Sound("ended", run[t].node, done[t], cgraph, abort)
    BY DEF Sound, Busy, Chunking
  <2> QED BY <2>1, <2>2, <2>3, <1>3, SMTT(20) DEF ThreadInv, InCompute
<1>8. InPhase
  BY <1>1, <1>3, <1>7, Zenon DEF InPhase, StageOf, Stage
<1>9. EndInv /\ KickInv
  <2>1. pc[0] = "idle" /\ done = [t \in Threads |-> 0] /\ cgraph = <<>> /\ Len(<<>>) = 0
    BY <1>1 DEF PoolInit
  <2> QED BY <1>1, <1>3, <2>1, SMTT(20) DEF EndInv, KickInv, InCompute
<1>10. WantInv
  BY <1>1 DEF PoolInit, WantInv
<1> QED BY <1>4, <1>5, <1>6, <1>7, <1>8, <1>9, <1>10, Zenon DEF PoolInv, GraphInv

\* The invariant bounds the barrier's counter by the number of threads.
LEMMA CounterBound ==
    ASSUME PoolInv
    PROVE  n_barrier \in 0 .. N
<1>1. PICK P \in SUBSET Threads : P = Active /\ IInv(P)
  BY Zenon DEF PoolInv, Active
<1>2. /\ Cardinality(P) = n_threads_cur /\ n_barrier \in Nat
      /\ n_threads_cur \in 1 .. N /\ N \in Nat
  BY <1>1, MainIsThread, Zenon DEF PoolInv, DataTypes, IInv, BarrierTypeOK
<1>3. Waiting(P) \in SUBSET P /\ IsFiniteSet(P)
  BY ThreadsAssumption, FS_Subset DEF Waiting
<1>4. Cardinality(Waiting(P)) <= Cardinality(P)
  BY <1>3, FS_Subset, Zenon
<1>5. n_barrier = 0 \/ n_barrier = Cardinality(Waiting(P))
  BY <1>1 DEF IInv, Counted
<1> QED BY <1>2, <1>4, <1>5

\* When each call asks for at most as many threads as the one before, the threads
\* of a graph stay in step, for every number of threads, every graph, every width
\* of the counters and every way the workers poll, sleep and pause: none works on
\* a node before all have finished the nodes before it.
THEOREM InStepHolds == NoGrow => (PoolSpec => []InStep)
<1> SUFFICES ASSUME NoGrow PROVE PoolSpec => []InStep
  OBVIOUS
<1>1. PoolInit => PoolInv
  BY PoolInitInv
<1>2. PoolInv /\ [PoolNext]_vars => PoolInv'
  BY PoolStep
<1>3. PoolInv => InStep
  <2> SUFFICES ASSUME PoolInv PROVE InStep
    OBVIOUS
  <2>1. TypeOK
    <3>1. n_threads_cur \in 1 .. N /\ n_barrier \in 0 .. N
      BY CounterBound DEF PoolInv, DataTypes
    <3>2. n_barrier_passed \in 0 .. IntMod - 1 /\ bpc \in [Threads -> Places]
      BY DEF PoolInv, IInv, BarrierTypeOK
    <3>3. /\ pc[0] \in MainPlaces /\ \A t \in Workers : pc[t] \in WorkerPlaces
          /\ mutex = (pc[0] \in {"kick_graph", "kick_wake", "free"})
      BY SMTT(20) DEF PoolInv, PlaceTypes
    <3> QED BY <3>1, <3>2, <3>3, Zenon DEF TypeOK, MainPlaces, WorkerPlaces
  <2>2. ASSUME NEW t \in Threads, pc[t] \in AtWork, NEW u \in Active
        PROVE  done[u] >= run[t].node
    <3>1. ThreadInv(t) /\ ThreadInv(u) /\ u \in Threads
      BY Zenon DEF PoolInv, GraphInv, Active
    <3>2. t \in Active /\ ~Due(t)
      BY <2>2, <3>1, Zenon DEF ThreadInv, AtWork, InCompute
    <3>3. Spot(t) \in Busy
      BY <2>2, <3>2, Zenon DEF Spot, Busy, Chunking, AtWork, InCompute
    <3>4. Stage(Spot(t), run[t].node, cgraph) = Stage(Spot(u), run[u].node, cgraph)
      BY <3>2, Zenon DEF PoolInv, GraphInv, InPhase, StageOf
    <3>5. /\ cgraph \in Seq(Kinds) /\ abort \in Int
          /\ run[t].node \in Nat /\ run[u].node \in Nat /\ done[t] \in Nat /\ done[u] \in Nat
      BY <3>1, SMTT(20) DEF PoolInv, DataTypes, Runs
    <3>6. /\ Sound(Spot(t), run[t].node, done[t], cgraph, abort)
          /\ Sound(Spot(u), run[u].node, done[u], cgraph, abort)
      BY <3>1, <3>2, Zenon DEF ThreadInv
    <3>7. Spot(u) \in Spots
      BY <3>1, SpotType, Zenon
    <3>8. \A n, m, d, e \in Nat, b \in Busy, s \in Spots :
            /\ Sound(b, n, d, cgraph, abort) /\ Sound(s, m, e, cgraph, abort)
            /\ Stage(b, n, cgraph) = Stage(s, m, cgraph)
            => e >= n
      BY <3>5, NotBehind, Zenon
    <3> QED BY <3>3, <3>4, <3>5, <3>6, <3>7, <3>8, Zenon
  <2> QED BY <2>1, <2>2 DEF InStep
<1> QED BY <1>1, <1>2, <1>3, PTL DEF PoolSpec

\* "No worker threads should be accessing the parameters below at this stage": when
\* the caller of ggml_graph_compute may write the graph and the plan, no worker is
\* before the end of the last barrier of the last graph, whatever their number.
THEOREM ResetIsAloneHolds == NoGrow => (PoolSpec => []ResetIsAlone)
<1> SUFFICES ASSUME NoGrow PROVE PoolSpec => []ResetIsAlone
  OBVIOUS
<1>1. PoolInit => PoolInv
  BY PoolInitInv
<1>2. PoolInv /\ [PoolNext]_vars => PoolInv'
  BY PoolStep
<1>3. PoolInv => ResetIsAlone
  <2> SUFFICES ASSUME PoolInv, pc[0] = "idle", NEW t \in Workers, pc[t] \in InCompute
               PROVE  /\ pc[t] = "final"
                      /\ bpc[t] \in {"out", "spin"}
                      /\ t \in Active => bpc[t] = "out" \/ n_passed[t] # n_barrier_passed
    BY DEF ResetIsAlone
  <2>1. ~Underway /\ t \in Threads /\ ThreadInv(t)
    BY DEF Underway, InCompute, Workers, PoolInv, GraphInv
  <2>2. pc[t] = "final"
    BY <2>1, AllEnded
  <2>3. t \in Active => Through(t)
    BY <2>1, AllEnded
  <2> QED BY <2>1, <2>2, <2>3, Zenon DEF ThreadInv, Through
<1> QED BY <1>1, <1>2, <1>3, PTL DEF PoolSpec

-----------------------------------------------------------------------------
(***************************************************************************)
(* The chunks of the matrix products                                       *)
(***************************************************************************)
\* the chunk a thread has still to compute
Holds(t, c) ==
    \/ Spot(t) = "chunk_free" /\ c = t
    \/ Spot(t) = "chunk" /\ c = run[t].chunk

\* While the chunks of a node are computed: the chunks handed out, each to one
\* thread, are those below the counter, and what is handed out and no longer held
\* was computed once; a thread stops only when all chunks are handed out.
ChunksTaken(w) ==
    /\ current_chunk >= n_threads_cur
    /\ \A t \in Active, c \in Nat : Holds(t, c) => c < current_chunk
    /\ \A t, u \in Active, c \in Nat : Holds(t, c) /\ Holds(u, c) => t = u
    /\ \A t \in Active :
            Spot(t) \in {"chunk_free", "chunk"} \/ current_chunk >= NChunks(n_threads_cur)
    /\ \A c \in 0 .. NChunks(n_threads_cur) - 1 :
            w[c] = IF c < current_chunk /\ \A t \in Active : ~Holds(t, c) THEN 1 ELSE 0

ChunkInv ==
    /\ Spot(0) = "chunk_barrier" => current_chunk = n_threads_cur
    /\ \A i \in 1 .. Len(cgraph) : cgraph[i] = "chunked" =>
         /\ StageOf(0) # -1 /\ StageOf(0) < 2 * i - 1 =>
              \A c \in 0 .. N + WantedChunks : work[i][c] = 0
         /\ StageOf(0) > 2 * i - 1 \/ (StageOf(0) = -1 /\ i <= done[0]) =>
              \A c \in 0 .. NChunks(n_threads_cur) - 1 : work[i][c] = 1
         /\ StageOf(0) = 2 * i - 1 => ChunksTaken(work[i])

\* The chunks of a product fit into the record of what was computed.
LEMMA ChunkBound ==
    ASSUME NEW n \in 1 .. N
    PROVE  /\ NChunks(n) \in Nat /\ NChunks(n) <= N + WantedChunks
           /\ WantedChunks \in Nat /\ N \in Nat
<1>1. N \in Nat /\ WantedChunks \in Nat
  BY MainIsThread, PoolAssumption, Zenon
<1> QED BY <1>1, SMTT(20) DEF NChunks

\* what the opening of barrier p, from stage S to stage T, means for the chunks of
\* product i: it leaves them ahead, or behind, or they begin
Crosses(p, d, i, S, T) ==
    /\ S # -1
    /\ T # -1 /\ T < 2 * i - 1 => S < 2 * i - 1
    /\ T > 2 * i - 1 \/ (T = -1 /\ i <= d) =>
         S > 2 * i - 1 \/ (S = 2 * i - 1 /\ p # "chunk_barrier")
    /\ T = 2 * i - 1 => p = "chunk_barrier" /\ S < 2 * i - 1

\* What the opening of a barrier means for node i: the chunks of a product are
\* behind all threads only after its second barrier.
LEMMA OpenStages ==
    ASSUME NEW g \in Seq(Kinds), NEW a \in Int, NEW n \in Nat, NEW d \in Nat,
           NEW p \in AtBarrier, Sound(p, n, d, g, a),
           NEW i \in 1 .. Len(g), g[i] = "chunked",
           NEW S, S = Stage(p, n, g), NEW T, T = Stage(Beyond(p), n, g)
    PROVE  Crosses(p, d, i, S, T)
<1>1. Len(g) \in Nat /\ i \in Nat
  OBVIOUS
<1>2. CASE p = "chunk_barrier"
  <2>1. S = 2 * n /\ T = 2 * n + 1
    BY <1>2, StageIs, Zenon DEF Beyond
  <2> QED BY <1>1, <1>2, <2>1 DEF Crosses
<1>3. CASE p = "node_barrier"
  <2>1. S = 2 * n + Part(g, n) /\ T = 2 * (n + 1) /\ Part(g, n) \in {0, 1}
    BY <1>3, StageIs, Zenon DEF Beyond
  <2>2. i = n + 1 => Part(g, n) = 1
    BY Zenon DEF Part
  <2> QED BY <1>1, <1>3, <2>1, <2>2, SMTT(20) DEF Crosses
<1>4. CASE p = "final"
  <2>1. d = n /\ n <= Len(g) /\ T = -1
    BY <1>4, StageIs, Zenon DEF Beyond, Sound, AtBarrier
  <2>2. CASE n > 0 /\ n = Len(g)
    <3>1. S = 2 * (n - 1) + Part(g, n - 1) /\ Part(g, n - 1) \in {0, 1}
      BY <1>4, <2>2, StageIs, Zenon
    <3>2. i = n => Part(g, n - 1) = 1
      BY <1>1 DEF Part
    <3> QED BY <1>1, <1>4, <2>1, <2>2, <3>1, <3>2, SMTT(20) DEF Crosses
  <2>3. CASE ~(n > 0 /\ n = Len(g))
    <3>1. S = 2 * n
      BY <1>1, <1>4, <2>1, <2>3, StageIs, SMTT(20)
    <3> QED BY <1>1, <1>4, <2>1, <2>3, <3>1 DEF Crosses
  <2> QED BY <2>2, <2>3, Zenon
<1> QED BY <1>2, <1>3, <1>4, Zenon DEF AtBarrier

\* A step that hands out and finishes no chunk keeps the invariant.
LEMMA ChunkFrame ==
    ASSUME PoolInv, ChunkInv,
           UNCHANGED <<cgraph, n_threads_cur, work, current_chunk>>,
           StageOf(0)' = StageOf(0),
           Spot(0)' = "chunk_barrier" => Spot(0) = "chunk_barrier",
           StageOf(0) = -1 => done'[0] = done[0],
           \A u \in Active :
              /\ Spot(u)' \in {"chunk_free", "chunk"} <=> Spot(u) \in {"chunk_free", "chunk"}
              /\ \A c \in Nat : Holds(u, c)' <=> Holds(u, c)
    PROVE  ChunkInv'
<1>1. Active' = Active /\ NChunks(n_threads_cur)' = NChunks(n_threads_cur)
  BY Zenon DEF Active, NChunks
<1>2. NChunks(n_threads_cur) \in Nat
  BY ChunkBound, Zenon DEF PoolInv, DataTypes
<1>3. \A i \in 1 .. Len(cgraph) : ChunksTaken(work[i]) => ChunksTaken(work[i])'
  <2> SUFFICES ASSUME NEW i \in 1 .. Len(cgraph), ChunksTaken(work[i])
               PROVE  ChunksTaken(work[i])'
    BY Zenon
  <2>1. \A c \in 0 .. NChunks(n_threads_cur) - 1 : c \in Nat
    BY <1>2, SMTT(20)
  <2>2. \A c \in 0 .. NChunks(n_threads_cur) - 1 :
          (\A t \in Active : ~Holds(t, c)') <=> (\A t \in Active : ~Holds(t, c))
    BY <2>1, Zenon
  <2> QED BY <1>1, <2>2, Zenon DEF ChunksTaken
<1>4. Spot(0)' = "chunk_barrier" => current_chunk' = n_threads_cur'
  BY Zenon DEF ChunkInv
<1>5. ASSUME NEW i \in 1 .. Len(cgraph), cgraph[i] = "chunked"
      PROVE  /\ StageOf(0)' # -1 /\ StageOf(0)' < 2 * i - 1 =>
                   \A c \in 0 .. N + WantedChunks : work'[i][c] = 0
             /\ StageOf(0)' > 2 * i - 1 \/ (StageOf(0)' = -1 /\ i <= done'[0]) =>
                   \A c \in 0 .. NChunks(n_threads_cur') - 1 : work'[i][c] = 1
             /\ StageOf(0)' = 2 * i - 1 => ChunksTaken(work[i])'
  BY <1>3, <1>5, Zenon DEF ChunkInv
<1> QED BY <1>4, <1>5, Zenon DEF ChunkInv

\* Between two graphs nothing is said of the chunks of the next one.
LEMMA ChunkRest ==
    ASSUME ChunkInv, Spot(0)' = "ended",
           \/ done'[0] = 0
           \/ StageOf(0) = -1 /\ UNCHANGED <<cgraph, n_threads_cur, work, done>>
    PROVE  ChunkInv'
<1>1. StageOf(0)' = -1
  BY Zenon DEF StageOf, Stage
<1>2. ASSUME NEW i \in 1 .. Len(cgraph'), cgraph'[i] = "chunked", i <= done'[0]
      PROVE  \A c \in 0 .. NChunks(n_threads_cur') - 1 : work'[i][c] = 1
  <2>1. UNCHANGED <<cgraph, n_threads_cur, work, done>> /\ StageOf(0) = -1
    BY <1>2
  <2> QED BY <1>2, <2>1, Zenon DEF ChunkInv
<1>3. ASSUME NEW i \in 1 .. Len(cgraph') PROVE ~(-1 > 2 * i - 1) /\ ~(-1 = 2 * i - 1)
  BY SMTT(20)
<1> QED BY <1>1, <1>2, <1>3, Zenon DEF ChunkInv

\* Nor does a step of a thread that neither comes to nor leaves a chunk.
LEMMA ChunkAside ==
    ASSUME PoolInv, ChunkInv, NEW t \in Threads, Within(t),
           UNCHANGED <<work, current_chunk>>,
           StageOf(0) = -1 => done'[0] = done[0],
           t \in Active =>
              \/ Spot(t)' = Spot(t) /\ run'[t].chunk = run[t].chunk
              \/ /\ Spot(t) \notin {"chunk_free", "chunk"}
                 /\ Spot(t)' \notin {"chunk_free", "chunk"}
                 /\ Spot(t)' = "chunk_barrier" => t # 0
    PROVE  ChunkInv'
<1>1. 0 \in Active /\ Active \subseteq Threads
  BY ActiveIs, Zenon DEF PoolInv, DataTypes, Active
<1>2. cgraph' = cgraph /\ n_threads_cur' = n_threads_cur /\ StageOf(0)' = StageOf(0)
  BY <1>1, Zenon DEF Within, Alone
<1>3. \A u \in Active \ {t} : Spot(u)' = Spot(u) /\ run'[u] = run[u]
  BY <1>1, Zenon DEF Within, Alone, Keeps
<1>4. Spot(0)' = "chunk_barrier" => Spot(0) = "chunk_barrier"
  BY <1>1, <1>3, Zenon
<1>5. \A u \in Active :
        /\ Spot(u)' \in {"chunk_free", "chunk"} <=> Spot(u) \in {"chunk_free", "chunk"}
        /\ \A c \in Nat : Holds(u, c)' <=> Holds(u, c)
  BY <1>3, Zenon DEF Holds
<1> QED BY <1>2, <1>4, <1>5, ChunkFrame, Zenon

\* A sound thread at a chunk is at a product.
LEMMA ChunkSound ==
    ASSUME NEW g \in Seq(Kinds), NEW a, NEW n \in Nat, NEW d, Sound("chunk", n, d, g, a)
    PROVE  /\ n + 1 \in 1 .. Len(g) /\ g[n + 1] = "chunked"
           /\ Stage("chunk", n, g) = 2 * (n + 1) - 1
<1>1. Len(g) \in Nat
  OBVIOUS
<1>2. n < Len(g) /\ g[n + 1] = "chunked"
  BY DEF Sound, Busy, Chunking
<1>3. Stage("chunk", n, g) = 2 * n + 1
  BY DEF Stage
<1> QED BY <1>1, <1>2, <1>3

\* A thread at a chunk is one of the threads of the graph, all of them being at the
\* chunks of the same product.
LEMMA AtChunk ==
    ASSUME PoolInv, ChunkInv, NEW t \in Threads, pc[t] = "chunk"
    PROVE  /\ t \in Active /\ 0 \in Active /\ Spot(t) = "chunk" /\ ~Due(t)
           /\ run[t].nth = n_threads_cur /\ run[t].node \in Nat
           /\ run[t].node + 1 \in 1 .. Len(cgraph)
           /\ StageOf(0) = 2 * (run[t].node + 1) - 1
           /\ Spot(0) # "chunk_barrier"
           /\ ChunksTaken(work[run[t].node + 1])
<1>1. ThreadInv(t) /\ 0 \in Active /\ 0 \in Threads
  BY MainIsThread, ActiveIs, Zenon DEF PoolInv, GraphInv, DataTypes, Active
<1>2. t \in Active /\ ~Due(t) /\ Spot(t) = "chunk"
  BY <1>1, Zenon DEF ThreadInv, Spot, InCompute
<1>3. /\ run[t].nth = n_threads_cur
      /\ Sound("chunk", run[t].node, done[t], cgraph, abort)
  BY <1>1, <1>2 DEF ThreadInv
<1>4. /\ cgraph \in Seq(Kinds) /\ run[t].node \in Nat /\ run[0].node \in Nat
      /\ Len(cgraph) \in Nat
  <2>1. run \in [Threads -> Runs] /\ cgraph \in Seq(Kinds)
    BY Zenon DEF PoolInv, DataTypes
  <2> QED BY <1>1, <2>1, SMTT(20) DEF Runs
<1>5. run[t].node + 1 \in 1 .. Len(cgraph) /\ cgraph[run[t].node + 1] = "chunked"
  BY <1>3, <1>4, ChunkSound, Zenon
<1>6. StageOf(0) = 2 * (run[t].node + 1) - 1
  <2>1. StageOf(t) = StageOf(0)
    BY <1>2, Zenon DEF PoolInv, GraphInv, InPhase
  <2>2. Stage("chunk", run[t].node, cgraph) = 2 * (run[t].node + 1) - 1
    BY <1>3, <1>4, ChunkSound, Zenon
  <2> QED BY <1>2, <2>1, <2>2, Zenon DEF StageOf
<1>7. Spot(0) # "chunk_barrier"
  <2>1. Spot(0) = "chunk_barrier" => StageOf(0) = 2 * run[0].node
    <3>1. Stage("chunk_barrier", run[0].node, cgraph) = 2 * run[0].node
      BY <1>4, StageIs
    <3> QED BY <3>1, Zenon DEF StageOf
  <2>2. \A a, b \in Nat : 2 * a # 2 * (b + 1) - 1
    OBVIOUS
  <2> QED BY <1>4, <1>6, <2>1, <2>2, Zenon
<1> QED BY <1>1, <1>2, <1>3, <1>4, <1>5, <1>6, <1>7, Zenon DEF ChunkInv

\* A thread that finishes a chunk was the only one to hold it, and the one it takes
\* from the counter is held by no other.
LEMMA ChunkStepTaken ==
    ASSUME PoolInv, ChunkInv, NEW t \in Threads, ChunkStep(t), Within(t),
           Spot(t)' = pc'[t]
    PROVE  ChunkInv'
<1>0. PICK i \in 1 .. Len(cgraph) : i = run[t].node + 1
  BY AtChunk DEF ChunkStep
<1> DEFINE e == run[t].chunk
           k == NChunks(n_threads_cur)
<1>1. /\ pc[t] = "chunk" /\ run[t].nth = n_threads_cur /\ e < k
      /\ t \in Active /\ 0 \in Active /\ Spot(t) = "chunk" /\ i \in 1 .. Len(cgraph)
      /\ StageOf(0) = 2 * i - 1 /\ Spot(0) # "chunk_barrier" /\ ChunksTaken(work[i])
  BY <1>0, AtChunk DEF ChunkStep
<1>2. /\ k \in Nat /\ k <= N + WantedChunks /\ e \in Nat /\ current_chunk \in Nat
      /\ n_threads_cur \in Nat /\ N + WantedChunks \in Nat
  <2>1. run \in [Threads -> Runs] /\ n_threads_cur \in 1 .. N /\ current_chunk \in Nat
    BY Zenon DEF PoolInv, DataTypes
  <2> QED BY <2>1, ChunkBound, SMTT(20) DEF Runs
<1>3. /\ work \in [1 .. Len(cgraph) -> [0 .. N + WantedChunks -> Nat]]
      /\ pc \in [Threads -> MainPlaces \cup WorkerPlaces] /\ run \in [Threads -> Runs]
  BY Zenon DEF PoolInv, DataTypes, PlaceTypes
<1>4. UNCHANGED <<cgraph, n_threads_cur, done>> /\ Active' = Active /\ StageOf(0)' = StageOf(0)
  BY <1>1, Zenon DEF Within, Alone, Active, ChunkStep
<1>5. /\ \A j \in 1 .. Len(cgraph) : j # i => work'[j] = work[j]
      /\ \A c \in 0 .. k - 1 : work'[i][c] = IF c = e THEN work[i][c] + 1 ELSE work[i][c]
  <2>1. work' = [work EXCEPT ![i][e] = @ + 1]
    BY <1>0, Zenon DEF ChunkStep
  <2>2. work[i] \in [0 .. N + WantedChunks -> Nat] /\ e \in 0 .. N + WantedChunks
    BY <1>1, <1>2, <1>3, SMTT(20)
  <2>3. work'[i] = [work[i] EXCEPT ![e] = work[i][e] + 1]
    BY <1>1, <1>3, <2>1, Zenon
  <2>4. \A c \in 0 .. k - 1 : c \in 0 .. N + WantedChunks
    BY <1>2, SMTT(20)
  <2> QED BY <1>3, <2>1, <2>2, <2>3, <2>4, Zenon
<1>6. \A u \in Active \ {t} : Spot(u)' = Spot(u) /\ \A c \in Nat : Holds(u, c)' <=> Holds(u, c)
  BY Zenon DEF Within, Alone, Keeps, Holds, Active
<1>7. \A c \in Nat : Holds(t, c) <=> c = e
  BY <1>1, Zenon DEF Holds
<1>8. \/ /\ n_threads_cur >= k /\ Spot(t)' = "after" /\ current_chunk' = current_chunk
         /\ \A c \in Nat : ~Holds(t, c)'
      \/ /\ Spot(t)' = "chunk" /\ current_chunk' = current_chunk + 1
         /\ \A c \in Nat : Holds(t, c)' <=> c = current_chunk
  <2>1. CASE n_threads_cur >= k
    <3>1. pc'[t] = "after" /\ current_chunk' = current_chunk
      BY <1>1, <1>2, <1>3, <2>1, SMTT(20) DEF ChunkStep, Go
    <3> QED BY <2>1, <3>1, Zenon DEF Holds
  <2>2. CASE ~(n_threads_cur >= k)
    <3>1. /\ pc'[t] = "chunk" /\ current_chunk' = current_chunk + 1
          /\ run'[t] = [run[t] EXCEPT !.chunk = current_chunk]
      BY <1>1, <1>3, <2>2, Zenon DEF ChunkStep, Go
    <3>2. run'[t].chunk = current_chunk
      BY <1>3, <3>1, Zenon DEF Runs
    <3> QED BY <3>1, <3>2, Zenon DEF Holds
  <2> QED BY <2>1, <2>2, Zenon
<1> HIDE DEF e, k
<1>9. /\ current_chunk >= n_threads_cur
      /\ \A u \in Active, c \in Nat : Holds(u, c) => c < current_chunk
      /\ \A u, v \in Active, c \in Nat : Holds(u, c) /\ Holds(v, c) => u = v
      /\ \A u \in Active : Spot(u) \in {"chunk_free", "chunk"} \/ current_chunk >= k
      /\ \A c \in 0 .. k - 1 :
            work[i][c] = IF c < current_chunk /\ \A u \in Active : ~Holds(u, c) THEN 1 ELSE 0
  BY <1>1, Zenon DEF ChunksTaken, k
<1>10. e < current_chunk
  BY <1>1, <1>2, <1>7, <1>9, Zenon
<1>a. current_chunk' \in Nat /\ current_chunk <= current_chunk'
  <2>1. current_chunk' = current_chunk \/ current_chunk' = current_chunk + 1
    BY <1>8, Zenon
  <2> QED BY <1>2, <2>1
<1>b. \A u \in Active, c \in Nat :
        Holds(u, c)' => \/ u # t /\ Holds(u, c)
                        \/ u = t /\ c = current_chunk /\ current_chunk' = current_chunk + 1
  BY <1>6, <1>8, Zenon
<1>11. /\ current_chunk' >= n_threads_cur
       /\ \A u \in Active, c \in Nat : Holds(u, c)' => c < current_chunk'
       /\ \A u \in Active : Spot(u)' \in {"chunk_free", "chunk"} \/ current_chunk' >= k
  <2>1. current_chunk >= n_threads_cur
    BY <1>9, Zenon
  <2>2. current_chunk' >= n_threads_cur
    BY <1>2, <1>a, <2>1
  <2>3. ASSUME NEW u \in Active, NEW c \in Nat, Holds(u, c)' PROVE c < current_chunk'
    <3>1. c < current_chunk \/ (c = current_chunk /\ current_chunk' = current_chunk + 1)
      BY <1>9, <1>b, <2>3, Zenon
    <3> QED BY <1>2, <1>a, <3>1
  <2>4. ASSUME NEW u \in Active
        PROVE  Spot(u)' \in {"chunk_free", "chunk"} \/ current_chunk' >= k
    <3>1. \/ Spot(u)' \in {"chunk_free", "chunk"}
          \/ current_chunk >= k \/ n_threads_cur >= k
      BY <1>6, <1>8, <1>9, Zenon
    <3>2. current_chunk >= k \/ n_threads_cur >= k => current_chunk' >= k
      BY <1>2, <1>a, <2>1
    <3> QED BY <3>1, <3>2
  <2> QED BY <2>2, <2>3, <2>4, Zenon
<1>12. \A u, v \in Active, c \in Nat : Holds(u, c)' /\ Holds(v, c)' => u = v
  <2>1. \A c \in Nat : c < current_chunk => c # current_chunk
    BY <1>2
  <2>2. \A u \in Active, c \in Nat : Holds(u, c) => c # current_chunk
    BY <1>9, <2>1, Zenon
  <2>3. ASSUME NEW u \in Active, NEW v \in Active, NEW c \in Nat, Holds(u, c)', Holds(v, c)'
        PROVE  u = v
    <3>1. (u # t /\ Holds(u, c)) \/ (u = t /\ c = current_chunk)
      BY <1>b, <2>3, Zenon
    <3>2. (v # t /\ Holds(v, c)) \/ (v = t /\ c = current_chunk)
      BY <1>b, <2>3, Zenon
    <3>3. Holds(u, c) /\ Holds(v, c) => u = v
      BY <1>9, Zenon
    <3> QED BY <2>2, <3>1, <3>2, <3>3, Zenon
  <2> QED BY <2>3, Zenon
<1>13. ASSUME NEW c \in 0 .. k - 1
       PROVE  work'[i][c] = IF c < current_chunk' /\ \A u \in Active : ~Holds(u, c)' THEN 1 ELSE 0
  <2>0. c \in Nat /\ c < k
    BY <1>2, SMTT(20)
  <2>1. CASE c = e
    <3>1. work[i][c] = 0
      BY <1>1, <1>7, <1>9, <2>0, <2>1, Zenon
    <3>2. c < current_chunk' /\ \A u \in Active : ~Holds(u, c)'
      <4>1. c < current_chunk' /\ c # current_chunk
        BY <1>2, <1>a, <1>10, <2>0, <2>1
      <4>2. Holds(t, c) /\ t \in Active
        BY <1>1, <1>7, <2>0, <2>1, Zenon
      <4> QED BY <1>9, <1>b, <2>0, <4>1, <4>2, Zenon
    <3> QED BY <1>5, <2>1, <3>1, <3>2, SMTT(20)
  <2>2. CASE c # e /\ c = current_chunk
    <3>1. work[i][c] = 0
      <4>1. ~(c < current_chunk)
        BY <1>2, <2>2
      <4> QED BY <1>9, <4>1, Zenon
    <3>2. c < current_chunk' => \E u \in Active : Holds(u, c)'
      <4>1. c < current_chunk' => current_chunk' # current_chunk
        BY <1>2, <2>2
      <4> QED BY <1>1, <1>8, <2>0, <2>2, <4>1, Zenon
    <3> QED BY <1>5, <2>2, <3>1, <3>2, Zenon
  <2>3. CASE c # e /\ c # current_chunk
    <3>1. c < current_chunk' <=> c < current_chunk
      BY <1>2, <1>8, <2>0, <2>3, SMTT(20)
    <3>2. \A u \in Active : Holds(u, c)' <=> Holds(u, c)
      BY <1>6, <1>7, <1>8, <2>0, <2>3, Zenon
    <3> QED BY <1>5, <1>9, <2>3, <3>1, <3>2, Zenon
  <2> QED BY <2>1, <2>2, <2>3, Zenon
<1>14. ChunksTaken(work[i])'
  BY <1>4, <1>11, <1>12, <1>13, Zenon DEF ChunksTaken, k
<1>15. Spot(0)' # "chunk_barrier"
  BY <1>1, <1>6, <1>8, Zenon
<1>16. ASSUME NEW j \in 1 .. Len(cgraph), cgraph[j] = "chunked"
       PROVE  /\ StageOf(0)' # -1 /\ StageOf(0)' < 2 * j - 1 =>
                   \A c \in 0 .. N + WantedChunks : work'[j][c] = 0
              /\ StageOf(0)' > 2 * j - 1 \/ (StageOf(0)' = -1 /\ j <= done'[0]) =>
                   \A c \in 0 .. NChunks(n_threads_cur') - 1 : work'[j][c] = 1
              /\ StageOf(0)' = 2 * j - 1 => ChunksTaken(work[j])'
  <2>1. CASE j = i
    <3>1. StageOf(0)' = 2 * i - 1
      BY <1>1, <1>4, Zenon
    <3>2. 2 * i - 1 # -1 /\ ~(2 * i - 1 < 2 * i - 1) /\ ~(2 * i - 1 > 2 * i - 1)
      OBVIOUS
    <3> QED BY <1>14, <2>1, <3>1, <3>2, Zenon
  <2>2. CASE j # i
    <3>1. work'[j] = work[j] /\ StageOf(0)' = StageOf(0)
      BY <1>4, <1>5, <2>2, Zenon
    <3>2. StageOf(0) # 2 * j - 1
      BY <1>1, <2>2, SMTT(20)
    <3> QED BY <1>4, <1>16, <3>1, <3>2, Zenon DEF ChunkInv
  <2> QED BY <2>1, <2>2, Zenon
<1> QED BY <1>4, <1>15, <1>16, Zenon DEF ChunkInv

\* A thread goes on to the next node only when every chunk has been handed out.
LEMMA ChunksOutTaken ==
    ASSUME PoolInv, ChunkInv, NEW t \in Threads, ChunksOut(t), Within(t),
           Spot(t)' = "after"
    PROVE  ChunkInv'
<1>0. pc[t] = "chunk" /\ run[t].chunk >= NChunks(run[t].nth)
  BY Zenon DEF ChunksOut, Go
<1>1. PICK i \in 1 .. Len(cgraph) : i = run[t].node + 1
  BY <1>0, AtChunk, Zenon
<1>2. /\ t \in Active /\ 0 \in Active /\ Spot(t) = "chunk" /\ run[t].nth = n_threads_cur
      /\ StageOf(0) = 2 * i - 1 /\ Spot(0) # "chunk_barrier" /\ ChunksTaken(work[i])
  BY <1>0, <1>1, AtChunk, Zenon
<1>3. /\ NChunks(n_threads_cur) \in Nat /\ run[t].chunk \in Nat /\ current_chunk \in Nat
  <2>1. run \in [Threads -> Runs] /\ n_threads_cur \in 1 .. N /\ current_chunk \in Nat
    BY Zenon DEF PoolInv, DataTypes
  <2> QED BY <2>1, ChunkBound, Zenon DEF Runs
<1>4. /\ UNCHANGED <<cgraph, n_threads_cur, current_chunk, work, done>>
      /\ Active' = Active /\ StageOf(0)' = StageOf(0)
  BY <1>2, Zenon DEF Within, Alone, Active, ChunksOut, graphVars, history
<1>5. \A u \in Active \ {t} : Spot(u)' = Spot(u) /\ \A c \in Nat : Holds(u, c)' <=> Holds(u, c)
  BY Zenon DEF Within, Alone, Keeps, Holds, Active
<1>6. \A c \in Nat : ~Holds(t, c)' /\ (Holds(t, c) <=> c = run[t].chunk)
  BY <1>2, Zenon DEF Holds
<1>a. run[t].chunk >= NChunks(n_threads_cur)
  BY <1>0, <1>2, Zenon
<1>7. current_chunk >= NChunks(n_threads_cur)
  <2>1. run[t].chunk < current_chunk
    <3>1. Holds(t, run[t].chunk)
      BY <1>3, <1>6, Zenon
    <3>2. \A u \in Active, c \in Nat : Holds(u, c) => c < current_chunk
      BY <1>2, Zenon DEF ChunksTaken
    <3> QED BY <1>2, <1>3, <3>1, <3>2, Zenon
  <2>2. \A a, b, c \in Nat : a >= b /\ a < c => c >= b
    OBVIOUS
  <2> QED BY <1>3, <1>a, <2>1, <2>2, Zenon
<1>8. \A c \in 0 .. NChunks(n_threads_cur) - 1 :
        (\A u \in Active : ~Holds(u, c)') <=> (\A u \in Active : ~Holds(u, c))
  <2>1. \A c \in 0 .. NChunks(n_threads_cur) - 1 : c \in Nat /\ c # run[t].chunk
    <3>1. \A a, b \in Nat : a >= b => \A c \in 0 .. b - 1 : c \in Nat /\ c # a
      OBVIOUS
    <3> QED BY <1>3, <1>a, <3>1, Zenon
  <2>2. \A c \in 0 .. NChunks(n_threads_cur) - 1 : ~Holds(t, c) /\ ~Holds(t, c)'
    BY <1>6, <2>1, Zenon
  <2> QED BY <1>5, <2>1, <2>2, Zenon
<1>9. ChunksTaken(work[i])'
  <2>1. /\ \A u \in Active, c \in Nat : Holds(u, c)' => c < current_chunk
        /\ \A u, v \in Active, c \in Nat : Holds(u, c)' /\ Holds(v, c)' => u = v
    <3>1. \A u \in Active, c \in Nat : Holds(u, c)' => Holds(u, c)
      BY <1>5, <1>6, Zenon
    <3>2. /\ \A u \in Active, c \in Nat : Holds(u, c) => c < current_chunk
          /\ \A u, v \in Active, c \in Nat : Holds(u, c) /\ Holds(v, c) => u = v
      BY <1>2, Zenon DEF ChunksTaken
    <3> QED BY <3>1, <3>2, Zenon
  <2>2. current_chunk >= n_threads_cur
    BY <1>2, Zenon DEF ChunksTaken
  <2>3. \A c \in 0 .. NChunks(n_threads_cur) - 1 :
          work[i][c] = IF c < current_chunk /\ \A u \in Active : ~Holds(u, c)' THEN 1 ELSE 0
    BY <1>2, <1>8, Zenon DEF ChunksTaken
  <2> QED BY <1>4, <1>7, <2>1, <2>2, <2>3, Zenon DEF ChunksTaken
<1>10. Spot(0)' # "chunk_barrier"
  BY <1>2, <1>5, Zenon
<1>11. ASSUME NEW j \in 1 .. Len(cgraph), cgraph[j] = "chunked"
       PROVE  /\ StageOf(0)' # -1 /\ StageOf(0)' < 2 * j - 1 =>
                   \A c \in 0 .. N + WantedChunks : work'[j][c] = 0
              /\ StageOf(0)' > 2 * j - 1 \/ (StageOf(0)' = -1 /\ j <= done'[0]) =>
                   \A c \in 0 .. NChunks(n_threads_cur') - 1 : work'[j][c] = 1
              /\ StageOf(0)' = 2 * j - 1 => ChunksTaken(work[j])'
  <2>1. StageOf(0)' = 2 * j - 1 => j = i
    BY <1>2, <1>4, SMTT(20)
  <2> QED BY <1>4, <1>9, <1>11, <2>1, Zenon DEF ChunkInv
<1> QED BY <1>4, <1>10, <1>11, Zenon DEF ChunkInv

\* Before the barrier inside a product thread 0 sets the counter behind the chunks
\* that the threads start with.
LEMMA ChunkSetTaken ==
    ASSUME PoolInv, ChunkInv, ChunkSet(0), Within(0), Spot(0) = "chunked"
    PROVE  ChunkInv'
<1>1. /\ 0 \in Active /\ 0 \in Threads /\ ThreadInv(0)
      /\ cgraph \in Seq(Kinds) /\ run[0].node \in Nat
  <2>1. run \in [Threads -> Runs] /\ cgraph \in Seq(Kinds)
    BY Zenon DEF PoolInv, DataTypes
  <2> QED BY <2>1, MainIsThread, ActiveIs, Zenon DEF PoolInv, DataTypes, GraphInv, Active, Runs
<1>2. run[0].nth = n_threads_cur /\ current_chunk' = n_threads_cur
  BY <1>1, Zenon DEF ThreadInv, ChunkSet
<1>3. UNCHANGED <<cgraph, n_threads_cur, work, done>> /\ StageOf(0)' = StageOf(0)
  BY <1>1, Zenon DEF Within, Alone, ChunkSet, history
<1>4. StageOf(0) = 2 * run[0].node
  BY <1>1, Zenon DEF StageOf, Stage
<1>5. \A i \in 1 .. Len(cgraph) : StageOf(0)' # 2 * i - 1
  BY <1>1, <1>3, <1>4, SMTT(20)
<1> QED BY <1>2, <1>3, <1>5, Zenon DEF ChunkInv

\* The barrier inside a product hands chunk t to thread t; the one behind it opens
\* when no thread has a chunk any more.
LEMMA OpenTaken ==
    ASSUME PoolInv, ChunkInv, Opens, Together(pc[0], run[0].node)
    PROVE  ChunkInv'
<1>1. PICK p \in AtBarrier, n \in Nat : p = pc[0] /\ n = run[0].node
  <2>1. run \in [Threads -> Runs] /\ 0 \in Threads
    BY MainIsThread, Zenon DEF PoolInv, DataTypes
  <2> QED BY <2>1, Zenon DEF Together, Runs
<1>2. /\ UNCHANGED <<run, cgraph, abort, current_chunk, work, done, n_threads_cur>>
      /\ Active' = Active
  BY Zenon DEF Opens, graphVars, history, Active
<1>3. \A u \in Active : Spot(u) = p /\ Spot(u)' = Beyond(p) /\ run[u].node = n
  BY <1>1, Zenon DEF Together
<1>4. /\ 0 \in Active /\ Active = {t \in Threads : t < n_threads_cur} /\ ThreadInv(0)
      /\ Threads = 0 .. N - 1 /\ n_threads_cur \in 1 .. N /\ N \in Nat
      /\ NChunks(n_threads_cur) \in Nat /\ NChunks(n_threads_cur) <= N + WantedChunks
      /\ current_chunk \in Nat /\ WantedChunks \in Nat
  <2>1. n_threads_cur \in 1 .. N /\ current_chunk \in Nat
    BY Zenon DEF PoolInv, DataTypes
  <2>2. 0 \in Active /\ Active = {t \in Threads : t < n_threads_cur}
    BY <2>1, ActiveIs, Zenon DEF Active
  <2>3. Threads = 0 .. N - 1 /\ N \in Nat /\ ThreadInv(0)
    BY PoolAssumption, MainIsThread, Zenon DEF PoolInv, GraphInv
  <2> QED BY <2>1, <2>2, <2>3, ChunkBound, Zenon
<1>5. Sound(p, n, done[0], cgraph, abort)
  BY <1>1, <1>3, <1>4, Zenon DEF ThreadInv
<1>6. /\ cgraph \in Seq(Kinds) /\ abort \in Int /\ done[0] \in Nat
  BY MainIsThread, SMTT(20) DEF PoolInv, DataTypes
<1>7. StageOf(0) = Stage(p, n, cgraph) /\ StageOf(0)' = Stage(Beyond(p), n, cgraph)
  BY <1>2, <1>3, <1>4, Zenon DEF StageOf
<1>8. Spot(0)' # "chunk_barrier"
  BY <1>3, <1>4, Zenon DEF Beyond, AtBarrier
<1>9. ASSUME NEW i \in 1 .. Len(cgraph), cgraph[i] = "chunked"
      PROVE  /\ StageOf(0)' # -1 /\ StageOf(0)' < 2 * i - 1 =>
                   \A c \in 0 .. N + WantedChunks : work'[i][c] = 0
             /\ StageOf(0)' > 2 * i - 1 \/ (StageOf(0)' = -1 /\ i <= done'[0]) =>
                   \A c \in 0 .. NChunks(n_threads_cur') - 1 : work'[i][c] = 1
             /\ StageOf(0)' = 2 * i - 1 => ChunksTaken(work[i])'
  <2>1. /\ StageOf(0) # -1
        /\ StageOf(0)' # -1 /\ StageOf(0)' < 2 * i - 1 => StageOf(0) < 2 * i - 1
        /\ StageOf(0)' > 2 * i - 1 \/ (StageOf(0)' = -1 /\ i <= done[0]) =>
             StageOf(0) > 2 * i - 1 \/ (StageOf(0) = 2 * i - 1 /\ p # "chunk_barrier")
        /\ StageOf(0)' = 2 * i - 1 => p = "chunk_barrier" /\ StageOf(0) < 2 * i - 1
    <3>1. PICK S, T : S = Stage(p, n, cgraph) /\ T = Stage(Beyond(p), n, cgraph)
      OBVIOUS
    <3>2. Crosses(p, done[0], i, S, T)
      BY <1>1, <1>5, <1>6, <1>9, <3>1, OpenStages, Zenon
    <3> QED BY <1>7, <3>1, <3>2, Zenon DEF Crosses
  <2>2. /\ StageOf(0) < 2 * i - 1 => \A c \in 0 .. N + WantedChunks : work[i][c] = 0
        /\ StageOf(0) > 2 * i - 1 =>
              \A c \in 0 .. NChunks(n_threads_cur) - 1 : work[i][c] = 1
        /\ StageOf(0) = 2 * i - 1 => ChunksTaken(work[i])
    BY <1>9, <2>1, Zenon DEF ChunkInv
  <2>3. ASSUME StageOf(0) = 2 * i - 1, p # "chunk_barrier"
        PROVE  \A c \in 0 .. NChunks(n_threads_cur) - 1 : work[i][c] = 1
    <3>1. \A u \in Active : Spot(u) \notin {"chunk_free", "chunk"}
      BY <1>3, Zenon DEF AtBarrier
    <3>2. current_chunk >= NChunks(n_threads_cur)
      BY <1>4, <2>2, <2>3, <3>1, Zenon DEF ChunksTaken
    <3>3. \A u \in Active, c \in Nat : ~Holds(u, c)
      BY <3>1, Zenon DEF Holds
    <3>4. \A c \in 0 .. NChunks(n_threads_cur) - 1 : c \in Nat /\ c < current_chunk
      BY <1>4, <3>2, SMTT(20)
    <3> QED BY <2>2, <2>3, <3>3, <3>4, Zenon DEF ChunksTaken
  <2>4. ASSUME StageOf(0)' = 2 * i - 1 PROVE ChunksTaken(work[i])'
    <3>1. p = "chunk_barrier" /\ \A c \in 0 .. N + WantedChunks : work[i][c] = 0
      BY <2>1, <2>2, <2>4, Zenon
    <3>2. current_chunk = n_threads_cur
      BY <1>3, <1>4, <3>1, Zenon DEF ChunkInv
    <3>3. \A u \in Active : Spot(u)' = "chunk_free"
      BY <1>3, <3>1, Zenon DEF Beyond
    <3>4. \A u \in Active, c \in Nat : Holds(u, c)' <=> c = u
      BY <3>3, Zenon DEF Holds
    <3>5. \A u \in Active : u \in Nat /\ u < n_threads_cur
      BY <1>4, SMTT(20)
    <3>6. \A c \in Nat : c < n_threads_cur => c \in Active
      BY <1>4, SMTT(20)
    <3>7. \A c \in 0 .. NChunks(n_threads_cur) - 1 :
            /\ c \in Nat /\ work[i][c] = 0
            /\ c < current_chunk => ~\A u \in Active : ~Holds(u, c)'
      BY <1>4, <3>1, <3>2, <3>4, <3>6, SMTT(20)
    <3>8. current_chunk' >= n_threads_cur'
      BY <1>2, <1>4, <3>2, SMTT(20)
    <3> QED BY <1>2, <3>2, <3>3, <3>4, <3>5, <3>7, <3>8, Zenon DEF ChunksTaken
  <2> QED BY <1>2, <2>1, <2>2, <2>3, <2>4, Zenon
<1> QED BY <1>2, <1>8, <1>9, Zenon DEF ChunkInv

\* What the caller does keeps the invariant.
LEMMA CallerTaken ==
    ASSUME PoolInv, ChunkInv, MainStep \/ Ask
    PROVE  ChunkInv'
<1> USE DEF mainKeeps, graphVars, history, barrierVars, counters, locals, poolVars
<1>1. /\ 0 \in Threads /\ pc \in [Threads -> MainPlaces \cup WorkerPlaces]
      /\ 0 \in Active /\ Active \subseteq Threads
  <2>1. n_threads_cur \in 1 .. N
    BY DEF PoolInv, DataTypes
  <2> QED BY <2>1, MainIsThread, ActiveIs, Zenon DEF PoolInv, PlaceTypes, Active
<1>2. ASSUME pc[0] \notin InCompute \cup {"kick_wake"},
             pc'[0] \notin InCompute \cup {"kick_wake"},
             \/ done'[0] = 0
             \/ UNCHANGED <<cgraph, n_threads_cur, work, done>>
      PROVE  ChunkInv'
  <2>1. Spot(0)' = "ended" /\ Spot(0) = "ended"
    BY <1>2 DEF Spot, Due
  <2>2. StageOf(0) = -1
    BY <2>1, Zenon DEF StageOf, Stage
  <2> QED BY <1>2, <2>1, <2>2, ChunkRest, Zenon
<1>3. CASE Return \/ Join \/ Free
  BY <1>1, <1>2, <1>3, Zenon DEF Return, Join, Free, Go, InCompute
<1>4. CASE Kick
  <2>1. done[0] = 0 /\ done' = done /\ pc[0] = "kick" /\ pc'[0] = "kick_graph"
    BY <1>1, <1>4, Zenon DEF Kick, Go, PoolInv, GraphInv, KickInv
  <2> QED BY <1>2, <2>1, Zenon DEF InCompute
<1>5. CASE KickGraph
  <2>1. /\ pc[0] = "kick_graph" /\ pc'[0] = "kick_wake"
        /\ UNCHANGED <<cgraph, work, current_chunk, n_threads_cur>>
    BY <1>1, <1>5 DEF KickGraph, Go
  <2>2. work = Nobody(cgraph)
    BY <2>1 DEF PoolInv, GraphInv, KickInv
  <2>3. Spot(0)' = "due" /\ StageOf(0)' = 0
    BY <2>1 DEF Spot, Due, StageOf, Stage
  <2>4. \A i \in 1 .. Len(cgraph) : \A c \in 0 .. N + WantedChunks : work'[i][c] = 0
    BY <2>1, <2>2 DEF Nobody
  <2>5. \A i \in 1 .. Len(cgraph') : ~(0 > 2 * i - 1) /\ 0 # 2 * i - 1
    OBVIOUS
  <2>6. 0 # -1 /\ "due" # "chunk_barrier"
    OBVIOUS
  <2> QED BY <2>1, <2>3, <2>4, <2>5, <2>6, Zenon DEF ChunkInv
<1>6. CASE KickWake
  <2>1. UNCHANGED <<cgraph, n_threads_cur, work, current_chunk, run, done>>
    BY <1>6, Zenon DEF KickWake
  <2>2. \A t \in Active : /\ StageOf(t)' = StageOf(t)
                          /\ Spot(t)' = Spot(t) \/ (Spot(t) = "due" /\ Spot(t)' = "start")
    BY <1>6, KickWakeKeeps, Zenon
  <2>3. \A u \in Active :
          /\ Spot(u)' \in {"chunk_free", "chunk"} <=> Spot(u) \in {"chunk_free", "chunk"}
          /\ \A c \in Nat : Holds(u, c)' <=> Holds(u, c)
    BY <2>1, <2>2, Zenon DEF Holds
  <2> QED BY <1>1, <2>1, <2>2, <2>3, ChunkFrame, Zenon
<1>7. ASSUME NEW n \in Scenes[scene].counts, NEW g \in Scenes[scene].graphs,
             GraphCompute(n, g)
      PROVE  ChunkInv'
  BY <1>1, <1>2, <1>7, Zenon DEF GraphCompute, Go, InCompute
<1>8. ASSUME NEW on \in BOOLEAN, SetPause(on) PROVE ChunkInv'
  <2>1. pc[0] = "idle" /\ (pc' = pc \/ pc' = Broadcast(pc))
    BY <1>8, Zenon DEF SetPause
  <2>2. pc'[0] = "idle"
    BY <1>1, <2>1, BroadcastMoves, Zenon
  <2> QED BY <1>2, <1>8, <2>1, <2>2, Zenon DEF SetPause, InCompute
<1>9. CASE FreeWake
  <2> DEFINE p == [pc EXCEPT ![0] = "join"]
  <2>1. p \in [Threads -> MainPlaces \cup WorkerPlaces] /\ p[0] = "join"
    BY <1>1, Zenon DEF MainPlaces
  <2>2. pc[0] = "free" /\ pc' = Broadcast(p)
    BY <1>9, Zenon DEF FreeWake
  <2> HIDE DEF p
  <2>3. pc'[0] = "join"
    BY <1>1, <2>1, <2>2, BroadcastMoves, Zenon
  <2> QED BY <1>2, <1>9, <2>2, <2>3, Zenon DEF FreeWake, InCompute
<1> QED BY <1>3, <1>4, <1>5, <1>6, <1>7, <1>8, <1>9, Zenon DEF MainStep, Ask

\* What a thread does for a graph keeps the invariant.
LEMMA ComputeTaken ==
    ASSUME PoolInv, ChunkInv, DataTypes', NEW t \in Threads, ComputeStep(t)
    PROVE  ChunkInv'
<1>1. /\ pc \in [Threads -> MainPlaces \cup WorkerPlaces] /\ run \in [Threads -> Runs]
      /\ ThreadInv(t) /\ 0 \in Active /\ 0 \in Threads
  <2>1. n_threads_cur \in 1 .. N
    BY DEF PoolInv, DataTypes
  <2> QED BY <2>1, MainIsThread, ActiveIs, Zenon
             DEF PoolInv, PlaceTypes, DataTypes, GraphInv, Active
<1>2. ASSUME Alone(t), UNCHANGED last_graph, pc[t] \in InCompute \ {"final"},
             pc'[t] \in {"chunk", "after"}
      PROVE  Spot(t)' = pc'[t]
  <2>1. ~Due(t)
    BY <1>1, <1>2, Zenon DEF ThreadInv
  <2>2. ~Due(t)'
    BY <1>2, <2>1, Zenon DEF Due, Alone
  <2> QED BY <1>2, <2>2, Zenon DEF Spot, InCompute
<1>3. CASE Start(t) \/ Loop(t) \/ Plain(t) \/ After(t) \/ NodeBarrier(t)
  <2>1. Within(t)
    BY <1>3, ComputeKeeps, Zenon
  <2>2. UNCHANGED <<work, current_chunk>>
    BY <1>3, Zenon DEF Start, Loop, Plain, After, NodeBarrier, graphVars, history
  <2>3. \A r \in Runs : r.node < Len(r.graph) => r.graph[r.node + 1] \in Kinds
    BY NodeKind
  <2>4. /\ pc[t] \notin {"chunk", "chunk_barrier"}
        /\ pc'[t] \notin {"chunk", "chunk_barrier"}
    BY <1>1, <1>3, <2>3, Zenon DEF Start, Loop, Plain, After, NodeBarrier, Go, Kinds
  <2>5. /\ Spot(t) \notin {"chunk_free", "chunk", "chunk_barrier"}
        /\ Spot(t)' \notin {"chunk_free", "chunk", "chunk_barrier"}
    BY <2>4, Zenon DEF Spot, InCompute
  <2>6. StageOf(0) = -1 => done'[0] = done[0]
    <3>1. CASE t # 0
      BY <1>1, <2>1, <3>1, Zenon DEF Within, Alone
    <3>2. CASE ~After(t)
      BY <1>3, <3>2, Zenon DEF Start, Loop, Plain, NodeBarrier, history
    <3>3. CASE t = 0 /\ After(t)
      <4>1. pc[0] = "after" /\ Spot(0) = "after"
        BY <3>3, Zenon DEF After, Go, Spot, Due, InCompute
      <4>2. cgraph \in Seq(Kinds) /\ run[0].node \in Nat
        BY <1>1, Zenon DEF PoolInv, DataTypes, Runs
      <4>3. StageOf(0) # -1
        BY <4>1, <4>2 DEF StageOf, Stage, Part
      <4> QED BY <4>3
    <3> QED BY <3>1, <3>2, <3>3, Zenon
  <2> QED BY <2>1, <2>2, <2>5, <2>6, ChunkAside, Zenon
<1>4. CASE ChunkSet(t)
  <2>1. Within(t)
    BY <1>4, ComputeKeeps, Zenon
  <2>2. /\ pc[t] = "chunked" /\ pc'[t] = "chunk_barrier" /\ bpc'[t] = "call"
        /\ UNCHANGED <<work, done>>
    BY <1>1, <1>4, Zenon DEF ChunkSet, Go, Call, At, history, PoolInv, IInv, BarrierTypeOK
  <2>3. Spot(t) \in {"due", "chunked"} /\ Spot(t)' \in {"due", "chunk_barrier"}
    BY <2>2, Zenon DEF Spot, InCompute, Through
  <2>4. CASE t = 0
    <3>1. Spot(0) = "chunked"
      BY <2>2, <2>3, <2>4, Zenon DEF Spot, Due
    <3> QED BY <1>4, <2>1, <2>4, <3>1, ChunkSetTaken, Zenon
  <2>5. CASE t # 0
    <3>1. current_chunk' = current_chunk
      BY <1>4, <2>5 DEF ChunkSet
    <3> QED BY <2>1, <2>2, <2>3, <2>5, <3>1, ChunkAside, Zenon
  <2> QED BY <2>4, <2>5, Zenon
<1>5. CASE ChunkFirst(t)
  <2>1. Within(t) /\ Alone(t) /\ UNCHANGED last_graph
    BY <1>5, ComputeKeeps, ComputeAlone
  <2>2. /\ pc[t] = "chunk_barrier" /\ pc'[t] = "chunk" /\ bpc[t] = "out"
        /\ UNCHANGED <<work, current_chunk, done>>
        /\ run'[t] = [run[t] EXCEPT !.chunk = t]
    BY <1>1, <1>5 DEF ChunkFirst, Go, graphVars, history
  <2>3. run'[t].chunk = t
    BY <1>1, <2>2 DEF Runs
  <2>4. Spot(t) = "chunk_free" /\ Spot(t)' = "chunk"
    <3>1. ~Due(t)
      BY <1>1, <2>2, Zenon DEF ThreadInv, InCompute
    <3> QED BY <1>2, <2>1, <2>2, <3>1, Zenon DEF Spot, Through, InCompute
  <2>5. \A u \in Active : u # t => Spot(u)' = Spot(u) /\ run'[u] = run[u]
    BY <2>1, Zenon DEF Within, Alone, Keeps, Active
  <2>6. \A u \in Active :
          /\ Spot(u)' \in {"chunk_free", "chunk"} <=> Spot(u) \in {"chunk_free", "chunk"}
          /\ \A c \in Nat : Holds(u, c)' <=> Holds(u, c)
    BY <2>3, <2>4, <2>5, Zenon DEF Holds
  <2>7. /\ cgraph' = cgraph /\ n_threads_cur' = n_threads_cur
        /\ StageOf(0)' = StageOf(0)
        /\ Spot(0)' = "chunk_barrier" => Spot(0) = "chunk_barrier"
    BY <1>1, <2>1, <2>4, <2>5, Zenon DEF Within, Alone
  <2> QED BY <2>2, <2>6, <2>7, ChunkFrame, Zenon
<1>6. CASE ChunkStep(t)
  <2>1. Within(t) /\ Alone(t) /\ UNCHANGED last_graph
    BY <1>6, ComputeKeeps, ComputeAlone, Zenon
  <2>2. pc[t] = "chunk" /\ pc'[t] \in {"chunk", "after"}
    BY <1>1, <1>6, Zenon DEF ChunkStep, Go
  <2> QED BY <1>2, <1>6, <2>1, <2>2, ChunkStepTaken, Zenon DEF InCompute
<1>7. CASE ChunksOut(t)
  <2>1. Within(t) /\ Alone(t) /\ UNCHANGED last_graph
    BY <1>7, ComputeKeeps, ComputeAlone
  <2>2. pc[t] = "chunk" /\ pc'[t] = "after"
    BY <1>1, <1>7, Zenon DEF ChunksOut, Go
  <2> QED BY <1>2, <1>7, <2>1, <2>2, ChunksOutTaken, Zenon DEF InCompute
<1>8. CASE Final(t)
  <2>1. Within(t)
    BY <1>8, FinalKeeps, Zenon
  <2>2. /\ pc[t] = "final" /\ pc'[t] \in {"return", "pause"}
        /\ UNCHANGED <<work, current_chunk, done>>
    BY <1>1, <1>8, Zenon DEF Final, Go, graphVars, history
  <2>3. /\ Spot(t) \notin {"chunk_free", "chunk", "chunk_barrier"}
        /\ Spot(t)' \notin {"chunk_free", "chunk", "chunk_barrier"}
    BY <2>2, Zenon DEF Spot
  <2> QED BY <2>1, <2>2, <2>3, ChunkAside, Zenon
<1>9. CASE BarrierStep(t)
  <2>1. UNCHANGED <<work, current_chunk, done, run>>
    BY <1>9 DEF BarrierStep, graphVars, history
  <2>2. \/ LoadThreads(t) \/ LoadPassed(t) \/ Enter(t) \/ Reset(t) \/ Release(t)
        \/ Spin(t)
    BY <1>9, Zenon DEF BarrierStep, Inside
  <2>3. CASE Release(t) \/ (LoadThreads(t) /\ n_threads_cur = 1)
    BY <1>9, <2>3, OpeningKeeps, OpenTaken, Zenon
  <2>4. CASE \/ LoadThreads(t) /\ n_threads_cur # 1
             \/ LoadPassed(t) \/ Enter(t) \/ Reset(t) \/ Spin(t)
    <3>1. Within(t) /\ (t \in Active => Spot(t)' = Spot(t))
      BY <1>9, <2>4, InsideKeeps, Zenon
    <3> QED BY <2>1, <3>1, ChunkAside, Zenon
  <2> QED BY <2>2, <2>3, <2>4, Zenon
<1> QED BY <1>3, <1>4, <1>5, <1>6, <1>7, <1>8, <1>9, Zenon DEF ComputeStep

\* Every step keeps the invariant of the chunks.
LEMMA ChunkInvStep ==
    ASSUME PoolInv, ChunkInv, [PoolNext]_vars
    PROVE  ChunkInv'
<1>1. CASE UNCHANGED vars
  <2>1. UNCHANGED <<cgraph, n_threads_cur, work, current_chunk, done, run, pc, last_graph,
                    n_graph, bpc, n_passed, n_barrier_passed>>
    BY <1>1, Zenon DEF vars, poolVars, graphVars, history, barrierVars, counters, locals
  <2>2. \A t \in Threads : Spot(t)' = Spot(t)
    BY <2>1 DEF Spot, Due, Through
  <2>3. 0 \in Threads /\ Active \subseteq Threads
    BY MainIsThread DEF Active
  <2>4. StageOf(0)' = StageOf(0)
    BY <2>1, <2>2, <2>3, Zenon DEF StageOf
  <2>5. \A u \in Active :
          /\ Spot(u)' \in {"chunk_free", "chunk"} <=> Spot(u) \in {"chunk_free", "chunk"}
          /\ \A c \in Nat : Holds(u, c)' <=> Holds(u, c)
    BY <2>1, <2>2, <2>3 DEF Holds
  <2> QED BY <2>1, <2>2, <2>3, <2>4, <2>5, ChunkFrame, Zenon
<1>2. CASE MainStep \/ Ask
  BY <1>2, CallerTaken, Zenon
<1>3. ASSUME NEW t \in Workers, WorkerStep(t) \/ SpuriousWake(t) PROVE ChunkInv'
  <2>1. Within(t) /\ t \in Threads
    BY <1>3, WorkerKeeps DEF Workers
  <2>2. UNCHANGED workerKeeps
    BY <1>3 DEF WorkerStep, SpuriousWake, PauseCheck, PauseLock, PauseWoken, StopCheck,
           PollActive, Poll, PollReady, SleepCheck
  <2>3. UNCHANGED <<work, current_chunk, done>>
    BY <2>2 DEF workerKeeps, graphVars, history
  <2>4. /\ pc[t] \notin {"chunk", "chunk_barrier"}
        /\ pc'[t] \notin {"chunk", "chunk_barrier"}
    BY <1>3, <2>1, ZenonT(30)
       DEF WorkerStep, SpuriousWake, PauseCheck, PauseLock, PauseWoken, StopCheck,
           PollActive, Poll, PollReady, SleepCheck, Go, PoolInv, PlaceTypes
  <2>5. /\ Spot(t) \notin {"chunk_free", "chunk", "chunk_barrier"}
        /\ Spot(t)' \notin {"chunk_free", "chunk", "chunk_barrier"}
    BY <2>4 DEF Spot, InCompute
  <2> QED BY <2>1, <2>3, <2>5, ChunkAside, Zenon
<1>4. ASSUME NEW t \in Threads, ComputeStep(t) PROVE ChunkInv'
  <2>1. DataTypes'
    BY <1>4, DataStep DEF PoolInv, PoolNext
  <2> QED BY <1>4, <2>1, ComputeTaken
<1>5. Terminated => UNCHANGED vars
  BY DEF Terminated
<1> QED BY <1>1, <1>2, <1>3, <1>4, <1>5, Zenon DEF PoolNext

\* ggml_graph_compute returns only with the graph computed: every thread did the
\* same nodes, all of them unless the callback aborted, and each chunk of each
\* matrix product was computed by exactly one thread, for every number of threads,
\* of chunks and of nodes, when no call asks for more threads than the one before.
THEOREM ComputedOnReturnHolds == NoGrow => (PoolSpec => []ComputedOnReturn)
<1> SUFFICES ASSUME NoGrow PROVE PoolSpec => []ComputedOnReturn
  OBVIOUS
<1>1. PoolInit => PoolInv /\ ChunkInv
  <2> SUFFICES ASSUME PoolInit PROVE ChunkInv
    BY PoolInitInv
  <2>1. pc[0] = "idle" /\ cgraph = <<>>
    BY MainIsThread DEF PoolInit
  <2>2. Spot(0) = "ended" /\ Len(cgraph) = 0
    BY <2>1 DEF Spot, Due, InCompute
  <2> QED BY <2>2 DEF ChunkInv
<1>2. PoolInv /\ ChunkInv /\ [PoolNext]_vars => PoolInv' /\ ChunkInv'
  BY PoolStep, ChunkInvStep, Zenon
<1>3. PoolInv /\ ChunkInv => ComputedOnReturn
  <2> SUFFICES ASSUME PoolInv, ChunkInv, pc[0] = "return"
               PROVE  /\ \A u \in Active : done[u] = done[0]
                      /\ ec = "success" => done[0] = Len(cgraph)
                      /\ \A i \in 1 .. done[0] : cgraph[i] = "chunked" =>
                            \A c \in 0 .. NChunks(n_threads_cur) - 1 : work[i][c] = 1
    BY DEF ComputedOnReturn
  <2>1. Spot(0) = "ended" /\ StageOf(0) = -1
    BY DEF Spot, Due, InCompute, StageOf, Stage
  <2>2. EndInv
    BY DEF PoolInv, GraphInv
  <2>3. done[0] \in Nat /\ Len(cgraph) \in Nat /\ done[0] <= Len(cgraph)
    <3>1. cgraph \in Seq(Kinds) /\ done[0] \in Nat
      BY MainIsThread, Zenon DEF PoolInv, DataTypes
    <3> QED BY <2>2, <3>1, SMTT(20) DEF EndInv
  <2>4. ASSUME NEW i \in 1 .. done[0], cgraph[i] = "chunked"
        PROVE  \A c \in 0 .. NChunks(n_threads_cur) - 1 : work[i][c] = 1
    <3>1. i \in 1 .. Len(cgraph) /\ i <= done[0]
      BY <2>3
    <3> QED BY <2>1, <2>4, <3>1 DEF ChunkInv
  <2> QED BY <2>1, <2>2, <2>4, Zenon DEF EndInv
<1> QED BY <1>1, <1>2, <1>3, PTL DEF PoolSpec
=============================================================================
