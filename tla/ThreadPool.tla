----------------------------- MODULE ThreadPool -----------------------------
(***************************************************************************)
(* The thread pool of ggml-cpu.c, the build without OpenMP.  Thread 0 is   *)
(* the caller of ggml_graph_compute: it kicks the graph off and then works *)
(* on it like the others.  The secondary threads poll for a graph, sleep   *)
(* on the condition variable, pause, and end.  The threads meet in         *)
(* ggml_barrier (module Barrier) after every node of the graph, and once   *)
(* inside a matrix multiplication, whose chunks they take from a shared    *)
(* counter.                                                                *)
(*                                                                         *)
(* A step is an access to shared state that another thread can see in      *)
(* between.  What a thread does while it holds the mutex is one step where *)
(* all writers of what it reads hold the mutex too.  A worker whose        *)
(* "pending" is set is at "start".  A graph is the sequence of its nodes,  *)
(* a node is "plain" (each thread its own rows) or "chunked" (mul_mat).    *)
(***************************************************************************)
EXTENDS Barrier, Sequences

CONSTANTS
    Scenes,         \* what the caller does: [name -> [counts, graphs, calls, grow]]
    WantedChunks,   \* nchunk0 * nchunk1 before it is compared with the threads
    ChunksPerThread \* the 4 of that comparison

N == Cardinality(Threads)       \* n_threads_max

ASSUME PoolAssumption ==
    /\ Threads = 0 .. N - 1
    /\ WantedChunks \in Nat /\ ChunksPerThread \in Nat \ {0}
    /\ \A c \in DOMAIN Scenes : /\ Scenes[c].counts \subseteq Nat \ {0}
                                /\ Scenes[c].graphs \subseteq Seq({"plain", "chunked"})

VARIABLES
    scene,
    pause, stop, n_graph, mutex,        \* the pool; mutex: held by thread 0
    cgraph, abort, ec, current_chunk,   \* the graph being computed
    want,                               \* kickoff's argument n_threads
    pc, last_graph, seen, run,          \* of each thread
    calls,                              \* calls of the API so far
    done, work      \* history: nodes each thread finished, times each chunk was

poolVars  == <<pause, stop, n_graph, mutex>>
graphVars == <<cgraph, abort, ec, current_chunk>>
history   == <<done, work>>
vars == <<scene, poolVars, graphVars, want, pc, last_graph, seen, run, calls,
          history, barrierVars>>

Workers == Threads \ {0}

Idle == [graph |-> <<>>, nth |-> 0, node |-> 0, chunk |-> 0]

NChunks(nth) == IF WantedChunks < nth * ChunksPerThread THEN nth ELSE WantedChunks

Nobody(g) == [i \in 1 .. Len(g) |-> [c \in 0 .. N + WantedChunks |-> 0]]

Go(t, from, to) == pc[t] = from /\ pc' = [pc EXCEPT ![t] = to]

\* cond_broadcast: the sleepers go on as soon as they have the mutex again.
Broadcast(p) == [t \in Threads |-> CASE p[t] = "sleep"      -> "lock"
                                     [] p[t] = "pause_wait" -> "pause_woken"
                                     [] OTHER               -> p[t]]

\* ggml_threadpool_new_impl; the workers have just been created.
PoolInit ==
    /\ scene \in DOMAIN Scenes
    /\ pause \in BOOLEAN
    /\ stop = FALSE /\ n_graph = 0 /\ mutex = FALSE
    /\ cgraph = <<>> /\ abort = -1 /\ ec = "success" /\ current_chunk = 0
    /\ want = N
    /\ pc = [t \in Threads |-> IF t = 0 THEN "idle" ELSE "pause"]
    /\ last_graph = [t \in Threads |-> 0]
    /\ seen = [t \in Threads |-> 0]
    /\ run = [t \in Threads |-> Idle]
    /\ calls = 0
    /\ done = [t \in Threads |-> 0]
    /\ work = Nobody(<<>>)
    /\ BarrierInit(N)

-----------------------------------------------------------------------------
(* ggml_graph_compute_secondary_thread *)

workerKeeps == <<scene, poolVars, graphVars, want, run, calls, history, barrierVars>>

PauseCheck(t) ==
    /\ Go(t, "pause", IF pause THEN "pause_lock" ELSE "stop")
    /\ UNCHANGED <<last_graph, seen, workerKeeps>>

PauseLock(t) ==
    /\ ~mutex
    /\ Go(t, "pause_lock", IF pause THEN "pause_wait" ELSE "pause")
    /\ UNCHANGED <<last_graph, seen, workerKeeps>>

PauseWoken(t) ==
    /\ ~mutex
    /\ Go(t, "pause_woken", "pause")
    /\ UNCHANGED <<last_graph, seen, workerKeeps>>

StopCheck(t) ==
    /\ Go(t, "stop", IF stop THEN "exit" ELSE "active")
    /\ UNCHANGED <<last_graph, seen, workerKeeps>>

\* ggml_graph_compute_poll_for_work: a thread the last graph did not use goes
\* to sleep at once.
PollActive(t) ==
    /\ Go(t, "active", IF t < n_threads_cur THEN "poll" ELSE "lock")
    /\ UNCHANGED <<last_graph, seen, workerKeeps>>

\* ggml_graph_compute_thread_ready without the mutex: the graph counter is read
\* first, the number of threads in a later step.  Polling ends at some round.
Poll(t) ==
    /\ \/ /\ stop \/ pause \/ n_graph = last_graph[t]
          /\ Go(t, "poll", "lock")
          /\ UNCHANGED seen
       \/ /\ ~stop /\ ~pause /\ n_graph # last_graph[t]
          /\ Go(t, "poll", "poll_active")
          /\ seen' = [seen EXCEPT ![t] = n_graph]
    /\ UNCHANGED <<last_graph, workerKeeps>>

\* Mutant: the graph is not noted as seen.
PollReadyForgets(t) ==
    /\ \E on \in {"poll", "lock"} :
            Go(t, "poll_active", IF t < n_threads_cur THEN "start" ELSE on)
    /\ seen' = [seen EXCEPT ![t] = 0]
    /\ UNCHANGED <<last_graph, workerKeeps>>

PollReady(t) ==
    /\ \E on \in {"poll", "lock"} :
            Go(t, "poll_active", IF t < n_threads_cur THEN "start" ELSE on)
    /\ last_graph' = [last_graph EXCEPT ![t] = seen[t]]
    /\ seen' = [seen EXCEPT ![t] = 0]
    /\ UNCHANGED workerKeeps

\* ggml_graph_compute_check_for_work, the part under the mutex.
SleepCheck(t) ==
    LET new == ~stop /\ ~pause /\ n_graph # last_graph[t]
    IN  /\ ~mutex
        /\ Go(t, "lock", CASE stop \/ pause              -> "pause"
                           [] new /\ t < n_threads_cur   -> "start"
                           [] OTHER                      -> "sleep")
        /\ last_graph' = [last_graph EXCEPT ![t] = IF new THEN n_graph ELSE @]
        /\ UNCHANGED <<seen, workerKeeps>>

\* A wait on a condition variable may end without a signal.
SpuriousWake(t) ==
    /\ Go(t, "sleep", "lock") \/ Go(t, "pause_wait", "pause_woken")
    /\ UNCHANGED <<last_graph, seen, workerKeeps>>

-----------------------------------------------------------------------------
(* ggml_graph_compute_thread, run by thread 0 and by the active workers *)

computeKeeps == <<scene, poolVars, want, last_graph, seen, calls>>

Start(t) ==
    /\ Go(t, "start", "loop")
    /\ run' = [run EXCEPT ![t] = [Idle EXCEPT !.graph = cgraph, !.nth = n_threads_cur]]
    /\ UNCHANGED <<graphVars, history, barrierVars, computeKeeps>>

\* The head of the loop over the nodes; behind the loop is the last barrier.
Loop(t) ==
    LET r == run[t]
    IN  /\ \/ /\ r.node < Len(r.graph) /\ abort # r.node
              /\ Go(t, "loop", r.graph[r.node + 1])
              /\ UNCHANGED barrierVars
           \/ /\ ~(r.node < Len(r.graph) /\ abort # r.node)
              /\ Go(t, "loop", "final")
              /\ Call(t)
        /\ UNCHANGED <<run, graphVars, history, computeKeeps>>

\* A node every thread computes its own rows of.
Plain(t) ==
    /\ Go(t, "plain", "after")
    /\ UNCHANGED <<run, graphVars, history, barrierVars, computeKeeps>>

\* Mutant: the counter starts at the first chunk.
ChunkSetZero(t) ==
    /\ Go(t, "chunked", "chunk_barrier")
    /\ current_chunk' = IF t = 0 THEN 0 ELSE current_chunk
    /\ Call(t)
    /\ UNCHANGED <<run, cgraph, abort, ec, history, computeKeeps>>

\* mul_mat: thread 0 sets the counter behind the chunks the threads start with.
ChunkSet(t) ==
    /\ Go(t, "chunked", "chunk_barrier")
    /\ current_chunk' = IF t = 0 THEN run[t].nth ELSE current_chunk
    /\ Call(t)
    /\ UNCHANGED <<run, cgraph, abort, ec, history, computeKeeps>>

ChunkFirst(t) ==
    /\ bpc[t] = "out"
    /\ Go(t, "chunk_barrier", "chunk")
    /\ run' = [run EXCEPT ![t].chunk = t]
    /\ UNCHANGED <<graphVars, history, barrierVars, computeKeeps>>

\* One chunk, and the next one from the counter unless each thread has just one.
ChunkStep(t) ==
    LET r == run[t]
    IN  /\ pc[t] = "chunk" /\ r.chunk < NChunks(r.nth)
        /\ work' = [work EXCEPT ![r.node + 1][r.chunk] = @ + 1]
        /\ \/ /\ r.nth >= NChunks(r.nth)
              /\ Go(t, "chunk", "after")
              /\ UNCHANGED <<run, current_chunk>>
           \/ /\ r.nth < NChunks(r.nth)
              /\ Go(t, "chunk", "chunk")
              /\ run' = [run EXCEPT ![t].chunk = current_chunk]
              /\ current_chunk' = current_chunk + 1
        /\ UNCHANGED <<cgraph, abort, ec, done, barrierVars, computeKeeps>>

ChunksOut(t) ==
    /\ run[t].chunk >= NChunks(run[t].nth)
    /\ Go(t, "chunk", "after")
    /\ UNCHANGED <<run, graphVars, history, barrierVars, computeKeeps>>

\* Mutant: no barrier between the nodes.
AfterWithoutBarrier(t) ==
    /\ \/ UNCHANGED <<abort, ec>>
       \/ t = 0 /\ abort' = run[t].node + 1 /\ ec' = "aborted"
    /\ done' = [done EXCEPT ![t] = @ + 1]
    /\ Go(t, "after", "loop")
    /\ run' = [run EXCEPT ![t].node = @ + 1]
    /\ UNCHANGED <<cgraph, current_chunk, work, barrierVars, computeKeeps>>

\* Behind a node: thread 0 asks the abort callback, and all meet unless the
\* node was the last one.
After(t) ==
    LET r == run[t]
    IN  /\ \/ UNCHANGED <<abort, ec>>
           \/ t = 0 /\ abort' = r.node + 1 /\ ec' = "aborted"
        /\ done' = [done EXCEPT ![t] = @ + 1]
        /\ \/ /\ r.node + 1 < Len(r.graph)
              /\ Go(t, "after", "node_barrier")
              /\ Call(t)
              /\ UNCHANGED run
           \/ /\ r.node + 1 >= Len(r.graph)
              /\ Go(t, "after", "loop")
              /\ run' = [run EXCEPT ![t].node = @ + 1]
              /\ UNCHANGED barrierVars
        /\ UNCHANGED <<cgraph, current_chunk, work, computeKeeps>>

NodeBarrier(t) ==
    /\ bpc[t] = "out"
    /\ Go(t, "node_barrier", "loop")
    /\ run' = [run EXCEPT ![t].node = @ + 1]
    /\ UNCHANGED <<graphVars, history, barrierVars, computeKeeps>>

Final(t) ==
    /\ bpc[t] = "out"
    /\ Go(t, "final", IF t = 0 THEN "return" ELSE "pause")
    /\ run' = [run EXCEPT ![t] = Idle]
    /\ UNCHANGED <<graphVars, history, barrierVars, computeKeeps>>

BarrierStep(t) ==
    /\ Inside(t)
    /\ UNCHANGED <<pc, run, graphVars, history, computeKeeps>>

-----------------------------------------------------------------------------
(* Thread 0, the caller *)

mainKeeps == <<scene, last_graph, seen, run>>
Calls == Scenes[scene].calls

\* ggml_graph_compute up to the kickoff.  Scenes without "grow" never ask for
\* more threads than the pool used last.
GraphCompute(n, g) ==
    LET m == IF n > N THEN N ELSE n
    IN  /\ calls < Calls
        /\ Scenes[scene].grow \/ m <= n_threads_cur
        /\ Go(0, "idle", "kick")
        /\ cgraph' = g /\ current_chunk' = 0 /\ abort' = -1 /\ ec' = "success"
        /\ want' = m
        /\ calls' = calls + 1
        /\ done' = [t \in Threads |-> 0] /\ work' = Nobody(g)
        /\ UNCHANGED <<poolVars, barrierVars, mainKeeps>>

\* ggml_graph_compute_kickoff, from lock to unlock
Kick ==
    /\ ~mutex
    /\ Go(0, "kick", "kick_graph")
    /\ mutex' = TRUE
    /\ n_threads_cur' = want
    /\ UNCHANGED <<pause, stop, n_graph, graphVars, want, calls, history, counters,
                   bpc, locals, mainKeeps>>

KickGraph ==
    /\ Go(0, "kick_graph", "kick_wake")
    /\ n_graph' = n_graph + 1
    /\ UNCHANGED <<pause, stop, mutex, graphVars, want, calls, history, barrierVars,
                   mainKeeps>>

\* Mutant: nobody is woken.
KickWakeSilent ==
    /\ Go(0, "kick_wake", "start")
    /\ pause' = FALSE
    /\ mutex' = FALSE
    /\ UNCHANGED <<stop, n_graph, graphVars, want, calls, history, barrierVars, mainKeeps>>

KickWake ==
    /\ pc[0] = "kick_wake"
    /\ pause' = FALSE
    /\ pc' = Broadcast([pc EXCEPT ![0] = "start"])
    /\ mutex' = FALSE
    /\ UNCHANGED <<stop, n_graph, graphVars, want, calls, history, barrierVars, mainKeeps>>

Return ==
    /\ Go(0, "return", "idle")
    /\ UNCHANGED <<poolVars, graphVars, want, calls, history, barrierVars, mainKeeps>>

\* ggml_threadpool_pause and ggml_threadpool_resume
SetPause(on) ==
    /\ ~mutex
    /\ pc[0] = "idle" /\ calls < Calls
    /\ calls' = calls + 1
    /\ pause' = on
    /\ pc' = IF pause = on THEN pc ELSE Broadcast(pc)
    /\ UNCHANGED <<stop, n_graph, mutex, graphVars, want, history, barrierVars, mainKeeps>>

\* ggml_threadpool_free: stop is set before pause is cleared, then all end
Free ==
    /\ ~mutex
    /\ Go(0, "idle", "free")
    /\ mutex' = TRUE
    /\ stop' = TRUE
    /\ UNCHANGED <<pause, n_graph, graphVars, want, calls, history, barrierVars, mainKeeps>>

FreeWake ==
    /\ pc[0] = "free"
    /\ pause' = FALSE
    /\ pc' = Broadcast([pc EXCEPT ![0] = "join"])
    /\ mutex' = FALSE
    /\ UNCHANGED <<stop, n_graph, graphVars, want, calls, history, barrierVars, mainKeeps>>

Join ==
    /\ \A t \in Workers : pc[t] = "exit"
    /\ Go(0, "join", "freed")
    /\ UNCHANGED <<poolVars, graphVars, want, calls, history, barrierVars, mainKeeps>>

-----------------------------------------------------------------------------
WorkerStep(t) ==
    \/ PauseCheck(t)
    \/ PauseLock(t)
    \/ PauseWoken(t)
    \/ StopCheck(t)
    \/ PollActive(t)
    \/ Poll(t)
    \/ PollReady(t)
    \/ SleepCheck(t)

ComputeStep(t) ==
    \/ Start(t)
    \/ Loop(t)
    \/ Plain(t)
    \/ ChunkSet(t)
    \/ ChunkFirst(t)
    \/ ChunkStep(t)
    \/ ChunksOut(t)
    \/ After(t)
    \/ NodeBarrier(t)
    \/ Final(t)
    \/ BarrierStep(t)

MainStep == Kick \/ KickGraph \/ KickWake \/ Return \/ FreeWake \/ Join

Ask ==
    \/ \E n \in Scenes[scene].counts, g \in Scenes[scene].graphs : GraphCompute(n, g)
    \/ \E on \in BOOLEAN : SetPause(on)
    \/ Free

Terminated == pc[0] = "freed" /\ UNCHANGED vars

PoolNext ==
    \/ MainStep
    \/ Ask
    \/ \E t \in Workers : WorkerStep(t) \/ SpuriousWake(t)
    \/ \E t \in Threads : ComputeStep(t)
    \/ Terminated

\* The scheduler runs every thread; nothing makes the caller call, nor a wait
\* end without a signal.
Fairness ==
    /\ WF_vars(MainStep \/ ComputeStep(0))
    /\ \A t \in Workers : WF_vars(WorkerStep(t) \/ ComputeStep(t))

PoolSpec == PoolInit /\ [][PoolNext]_vars /\ Fairness

-----------------------------------------------------------------------------
InCompute == {"start", "loop", "plain", "chunked", "chunk_barrier", "chunk",
              "after", "node_barrier", "final"}
AtWork    == {"plain", "chunked", "chunk_barrier", "chunk", "after"}

TypeOK ==
    /\ n_threads_cur \in 1 .. N
    /\ n_barrier \in 0 .. N
    /\ n_barrier_passed \in 0 .. IntMod - 1
    /\ bpc \in [Threads -> Places]
    /\ \A t \in Workers : pc[t] \in InCompute \cup
            {"pause", "pause_lock", "pause_wait", "pause_woken", "stop", "active",
             "poll", "poll_active", "lock", "sleep", "exit"}
    /\ pc[0] \in InCompute \cup {"idle", "kick", "kick_graph", "kick_wake", "return",
                                 "free", "join", "freed"}
    /\ mutex = (pc[0] \in {"kick_graph", "kick_wake", "free"})

Active == {t \in Threads : t < n_threads_cur}

\* ggml_graph_compute_thread, the barrier between nodes: a thread works on a node
\* only when every thread of the graph has finished all nodes before it; all
\* variables keep their types.
InStep ==
    /\ TypeOK
    /\ \A t \in Threads : pc[t] \in AtWork => \A u \in Active : done[u] >= run[t].node

\* ggml_graph_compute returns only when the graph is computed: every thread did
\* the same nodes, all of them unless the callback aborted, and every chunk of
\* every matrix multiplication was computed by exactly one thread.
ComputedOnReturn ==
    pc[0] = "return" =>
        /\ \A u \in Active : done[u] = done[0]
        /\ ec = "success" => done[0] = Len(cgraph)
        /\ \A i \in 1 .. done[0] : cgraph[i] = "chunked" =>
              \A c \in 0 .. NChunks(n_threads_cur) - 1 : work[i][c] = 1

\* "No worker threads should be accessing the parameters below at this stage"
\* (ggml_graph_compute): when the caller may write the graph, plan and abort
\* fields, no worker is before the end of its last barrier; one that the last
\* graph did not use may still be turning there, for a whole turn of the counter.
ResetIsAlone ==
    pc[0] = "idle" => \A t \in Workers : pc[t] \in InCompute =>
        /\ pc[t] = "final"
        /\ bpc[t] \in {"out", "spin"}
        /\ t \in Active => bpc[t] = "out" \/ n_passed[t] # n_barrier_passed

\* Every call of the pool's interface returns: a graph is computed however the
\* workers were polling, sleeping or paused when it was kicked off, and all of
\* them end when the pool is freed.
CallsReturn == pc[0] \notin {"idle", "freed"} ~> pc[0] \in {"idle", "freed"}

\* With the whole pool on every graph, its barrier is the rendezvous of module
\* Barrier, also across graphs.
Whole == \A n \in Scenes[scene].counts : n >= N
PR == INSTANCE Rendezvous WITH waiting <- IF Whole THEN Waiting(Threads) ELSE {},
                               freed   <- IF Whole THEN Freed(Threads) ELSE {}
PoolIsRendezvous == PR!Spec
=============================================================================
