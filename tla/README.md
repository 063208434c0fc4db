# Verification of llamaRafaelia in TLA+

This directory holds a TLA+ development of parts of llamaRafaelia, a fork of
llama.cpp.  It is kept beside the code: every module is written from the C++
source, `PROJECT.json` names the lines each definition stands for, and the runs
and proofs below are repeated when those lines change.

    tlc -config MCServerService.cfg MCServer      # a run
    tlapm ThreadPoolProofs.tla                    # a proof

## 1. The system

* **The server** (`tools/server/server.cpp`).  HTTP threads turn requests into
  tasks and post them to `server_queue`; one main thread takes tasks from it,
  gives them to slots, and computes all busy slots together in `update_slots`.
  Results travel back through `server_response`.  The hard part is the traffic
  between threads: tasks are deferred when no slot is free, cancelled when a
  client goes, and results may be sent before, while or after somebody waits.
* **The context** (`src/llama-context.cpp`).  `llama_decode` checks a batch, makes
  pending memory updates, asks the memory where the batch fits, and computes it
  ubatch by ubatch; an ubatch may fail or be aborted in the middle of a batch.
* **The KV cache** (`src/llama-kv-cache.cpp`, `src/llama-kv-cells.h`).  Cells hold a
  token at a position of one or more sequences.  Callers remove, copy, keep,
  shift and divide positions; shifts and copies between streams are queued and
  made by the next update; with a sliding window old cells are evicted.
* **The slots of the server** (`tools/server/server.cpp` again).  A slot keeps the
  tokens it believes are in the memory (`slot.prompt.tokens`) from one request to
  the next, and computes only what is new.  Context shifts, moved chunks, a cache of
  whole prompts, saved slots, purged slots and failed batches all change the memory
  and have to change that belief with it.
* **The ggml thread pool** (`ggml/src/ggml-cpu/ggml-cpu.c`).  The caller and its
  workers compute a graph node by node, with a spinning barrier behind each node;
  in between, workers poll, sleep or pause.
* **The log** (`common/log.cpp`).  Any thread adds messages to a ring that doubles
  when it is full; one worker prints them; pausing, or changing the file, ends the
  worker and starts a new one.
* **The HD cache** (`rafaelia-baremetal/rafstore/raf_hd_cache.c`).  Events are appended
  to a block store, held in three tiers of memory, queued in layers, and processed
  by a tick that retries, expires and drops them.
* **Other memories** (interleaved sliding window, recurrent, hybrid), the batch
  splitter, the ggml allocator and scheduler, and the rest of the
  `rafaelia-baremetal` library (block pool, bit stacks, numeric modules).

`PROJECT.json` lists all of them with their status.

## 2. Modules

| module | models | state |
|---|---|---|
| `ServerQueue` | `server_queue`: post, defer, pop_deferred_task, clean-up on cancel | the two task queues |
| `ServerResponse` | `server_response`: add and remove waiting ids, send, recv | waiting ids, results |
| `Server` | main loop, slots and HTTP handlers over these two | program counters of the threads, slots, batch |
| `MCServer` | the requests that meet in each run | |
| `ServerProofs` | proofs about `Server` | |
| `SeqOps` | what the code does to a queue: a remove-if loop, pushing to the front, erasing one element | |
| `SeqOpsProofs` | lemmas about `SeqOps`, by induction on the length | |
| `KVCellOps` | methods of `llama_kv_cells` as operators on its fields | |
| `KVCells` | `llama_kv_cells` under any legal sequence of calls | the cells |
| `SlotSearch`, `FindSlot` | the search loop of `find_slot` | its local variables |
| `MCKVParts` | `KVCells` or `FindSlot`, for one run | which of the two |
| `KVProofs` | proofs about `KVCells` and `FindSlot` | |
| `KVStore` | what the cache promises: a bag of tokens | the bag |
| `KVCache` | `llama_kv_cache` and the memory side of `decode` | cells, heads, K data, queued copies |
| `MCKVCache` | batches and ranges for the runs | |
| `ServerSlots` | slots, prompt cache and `update_slots` over the memory of each sequence | slots, memory, batch, saved prompts |
| `MCServerSlots` | how the server is started and what it is asked | |
| `Rendezvous` | what a barrier promises | who waits, who may leave |
| `Barrier` | `ggml_barrier`, access by access | its two counters, locals of each thread |
| `ThreadPool` | workers, `ggml_graph_compute`, chunks of `mul_mat`, pause, free | pool fields, program counters |
| `ThreadPoolProofs`, `GraphComputeProofs` | proofs about `Barrier` and `ThreadPool` | |
| `MCThreadPool` | what the caller does in each run | |
| `LogRing` | `common_log` | ring, worker, controller |
| `LogRingProofs` | proofs about `LogRing` | |
| `HDCache` | `raf_hd_cache`, its store, tiers, layers and tick | files, tiers, queues, clock |
| `MCHDCache` | events, budgets and mishaps for the runs | |
| `HDCacheProofs`, `HDCacheStoreProofs` | proofs about `HDCache` | |

### The server

A task is identified by its request and its index in it, so identities are never
reused.  Each critical section of the code (a method that takes a mutex) is one
action; code between two critical sections of the main thread that touches only
the main thread's data is merged into one of them.  `mpc` is the main thread's
place in `start_loop` and `update_slots`, `pc[h]` that of an HTTP thread.  A slot
is reduced to the task it works on and the number of tokens it has produced.
Whether a token ends the answer is a free choice up to the budget `NPredict`; what
a slot contains is the matter of `ServerSlots`, and with it what depends on the contents:
that a completion is refused before anything is posted (`HttpRefuse`), that a prompt ends with
an error, that a generating slot runs out of context which may not be shifted (both
`PromptEnds`, when the turn of the slot comes), and which of the slots of the lead's kind
find room in the batch and have its adapters (`UpdateSlots` takes any set of them with the
lead) are free choices.  The assertion in `can_batch_with` is modelled in `ServerSlots` only.  `recv_with_timeout` that times out
changes nothing, and finds out about a closed connection.  `Disconnect` is the
client's side (external).

### The KV cache

`KVCellOps` writes each method as an operator on the record of the private fields;
the set `used` and the map `seq_pos` are kept incrementally exactly as in the
code.  The `assert`s are compiled out of release builds, so an operator says what
happens when one would fail.  A context is used by one thread at a time, therefore
each public call is one action of `KVCache`, with all it does: `Decode` is
`memory_update`, `init_batch` with `prepare` (place everything, put it back), the
retry, and `apply_ubatch` and the graph for each ubatch, up to the one that fails.
Of the K tensor the model keeps, per cell, which token was written and which
position its rotary embedding encodes (`data`); a computation that failed leaves
`Garbage`.  Copies between streams copy `data`, the K-shift adds the pending
shift to the encoded position.

`FindSlot` has the loop of `find_slot` step by step, contiguous or not.  `KVCache`
uses its result, the operators `FirstUsable` and `FirstRun` of `SlotSearch`; the
property `ResultIsFirst` ties the two, and is proved for every size.

`StateWrite` is `llama_state_get_data` or `llama_state_seq_get_data` on the memory,
`StateReadSeq` and `StateReadAll` load what was saved, with the cells they free first
and the room they may not find.  The saved state is the sequence of rows per stream.
As in the code, copies and shifts that wait are not made before saving, and loading
an empty sequence removes nothing.  States of a context of another size and the
extended cell positions of multimodal models are left out.

`KVStore` is the abstract specification: a bag of entries (sequences, position,
token), with one action per call.  `KVCache` implements it under the mapping
`Contents`, which reads the cells with the queued copies and shifts as if they
had been made: an entry whose data would not be rotated to its position shows as
`Garbage` and is no entry the store could hold.  Refinement alone would let a call
that does nothing pass for no step, and a decode that loses tokens for a removal.
Both machines therefore record the last call in `call`, with a bit that changes each
time, and a step must match the action of its own call.  No action reads `call`, so
the configurations leave it out of the states told apart (`VIEW view`).

### The slots of the server

`ServerSlots` follows one slot's data where `Server` follows the threads: the main
thread alone touches it, so an action is a task of the loop (`Launch`, `SlotSave`,
`SlotRestore`, `SlotErase`, a cancellation), the part of `update_slots` that fills the
batch (context shift, prompt reuse, chunks, limits), or one turn of its decode loop
with its outcome (computed, no room, purge, halved, invalid, failed).  A sequence's
memory is the set of (position, token, adapter) it holds; `llama_decode`'s test for
invalid batches is `Valid`.  `told` is history: what the request asked for and what was
generated.  A setting (`S`) says how the server was started and what it is asked.

Simplified: samplers return a token of `Sampled` and stop at `NPredict`; `n_ubatch` is
`n_batch`; `n_discard` is its default; the similarity threshold is the default 0.1; the
limit of the prompt cache is in tokens; `n_keep` counts the BOS token; INFILL is a
completion and RERANK an embedding; a grammar that does not parse is an invalid
request.  `Posted` is the test by which the handler of completions turns down a prompt
that does not fit into a slot; embeddings are posted whatever their length, and empty
prompts too.  Left out: multimodal input, speculative decoding, activated LoRA, checkpoints
for memories that cannot be rolled back, and failing allocations.

### The thread pool and its barrier

`Barrier` has one action per access of `ggml_barrier` to a shared atomic.  `n_barrier_passed`
counts modulo `IntMod`, which stands for the width of `int`.  `Rendezvous` is the
promise: nobody leaves before all have come, and a fast thread may be back before a
slow one has left.  `ThreadPool` puts this barrier behind every node and into the
matrix product, and adds the worker loop (poll, sleep, pause, stop), the kick-off in
its three visible steps, the chunk counter, the abort callback and the calls of the
owner.  Accesses are taken to be sequentially consistent; the relaxed ones among them
are an assumption about the compiled code that is not checked here.  The build with
OpenMP replaces all of this and is not modelled; nor is the early return of a product that
`llamafile_sgemm` has computed (`ggml-cpu.c:1316`, a build option), after which no chunks
are taken.

### The log

One controller thread calls what `log.h` declares not thread-safe; messages and
prefixes come from any thread.  The worker's step between two accesses to the ring is
an action, so files and colours, which it reads without the mutex, could change under
it.  `accepted`, `printed` and `filed` are history.  Texts are identities; timestamps and
the formatting are left out.

### The HD cache

The user's calls are `Ingest` and `Tick`; a tick is split where `process_fn` runs, so that
it can call `Ingest` itself.  The clock moves at any time and is read once per tick, as
in the code; times count modulo `NsMod`, so that an age can wrap.  `store` has the blocks
with their offsets, the size in memory and the end of the file; a write may fall
short and the process may end in the middle of a block (`Restart` opens the same files
again).  The index file is written and never read back, and is left out; so is a
`process_fn` that calls tick or adds layers, and a failed allocation in a demotion.

## 3. Properties and runs

The properties are aimed at the hazards listed in `PROJECT.json`.  Each module has a
type invariant `TypeOK` (`SearchTypeOK` in `FindSlot`), which is a conjunct of one of its other invariants
(`NoTaskLost`, `InBounds`, `CellsExact`, `PromptInMemory`, `InStep`, `PausedIsEmpty`,
`TiersExact`); `kv_parts` lists that of the cells, `CellsTypeOK`, by itself, as the proofs do.  A run covers several
situations: `Init` chooses one of the `Scenarios` of `MCServer`, `Instances` of `MCKVCache`,
`Settings` of `MCServerSlots` or `Scenes` of `MCThreadPool` and `MCHDCache` (who meets, what is
called, what may go wrong), and no step changes the choice.

| run | question | bounds |
|---|---|---|
| `server_service` | is every client answered, does the main thread block only with nothing left to do | 3 requests, 2 slots, 2 tokens; scenarios `service`, `control`, `queue` |
| `server_cancel` | under a disconnect and errors: no task lost or in two places; results have waiters; nothing after the last result | 3 requests (4 tasks), 1 slot, 2 tokens |
| `kv_parts` | bookkeeping of the cells under any legal calls; the search is sound, complete and ends | 2 cells, 2 sequences, positions 0..2; a search of 5 cells, all inputs |
| `kv_store` | refinement of `KVStore`, and settled decodes: one stream, moved positions, a stream per sequence with one copy that waits while positions move or with two that wait; states saved and loaded | 3 cells, or 2 per stream; positions 0..2 (0..1 where copies wait for moves) |
| `kv_cache_cells` | the cache keeps the cells' bookkeeping exact, with coupled sequences, division and failing shifts; eviction with a window of 2, and what a refused batch may drop | 2 cells; 4 cells with the window; positions below 10 |
| `server_slots` | is what a slot believes cached in the memory, is an answer computed from its request and nothing else, does every request end | 2 slots, context 5, batch 3, 4 requests, 3 tokens each; settings `shift`, `reuse`, `short`, `cache`, `slots`, `kinds` |
| `thread_pool` | do the threads stay in step, is each chunk computed once, is nobody looking when the parameters are reset, does every call return; is the barrier in the pool a rendezvous | 3 threads, graphs of 1 or 2 nodes, 4 chunks, 2 or 3 calls, counters modulo 2 |
| `log` | is each message printed once, in order, with its settings; is everything out when pause returns | ring of 3 that doubles, 4 messages, 2 calls of the controller |
| `hd_cache` | is no event lost, doubled, mixed up, tried too often or left waiting; is no layer starved; are tiers, queues and file exact | 3 events, 2 layers, 3 tiers, 1 retry, 1 fault and 1 restart, or a clock of 2 steps and ingests from `process_fn` |

Two sequences suffice for sharing, coupling and copying onto each other; three
cells for a sequence of two tokens beside another one; the window instance has room
for two windows so that eviction, purging and lack of room all occur.  Positions
are bounded by `MaxPos` and `LastPos` in the guards; a cell of `KVCells` takes no
further shift beyond `MaxShift`; `MaxCopies` bounds the copies that wait.  In the KV
runs `CHECK_DEADLOCK` is off: with all positions used and few calls enabled the
model may stop, as callers may; so it is for the log and the server's slots, where a
bound on messages or requests ends the run.

A ring of three wraps and doubles within four messages, and a pause meets every fill
of it; what remains for larger rings is proved.  Three threads are enough for a thread
that is late, one that is ahead and the last one; the barrier is proved for any number.
Two slots with a memory that holds less than both want give every path of the retry
loop; the context of 5 with prompts of up to 4 and 3 generated tokens forces context
shifts, the chunk to move, the limit, and the embedding as large as the batch.  Two of
the three events fill the drop queue of the HD cache, the larger one does not fit the
first tier, and the modulus 8 lets an age of -1 look larger than every time to live.

### What the code does otherwise than it says

Three runs end in a counterexample to a sentence or an assertion of the repository;
`findings` in `PROJECT.json` has the quotations.

| run | property | counterexample |
|---|---|---|
| `server_race` | `CancelledIsGone` | a task cancelled while the main thread is about to defer it stays deferred and runs for nobody |
| `server_slots_long` | `NeverAborts` | an embedding longer than `n_ubatch`, or an empty prompt, is released while the slots after it are compared with it: `GGML_ASSERT(task)` fails |
| `hd_cache_ttl` | `ExpiredIsPastTtl` | "EXPIRED: Past TTL" (`HD_CACHE.md:77`): an event ingested by `process_fn` after the tick read the clock has a negative age, which is larger than any time to live |

The configurations below are kept beside the runs and show further deviations; each
checks one property and ends in a counterexample (`tlc -config X.cfg M`).

| configuration, module | property | what happens |
|---|---|---|
| `MCServerStarve`, `MCServer` | `BlocksWhenDone` | a deferred task that is turned down releases no slot, so those behind it wait with all slots idle |
| `MCServerLeak`, `MCServer` | `ResultsHaveWaiters` | a stream whose client goes before the provider runs leaves its results in the queue |
| `MCKVCacheRefused`, `MCKVCache` | `RefusedLeavesNoTrace` | a batch refused for lack of room has purged positions that are not put back |
| `MCKVCacheCopyTwice`, `MCKVCache` | `CellsExact` | `seq_cp` onto a sequence that shares the cells counts positions twice |
| `MCKVCacheCoupled`, `MCKVCache` | `StoreRefined` | after an abort a token shared by two sequences stays in the second, not computed |
| `MCKVCacheRestore`, `MCKVCache` | `StoreRefined` | loading the whole cache ("whole KV cache restore", `llama-kv-cache.cpp:1756`) clears every stream for each stream read, so only the last survives |
| `MCServerSlotsEarly`, `MCServerSlots` | `NeverAborts` | a request before the first idle update: the clearing of the memory leaves its slot's prompt, and the next one meets the `GGML_ABORT` that "should not happen" (`server.cpp:3853`) |
| `MCServerSlotsFull`, `MCServerSlots` | `ShiftCheckRedundant` | the check called "redundant (for good)" (`server.cpp:3608`) is what ends a request without context shift |
| `MCServerSlotsLora`, `MCServerSlots` | `PromptInMemory` | neither the prompt cache nor a saved slot records the adapter its state was computed with |
| `MCThreadPoolGrow`, `MCThreadPool` | `ResetIsAlone` | "No worker threads should be accessing the parameters below at this stage" (`ggml-cpu.c:3149`): a worker the last graph did not use may read the new thread count for the old graph, when the number grows |
| `MCLogRingFull`, `LogRing` | `PauseFlushes` | "make sure all logs are flushed" (`tools/main/main.cpp`): the end mark in a ring with one free slot makes it look empty; its messages are lost and the join does not return |
| `MCHDCacheAlign`, `MCHDCache` | `BlocksAligned` | after a block that fell short, a restart appends behind it, off the 4 KB boundaries of `HD_CACHE.md:21` |

### What the passing runs leave out

Some of these properties are also checked by a passing run.  They pass there because
the situation above is not among its scenarios, instances or settings, or because
the property exempts it; they are not claims about every use of the code.

* `BlocksWhenDone` and `Answered` (`server_service`): no request fails to launch
  and nobody disconnects.
* `ResultsHaveWaiters` (`server_cancel`): only a client that does not stream
  disconnects.  The other properties of that run also hold when a client that
  streams does (1,224,284 states, tried once; too slow to repeat with each change).
* `CellsExact` (`kv_cache_cells`): no copy onto a sequence that shares the cells.  The
  guard of `SeqCpShare` that excludes it is not in the code; the call `cp_onto` lifts
  it.  Moved positions (`add`) are not among the calls of this run either.
* `StoreRefined` (`kv_store`): no aborted batch with a token of several sequences, no
  failing K-shift, no whole state loaded with several streams, no state saved while
  shifts or copies wait, and no division.
  With division it does not hold: `pos_div` adds `p_old - pos` to the shift, the
  negative of the change, although the comment on `shift` says it accumulates the
  shifts applied.  No run is kept for this.
  Nor does it hold for `keep` with a stream per sequence, which the run leaves out
  too: `seq_keep` looks only at the stream of its sequence, where `llama.h` says it
  removes all tokens of other sequences.  No run is kept for this either.
* The properties of `server_slots` exempt a slot while `stale` is set: a failed decode
  (`server.cpp:4194`, with a TODO there), a prompt that could not be loaded from the
  prompt cache and the clearing of the memory by the first idle update leave
  `prompt.tokens` ahead of the memory.  They also end with the process
  (`at = "aborted"`).  Adapters occur only without the prompt cache and saved slots.
  `RequestsEnd` says that work that has a slot ends; a task that cannot be batched with
  the others waits until they are done, and new ones may come before that.
* `ResetIsAlone` (`thread_pool`): the number of threads does not grow from one graph to
  the next.
* `PrintedInOrder` and `Drained` (`log`) exempt a log that a pause has overrun.
* `OneHome` (`hd_cache`) promises a place, and a status in the end, to an event that has
  metadata and was not refused.  Two failed allocations leave others.  An event that was
  stored although its ingest failed for lack of a queue entry (`refused`,
  `raf_hd_cache.c:769`) stays NEW and is never processed.  An event whose metadata could not
  be stored (`raf_hd_cache.c:761`, where the result is ignored) is accepted, ingest
  returns 0, it waits in a queue, and its turn discards it (`854`): it is never DONE, DROPPED
  or EXPIRED.  `OneHome` and `EventsSettle` say of it that it waits in one place and not for
  ever, no more.  `EventsSettle` has three events; that a layer gets its turn whatever the
  others are given is `NoLayerStarves`.
* A payload in the hands of `process_fn` is never demoted in the model, because a tick
  demotes when its loop is over; a `process_fn` that calls tick or the demotion itself is
  left out.  The first tier may exceed its
  budget between two ticks, so `TiersExact` does not bound it.  Keys are assumed to be
  unique.

`prepare` restores `v_heads` with the index of the group in place of that of the
stream.  `KVCache` does the same, and no property is about the heads beyond their
range: they only choose where the search starts.

### Fairness

`Server!Spec` has weak fairness for the main thread and for each HTTP thread: they
are operating system threads, and each of their steps is enabled until they take
it.  No fairness is assumed of clients.  `FindSlot!SearchSpec`, and `MCKVParts` for its part, has weak fairness of its
only thread.  The KV cache specifications are about safety and have none.
`ThreadPool!Fairness` is weak fairness for each thread; nothing makes the owner call,
nor a wait end without a signal.  `LogRing!Fairness` has the worker, and the controller
inside a call.  In `ServerSlots` the main thread goes on with an update it has begun and
begins the next while a slot works, which the NEXT_RESPONSE task of `Server` brings
about; nothing is assumed of requests.  In `HDCache` a tick that has begun goes on, and the
user keeps calling tick; ingests, the clock and faults are free.

## 4. Proofs

`KVProofs` proves, for any finite set of cells, any set of sequences and any
bound on positions, that `KVCells` keeps its types and that `UsedIsExact`,
`CountsAreExact` and `ShiftIsAnnounced` hold.  The conjunction of the four (`Good`) is
inductive: counts alone are not, because that a count drops by one when a cell
leaves needs that empty cells have no sequences.  The central lemmas,
`OneCellChanges` and `CountsFollow`, say how the number of cells of a sequence at a
position changes when a single cell does; each method is then an instance.
Assumptions: `CellsAssumption` and `MaxShiftAssumption`.

It proves, for every size of the buffer, that the search stays in it
(`InBounds`), that what it returns is a slot (`FoundIsSlot`), and that it gives up only
when there is none (`NoneMeansNone`).  The properties speak of the end of the loop;
the invariant `SearchInv` says what holds in the middle: how `n_tested` relates to the head
before and after it went back to 0 (`Counted`), that every window left behind is
blocked (`Swept`), and that the usable cells passed were each taken once (`TakenCells`).
With adjacent cells the search may turn round twice; the second time all windows
have been seen, which is why giving up by a count that includes skipped cells is
right.  `ResultStaysFirst` adds that the cells found are those `KVCache` uses, the first
usable ones from the head on: the loop keeps, of the part of the search order it has
passed, exactly the usable cells (`KeepNext`, `KeepPrefix`), and with adjacent cells no
window before the one found is free (`Swept`).  Assumption: `SizeAssumption`.

`ThreadPoolProofs` proves, for every finite set of threads and every width of the
counters, that `ggml_barrier` implements `Rendezvous` (`BarrierRefines`).  The invariant
`IInv` (`BarrierCounts`) says that the count is the number of threads inside, that a
last thread is alone in leaving, and that what a waiting thread read of
`n_barrier_passed` is current or exactly one opening old; the last part is why a counter
of two values is enough and why a wrap is harmless.  `IInv(P)` is about the threads P that
the barrier counts.  With all of them it also holds inside the pool, which gives
`PoolIsRendezvous` (`PoolRefines`).

With P the threads of the current graph (`Active`) it is a part of `PoolInv`, the invariant
of a pool of any size, with graphs of any length, chunks of any number, and any order of
calls, pauses, sleeps, wake-ups and aborts.  A thread in a barrier that has opened is
already past it although its program counter is not, so `PoolInv` does not speak of `pc`
but of the place a thread has logically reached (`Spot`).  It says of each thread that

* it takes part only in a graph that is underway and that it was called for; a thread the
  graph does not use is at most on its way out of an earlier barrier (`ThreadInv`);
* what it has done fits its place (`Sound`): node, graph, and the abort it will meet;
* all threads of the graph are at the same stage, the stages being the stretches between
  two openings of a barrier (`InPhase`); when the last barrier has opened all have done the
  same nodes (`EndInv`).

`InPhase` is what makes the barrier's count right: the threads it waits for are those that
will come.  In turn the barrier is what keeps them in phase, hence the two are proved
together: a step is one of a thread inside a stage, the opening of a barrier, a kickoff or
one of the idle pool (`ThreadPoolProofs`, put together in `GraphComputeProofs`).  `PoolInv` gives
`InStep` and `ResetIsAlone`.  For `ComputedOnReturn` it takes `ChunkInv`, about the chunk
counter: in the stage of a product every chunk below the counter is in the hands of exactly
one thread or computed once, the counter is not below the number of threads, whose first
chunks are theirs without asking, and whoever has left the product left it with all chunks
handed out; before that stage nothing of the product is computed, after it everything.

The three theorems assume `NoGrow`: no call asks for more threads than the one before.
Without it `ResetIsAlone` does not hold, `MCThreadPoolGrow` is the counterexample.
Assumptions: `ThreadsAssumption`, `IntModAssumption`, `PoolAssumption`.  TLC checked `PoolInv`
and `ChunkInv` on the instance of `thread_pool` before they were proved.

`LogRingProofs` proves, for every capacity, number of messages and calls, that the ring
is a queue (`RingIsQueue`): what lies between head and tail are the messages accepted
last, in order, through wraps and expansions, and the end mark lies only behind them.
From it follow `PausedIsEmpty` and that each step takes no message or the next one
(`TakenInTurn`), with the file and colours of its logging.  The invariant has to know
which phases of worker and controller go together (`Phases`) and where the mark is
(`Marks`).  `PrintedInOrderHolds` carries this over to what is shown and filed, which are
filtered sequences: each step appends to both sides the same message or none.
Assumption: `RingAssumption`.

`SeqOpsProofs` has what these proofs and the next two say about queues.  `Keep` is a
recursive function; what it computes is proved by induction on the length, with a set
of lengths in the place of a predicate (`SetInduction`, from the well-foundedness of <
on the naturals), because the induction theorems of the library take a predicate as a
parameter.  `WalksAgree` makes any two walks with the same steps equal, `KeepPlaces` says
which elements stay and in which order, `WithoutIs` does the same for an erased one.

`ServerProofs` is about `Server` with any number of slots, HTTP threads, requests, tasks in
a request and tokens.  Its invariants build on each other:

* `TypeInv`: types, and where the main thread may be with which local variables;
* `HomeInv`: a task is in at most one of the two queues, the hands of the main thread
  and the slots, once, and nowhere before it is posted;
* `CancelInv`: whoever is the target of a cancellation has stopped reading, so a cleaned
  queue or a released slot takes nothing from a client that waits;
* `ResultInv`: a task whose last result is queued is no longer live, where a slot about
  to be released does not count as live.  `StopIsLast` alone is not inductive: it is this
  that keeps a slot from sending after its last result;
* `ServedInv`: a client that reads is registered, and each of its tasks is live or has its
  final result queued.  With `HomeInv` it gives `NoTaskLost`.

These need only `RequestAssumption`.  Two theorems have a hypothesis on the requests,
because without it the property fails:

* `ResultsHaveWaitersHolds` assumes `NoStreamCloses`, no client that streams disconnects
  (`MCServerLeak` is the counterexample).  Its invariant `WaitInv` says that a thread that
  stopped waiting has left no result and none will come;
* `BlocksWhenDoneHolds` assumes `Runnable`: each request is one task, of inference or
  monitoring, that can be launched in a slot that exists, and its client stays.  Its
  invariants are `WakeInv`, an iteration that finds a busy slot has left NEXT_RESPONSE in
  the queue, and `WorkInv`, deferred tasks are behind a busy slot or behind a task that
  will take one.  `PopDeferredTask` is called only when a slot is released, so whatever
  leaves the deferred queue and takes no slot leaves the others there: a request that
  cannot be launched (`MCServerStarve`), a slot action, a task that was cancelled, one
  of several in a request of which another failed; and a task for a slot that does not
  exist waits for ever.  With one slot each of these, allowed alone, has a
  counterexample.  Of the scenarios of `server_service`,
  `queue` satisfies `Runnable`; the slot actions of the others are outside the theorem.

`HDCacheProofs` and `HDCacheStoreProofs` are about `HDCache` with any events, payloads, layers,
frequencies, budgets, retries and bounds.  Every safety property of the run `hd_cache` but
`NoLayerStarves` is a theorem:

* `TypeInv` and `HomeInv` give `OneHome`.  `HomeInv` also speaks of entries whose event has no
  metadata, which a failed allocation leaves in a queue, and says that only events that
  were ingested are anywhere.  With what a total of lengths does when a queue gains or
  loses an entry (`InsertIs`, `TotalErase`) the bound `QueuesBounded` is inductive;
* `TierInv` gives `TiersExact`.  It adds that the tiers hold only events that were ingested,
  so a new payload cannot be in one already;
* `BlockInv` gives `PayloadIsIngested` and, step by step, `AppendOnly`: all blocks begin below the
  size at which the next is appended and no two at one place, so a read at an offset
  finds the block written there, after torn writes and restarts too;
* `ClockInv`, neither a tick nor an event that waits begins after the present and no event
  that waits is younger than the tick, holds when `process_fn` does not ingest, and then
  gives `ExpiredIsPastTtl` (`ExpiredIsPastTtlAlone`); `hd_cache_ttl` is the counterexample
  without that hypothesis;
* `RetryInv` gives `RetriesExact`: attempts and retries left add up, with one more while
  `process_fn` has the event.  The counter of dropped events is at least the number of
  events dropped with attempts left, and equal to it while no allocation has failed,
  because then every entry of a queue has its metadata.

Assumptions: `CacheAssumption` and `RotationAssumption`; the second is about the model's own
bound on the tick counter.  TLC checked each of these invariants on the run's instance
before it was proved.

Only model-checked:

* the slots of the server (`ServerSlots`).  Its actions run through the slots and through a
  batch with recursive operators, which the prover cannot be used with; what they compute
  would have to be proved by induction over a batch;
* the cache over its cells (`CellsExact`, `NoHoles`, `DecodedIsSettled`, `DecodeKeepsWindow`)
  and its refinement of `KVStore`.  `prepare`, `apply_ubatch` and `update` are folds of an
  operator over ubatches, cells and streams, so again induction over data.  The theorems
  about `KVCells` and `FindSlot` are about the two parts the cache is built of;
* `NoLayerStarves`, which needs arithmetic with a variable modulus;
* all liveness: `Answered`, `Terminates`, `RequestsEnd`, `CallsReturn`, `Drained` and
  `EventsSettle`.  They need fairness, and ENABLED is
  out of the prover's reach.

## 5. Not modelled

The repository has some 340,000 lines; by far the most are numeric kernels, device
back ends, model graphs, vocabularies, templates and vendored libraries.  The modules
stand for the parts with state that several calls or threads change, which is why the
share of mapped lines is small.  Left out, by part:

* the shutdown of the server (`terminate`, the signal handler);
* `llama_kv_cache_iswa` (two caches in step), recurrent and hybrid memories, the
  batch splitter, the graph allocator and scheduler: state machines in their own right,
  and the parts a next module should be about;
* the block pool and bit stacks of `rafaelia-baremetal`: single-threaded containers
  whose operations do not interact with anything modelled here;
* numeric kernels, device back ends, model files, vocabularies, sampling, templates,
  the numeric modules of `rafaelia-baremetal` and the command line tools: arithmetic,
  text or I/O, with no state machine whose interleavings or sequences of calls could
  be checked.
