------------------------------ MODULE HDCache ------------------------------
(***************************************************************************)
(* The event cache of rafaelia-baremetal/rafstore/raf_hd_cache.c: an       *)
(* append-only block store on disk, three memory tiers over it, one queue  *)
(* of events per layer, a weighted scheduler, and a tick that hands due    *)
(* events to the caller's process_fn, retries the ones that fail and drops *)
(* the ones that are too many or too old.                                  *)
(*                                                                         *)
(* The library has no threads.  What interleaves are the calls of its user *)
(* (ingest, tick, add_layer), the calls process_fn makes back into ingest  *)
(* while a tick is under way, the clock, failed writes and allocations,    *)
(* and a crash or a destroy followed by a create on the same files.        *)
(***************************************************************************)
EXTENDS Integers, FiniteSets, FiniteSetsExt, SeqOps

CONSTANTS
    MaxEvents,      \* events a behaviour ingests
    Freqs,          \* frequencies of the layers, in the order they are added
    PayloadLen,     \* payload_len of the n-th event
    LayersOf,       \* layers the n-th event may be ingested for
    HeaderSize,     \* size of a block header, in the units of PayloadLen
    BlockAlign,     \* RAF_HD_BLOCK_ALIGN, in the same units
    Budgets,        \* RAF_HD_L1_BUDGET, L2, L3
    MaxRetries,     \* RAF_HD_MAX_RETRIES
    DropQueueSize,  \* RAF_HD_DROP_QUEUE_SIZE
    DefaultTtl,     \* RAF_HD_DEFAULT_TTL_NS
    NsMod,          \* 2^64, the range of a time in nanoseconds
    Scenes          \* what a behaviour may do, one record per scene:
                    \*   ttls      the ttl_ns callers pass
                    \*   batch     the max_events callers pass to a tick
                    \*   reentrant may process_fn ingest events
                    \*   clock     the last instant reached
                    \*   faults    failed writes and allocations
                    \*   restarts  crashes followed by a new start

Event == 1..MaxEvents
Tiers == 1..3

VARIABLES
    scene,
    store,      \* size (of the store in memory), end (of the file), blocks
    tier,       \* [entries, used] of L1, L2 and L3, most recent entry first
    queue,      \* the queue of each layer added so far
    tick,       \* scheduler tick, modulo the weight of all layers
    meta,       \* metadata of each event, or None
    clock,      \* raf_hd_now_ns
    call,       \* the tick under way: now, left, and the event being processed
    born,       \* events ingested so far, in this process or an earlier one
    dropped,    \* dropped_events
    faults, restarts,
    tries,      \* attempts made on each event
    refused     \* events whose ingest returned -1 after it stored them

state == <<store, tier, queue, tick, meta, dropped>>
history == <<scene, born, faults, restarts, tries, refused>>
vars == <<store, tier, queue, tick, meta, dropped, clock, call, history>>

None == [status |-> "NONE"]
NoCall == [at |-> "idle"]
(* Of the metadata of a settled event only the status is ever read.        *)
Settled(status) == [status |-> status]
Terminal == {"DONE", "DROPPED", "EXPIRED"}
Status(e) == meta[e].status
Live(e) == Status(e) \in {"NEW", "RETRYING"}

(* raf_hd_align_up and the size of a block on disk. *)
AlignUp(v) == ((v + BlockAlign - 1) \div BlockAlign) * BlockAlign
DiskLen(e) == AlignUp(HeaderSize + PayloadLen[e])

----------------------------------------------------------------------------
(* The block store *)

(* raf_hd_store_init: the size is where the file ends.                     *)
StoreInitAtZero(st) == [st EXCEPT !.size = 0]
StoreInit(st) == [st EXCEPT !.size = st.end]

(* raf_hd_store_append: the block goes to store->size, over whatever a     *)
(* failed append left there, and only then the size moves.                 *)
StoreAppend(e) ==
    [size |-> store.size + DiskLen(e),
     end |-> Max({store.end, store.size + DiskLen(e)}),
     blocks |-> {b \in store.blocks : b.off < store.size}
                  \cup {[off |-> store.size, ev |-> e]}]

(* The same when a write falls short after n units: the size stays.        *)
AppendTorn(n) ==
    [store EXCEPT !.end = Max({@, store.size + n}),
                  !.blocks = {b \in @ : b.off < store.size}]

(* raf_hd_store_read, when the file can be read: what the block at off     *)
(* holds.  A block is accepted for its own magic and hash.                 *)
BlockAt(off) == {b.ev : b \in {c \in store.blocks : c.off = off}}

----------------------------------------------------------------------------
(* The tiers *)

Bytes(s) == Total([i \in 1..Len(s) |-> PayloadLen[s[i]]])

TierAdd(t, e) == [entries |-> <<e>> \o t.entries, used |-> t.used + PayloadLen[e]]
TierRemoveUncounted(t, i) == [t EXCEPT !.entries = Without(@, i)]
TierRemove(t, i) ==
    [entries |-> Without(t.entries, i), used |-> t.used - PayloadLen[t.entries[i]]]

(* tier_put: an entry that is there moves to the head, a new one is added. *)
TierPut(t, e) ==
    LET found == {i \in DOMAIN t.entries : t.entries[i] = e}
    IN TierAdd(IF found # {} THEN TierRemove(t, Min(found)) ELSE t, e)

(* Tiers that raf_hd_cache_demote_cycle has to take entries from.          *)
OverBudget == {i \in Tiers : tier[i].used > Budgets[i] /\ tier[i].entries # <<>>}

Cached(e) == \E i \in Tiers : e \in Range(tier[i].entries)

----------------------------------------------------------------------------
(* The scheduler *)

(* scheduler_weight *)
Weight(freq) ==
    CASE freq >= 100000 -> 64
      [] freq >= 1000 /\ freq < 100000 -> 16
      [] freq >= 500 /\ freq < 1000 -> 8
      [] freq >= 100 /\ freq < 500 -> 4
      [] freq < 100 -> 2

Layers == 1..Len(queue)
Cumulative(n) == Total([i \in 1..n |-> Weight(Freqs[i])])

ASSUME CacheAssumption ==
    /\ {MaxEvents, HeaderSize, BlockAlign, DropQueueSize, NsMod} \subseteq Nat \ {0}
    /\ {MaxRetries, DefaultTtl} \subseteq Nat
    /\ Freqs \in Seq(Nat) /\ Freqs # <<>>
    /\ PayloadLen \in [Event -> Nat]
    /\ Budgets \in [Tiers -> Nat]
    /\ \A sc \in Scenes : /\ sc.ttls \subseteq Nat /\ sc.batch \subseteq Nat
                          /\ sc.reentrant \in BOOLEAN
                          /\ {sc.clock, sc.faults, sc.restarts} \subseteq Nat
                          /\ sc.clock < NsMod

(* The tick is kept modulo the weight of all layers, which the weight of   *)
(* the layers added so far must divide.                                    *)
ASSUME RotationAssumption ==
    \A i \in 1..Len(Freqs) : Cumulative(Len(Freqs)) % Cumulative(i) = 0

(* Entries in the queues q. *)
Entries(q) == Total([i \in 1..Len(q) |-> Len(q[i])])

(* raf_hd_scheduler_next advances the tick and, of the layers in ready,    *)
(* takes the first whose share of the rotation reaches the tick, else the  *)
(* first; 0 when there is none.                                            *)
NextTick == IF queue = <<>> THEN tick ELSE (tick + 1) % Cumulative(Len(Freqs))

PickFirst(t, ready) == IF ready # {} THEN Min(ready) ELSE 0

Pick(t, ready) ==
    LET due == {i \in ready : t % Cumulative(Len(queue)) < Cumulative(i)}
    IN IF due # {} THEN Min(due) ELSE IF ready # {} THEN Min(ready) ELSE 0

NextLayerButFirst ==
    LET pick == Pick(NextTick, {i \in Layers : queue[i] # <<>>})
    IN IF pick = 1 THEN 0 ELSE pick

NextLayer == Pick(NextTick, {i \in Layers : queue[i] # <<>>})

----------------------------------------------------------------------------
Init ==
    /\ scene \in Scenes
    /\ dropped = 0
    /\ store = [size |-> 0, end |-> 0, blocks |-> {}]
    /\ tier = [i \in Tiers |-> [entries |-> <<>>, used |-> 0]]
    /\ queue = <<>>
    /\ tick = 0
    /\ meta = [e \in Event |-> None]
    /\ clock = 0
    /\ call = NoCall
    /\ born = 0
    /\ faults = 0
    /\ restarts = 0
    /\ tries = [e \in Event |-> 0]
    /\ refused = {}

(* raf_hd_cache_add_layer *)
AddLayer ==
    /\ call = NoCall
    /\ Len(queue) < Len(Freqs)
    /\ queue' = Append(queue, <<>>)
    /\ UNCHANGED <<store, tier, tick, meta, dropped, clock, call, history>>

(* raf_hd_cache_ingest is called by the user or from process_fn.           *)
MayIngest == call.at = "idle" \/ (call.at = "callback" /\ scene.reentrant)

(* The overflow rule at the end of ingest: the queue with the most events, *)
(* the first of them, loses its head.                                      *)
Fullest(q) == Min({i \in 1..Len(q) : \A j \in 1..Len(q) : Len(q[j]) <= Len(q[i])})

NewMetaAfter(e, l, ttl) ==
    [status |-> "NEW", created |-> clock, retries |-> MaxRetries,
     ttl |-> IF ttl > 0 THEN ttl ELSE DefaultTtl, off |-> store.size + DiskLen(e)]

NewMeta(e, l, ttl) ==
    [status |-> "NEW", created |-> clock, retries |-> MaxRetries,
     ttl |-> IF ttl > 0 THEN ttl ELSE DefaultTtl, off |-> store.size]

OverflowKeepsQueue(q, m) ==
    IF Entries(q) <= DropQueueSize
    THEN [queue |-> q, meta |-> m, more |-> 0]
    ELSE [queue |-> q, more |-> 1, meta |-> [m EXCEPT ![Head(q[Fullest(q)])] = Settled("DROPPED")]]

OverflowLate(q, m) ==
    IF Entries(q) <= DropQueueSize + 1
    THEN [queue |-> q, meta |-> m, more |-> 0]
    ELSE LET f == Fullest(q)
         IN [queue |-> [q EXCEPT ![f] = Tail(@)], more |-> 1,
             meta |-> [m EXCEPT ![Head(q[f])] = Settled("DROPPED")]]

Overflow(q, m) ==
    IF Entries(q) <= DropQueueSize
    THEN [queue |-> q, meta |-> m, more |-> 0]
    ELSE LET f == Fullest(q)
             d == Head(q[f])
         IN [queue |-> [q EXCEPT ![f] = Tail(@)],
             more |-> 1,
             meta |-> IF m[d] = None THEN m ELSE [m EXCEPT ![d] = Settled("DROPPED")]]

(* raf_hd_cache_ingest.  Each allocation may fail: without metadata or     *)
(* without an L1 entry the call goes on, without a queue entry it returns  *)
(* -1 and leaves behind what it has done.                                  *)
Ingest(l, ttl, fault) ==
    LET e == born + 1
        kept == IF fault = "meta" THEN meta ELSE [meta EXCEPT ![e] = NewMeta(e, l, ttl)]
        over == Overflow([queue EXCEPT ![l] = Append(@, e)], kept)
    IN /\ MayIngest
       /\ born < MaxEvents
       /\ l \in LayersOf[e]
       /\ fault # "none" => faults < scene.faults
       /\ faults' = faults + (IF fault = "none" THEN 0 ELSE 1)
       /\ born' = e
       /\ store' = StoreAppend(e)
       /\ tier' = IF fault = "hot" THEN tier ELSE [tier EXCEPT ![1] = TierPut(@, e)]
       /\ queue' = IF fault = "queue" THEN queue ELSE over.queue
       /\ meta' = IF fault = "queue" THEN kept ELSE over.meta
       /\ dropped' = IF fault = "queue" THEN dropped ELSE dropped + over.more
       /\ refused' = IF fault = "queue" THEN refused \cup {e} ELSE refused
       /\ UNCHANGED <<tick, clock, call, scene, restarts, tries>>

(* raf_hd_cache_ingest when the append fails: it returns -1 at once.       *)
IngestTorn(n) ==
    /\ MayIngest
    /\ born < MaxEvents
    /\ queue # <<>>
    /\ faults < scene.faults
    /\ faults' = faults + 1
    /\ n < DiskLen(born + 1)
    /\ born' = born + 1
    /\ store' = AppendTorn(n)
    /\ UNCHANGED <<tier, queue, tick, meta, dropped, clock, call, scene, restarts, tries, refused>>

----------------------------------------------------------------------------
(* raf_hd_cache_tick.  now is read once, when the tick begins. *)
TickBegin(n) ==
    /\ call = NoCall
    /\ call' = [at |-> "loop", now |-> clock, left |-> n]
    /\ UNCHANGED <<state, clock, history>>

(* One turn of the loop: the scheduler picks a layer and its head leaves.  *)
Dequeue ==
    /\ call.at = "loop"
    /\ call.left > 0
    /\ NextLayer # 0
    /\ tick' = NextTick
    /\ queue' = [queue EXCEPT ![NextLayer] = Tail(@)]
    /\ call' = [at |-> "turn", now |-> call.now, left |-> call.left,
                ev |-> Head(queue[NextLayer]), layer |-> NextLayer]
    /\ UNCHANGED <<store, tier, meta, dropped, clock, history>>

NextTurn == call' = [at |-> "loop", now |-> call.now, left |-> call.left - 1]

Attempt == tries' = [tries EXCEPT ![call.ev] = @ + 1]

inTurn == <<store, tier, tick, dropped, clock, scene, born, faults, restarts, refused>>

(* Ages are unsigned: the age of an event younger than now is huge.        *)
Expired(e) ==
    /\ Status(e) \notin {"DROPPED", "DONE"}
    /\ (call.now - meta[e].created) % NsMod > meta[e].ttl

(* No metadata, past its time to live, or settled already: not processed.  *)
TurnSkips ==
    /\ call.at = "turn"
    /\ Live(call.ev) => Expired(call.ev)
    /\ meta' = IF meta[call.ev] # None /\ Expired(call.ev)
               THEN [meta EXCEPT ![call.ev] = Settled("EXPIRED")] ELSE meta
    /\ NextTurn
    /\ UNCHANGED <<queue, tries, inTurn>>

(* An attempt failed: back to the end of its queue, or dropped.            *)
RetryForever ==
    LET e == call.ev
    IN /\ queue' = [queue EXCEPT ![call.layer] = Append(@, e)]
       /\ meta' = [meta EXCEPT ![e].status = "RETRYING"]

Retry ==
    LET e == call.ev
    IN \/ /\ meta[e].retries > 0
          /\ queue' = [queue EXCEPT ![call.layer] = Append(@, e)]
          /\ meta' = [meta EXCEPT ![e].status = "RETRYING", ![e].retries = @ - 1]
       \/ /\ meta[e].retries = 0
          /\ meta' = [meta EXCEPT ![e] = Settled("DROPPED")]
          /\ UNCHANGED queue

(* The payload is in no tier and the disk, which may always fail, does not *)
(* give it.                                                                *)
TurnUnread ==
    /\ call.at = "turn"
    /\ Live(call.ev) /\ ~ Expired(call.ev) /\ ~ Cached(call.ev)
    /\ Retry
    /\ Attempt
    /\ NextTurn
    /\ UNCHANGED inTurn

(* process_fn is called with the payload found in a tier or on disk.       *)
TurnCalls ==
    /\ call.at = "turn"
    /\ Live(call.ev) /\ ~ Expired(call.ev)
    /\ \E p \in IF Cached(call.ev) THEN {call.ev} ELSE BlockAt(meta[call.ev].off) :
         call' = [at |-> "callback", now |-> call.now, left |-> call.left, ev |-> call.ev,
                  layer |-> call.layer, payload |-> p, fromDisk |-> ~ Cached(call.ev)]
    /\ Attempt
    /\ UNCHANGED <<queue, meta, inTurn>>

(* process_fn returns.                                                     *)
Returns(ok) ==
    /\ call.at = "callback"
    /\ \/ ok /\ meta' = [meta EXCEPT ![call.ev] = Settled("DONE")] /\ UNCHANGED queue
       \/ ~ ok /\ Retry
    /\ NextTurn
    /\ UNCHANGED <<tries, inTurn>>

(* max_events turns are done or the scheduler finds no event.              *)
LoopEnd ==
    /\ call.at = "loop"
    /\ call.left = 0 \/ NextLayer = 0
    /\ tick' = IF call.left = 0 THEN tick ELSE NextTick
    /\ call' = [at |-> "demote"]
    /\ UNCHANGED <<store, tier, queue, meta, dropped, clock, history>>

(* raf_hd_cache_demote_cycle: the tail of L1 goes to the head of L2 while  *)
(* L1 is over budget, then L2 into L3, then L3 out of the cache.           *)
Demote ==
    LET i == Min(OverBudget)
        e == tier[i].entries[Len(tier[i].entries)]
        less == [tier EXCEPT ![i] = TierRemove(@, Len(@.entries))]
    IN /\ call.at = "demote"
       /\ OverBudget # {}
       /\ tier' = IF i < 3 THEN [less EXCEPT ![i + 1] = TierPut(@, e)] ELSE less
       /\ UNCHANGED <<store, queue, tick, meta, dropped, clock, call, history>>

TickEnd ==
    /\ call.at = "demote"
    /\ OverBudget = {}
    /\ call' = NoCall
    /\ UNCHANGED <<state, clock, history>>

----------------------------------------------------------------------------
ClockTicks ==
    /\ clock < scene.clock
    /\ clock' = clock + 1
    /\ UNCHANGED <<state, call, history>>

(* A crash, or raf_hd_cache_destroy_engine, and raf_hd_cache_create on the *)
(* same files; the index is not read.                                      *)
Restart ==
    /\ restarts < scene.restarts
    /\ restarts' = restarts + 1
    /\ store' = StoreInit(store)
    /\ tier' = [i \in Tiers |-> [entries |-> <<>>, used |-> 0]]
    /\ queue' = <<>>
    /\ tick' = 0
    /\ dropped' = 0
    /\ meta' = [e \in Event |-> None]
    /\ call' = NoCall
    /\ tries' = [e \in Event |-> 0]
    /\ refused' = {}
    /\ UNCHANGED <<scene, clock, born, faults>>

TickStep ==
    \/ Dequeue
    \/ TurnSkips
    \/ TurnUnread
    \/ TurnCalls
    \/ LoopEnd
    \/ Demote
    \/ TickEnd

Next ==
    \/ AddLayer
    \/ \E l \in Layers, ttl \in scene.ttls, fault \in {"none", "meta", "hot", "queue"} :
         Ingest(l, ttl, fault)
    \/ \E n \in 1..BlockAlign : IngestTorn(n)
    \/ \E n \in scene.batch : TickBegin(n)
    \/ TickStep
    \/ \E ok \in BOOLEAN : Returns(ok)
    \/ ClockTicks
    \/ Restart

(* A tick that has begun runs on, process_fn returns, and the user keeps   *)
(* ticking.  Nothing makes the user ingest, the clock move or a disk fail. *)
Fairness ==
    /\ WF_vars(TickStep)
    /\ WF_vars(\E ok \in BOOLEAN : Returns(ok))
    /\ WF_vars(\E n \in scene.batch : TickBegin(n))

Spec == Init /\ [][Next]_vars /\ Fairness
----------------------------------------------------------------------------
InFlight(e) == call.at \in {"turn", "callback"} /\ call.ev = e

(* Where an event stands in the queues, in the queues or in the hands of   *)
(* process_fn (layer 0), and in the tiers.                                 *)
Queued(e) == UNION {{l} \X {i \in DOMAIN queue[l] : queue[l][i] = e} : l \in Layers}
Homes(e) == Queued(e) \cup (IF InFlight(e) THEN {<<0, 1>>} ELSE {})
Copies(e) ==
    UNION {{t} \X {i \in DOMAIN tier[t].entries : tier[t].entries[i] = e} : t \in Tiers}

(* Types of the state: sizes, times and ticks are naturals in range.       *)
TypeOK ==
    /\ store.size \in Nat /\ store.end \in Nat /\ store.size <= store.end
    /\ \A i \in Tiers : tier[i].used \in Nat /\ Range(tier[i].entries) \subseteq 1..born
    /\ Len(queue) <= Len(Freqs) /\ \A l \in Layers : Range(queue[l]) \subseteq 1..born
    /\ tick \in 0..Cumulative(Len(Freqs)) - 1
    /\ call.at \in {"idle", "loop", "turn", "callback", "demote"}
    /\ \A e \in Event : Live(e) => meta[e].retries \in 0..MaxRetries

(* An event is in at most one place, which for an event that waits is one  *)
(* place of one queue or the hands of process_fn, and for a settled event  *)
(* is none: retries, overflows and ingests made by process_fn in the       *)
(* middle of a tick neither lose nor duplicate one.  Two kinds of event    *)
(* are not promised a place, or a status.  An event that ingest refused    *)
(* (it returned -1 without a queue entry) waits nowhere.  An event whose   *)
(* metadata could not be stored is queued, ingest returns 0, and its turn  *)
(* discards it without a status: it waits once, and no status says so.     *)
OneHome ==
    \A e \in Event :
        /\ \A p, q \in Homes(e) : p = q
        /\ Live(e) /\ e \notin refused => Homes(e) # {}
        /\ Status(e) \in Terminal => Homes(e) = {}

(* process_fn gets the payload that was ingested under the key, out of a   *)
(* tier or off the disk; a payload out of a tier is not freed while        *)
(* process_fn looks at it; and every waiting event can be read back from   *)
(* its block, whatever appends failed or fell short before.                *)
PayloadIsIngested ==
    /\ call.at = "callback" =>
         /\ call.payload = call.ev
         /\ call.fromDisk \/ Cached(call.ev)
    /\ \A e \in Event : Live(e) => BlockAt(meta[e].off) = {e}

(* An event is attempted once and then retried at most MaxRetries times;   *)
(* an event dropped with attempts left was dropped by an overflow, and     *)
(* dropped_events counts those and no others.                              *)
RetriesExact ==
    LET cut == {e \in Event : Status(e) = "DROPPED" /\ tries[e] <= MaxRetries}
    IN /\ \A e \in Event :
            /\ tries[e] <= MaxRetries + 1
            /\ Live(e) => tries[e] + meta[e].retries
                             = MaxRetries + (IF InFlight(e) /\ call.at = "callback" THEN 1 ELSE 0)
       /\ Cardinality(cut) <= dropped
       /\ faults = 0 => Cardinality(cut) = dropped

(* The byte counters of the tiers are exact, no event is in two tiers, and *)
(* outside a demotion the two lower tiers are within their budgets; all    *)
(* variables keep their types.                                             *)
TiersExact ==
    /\ TypeOK
    /\ \A i \in Tiers : tier[i].used = Bytes(tier[i].entries)
    /\ \A e \in Event : \A p, q \in Copies(e) : p = q
    /\ call.at # "demote" => \A i \in 2..3 : tier[i].used <= Budgets[i]

(* The overflow rule bounds the queues: with the event that process_fn     *)
(* holds, and that may come back, one more than RAF_HD_DROP_QUEUE_SIZE     *)
(* when process_fn ingests, and no more than that size when it does not.   *)
QueuesBounded ==
    Entries(queue) + (IF call.at \in {"turn", "callback"} THEN 1 ELSE 0)
      <= DropQueueSize + (IF scene.reentrant THEN 1 ELSE 0)

(* The store is append-only: a block once written stays, through failed    *)
(* appends and through a crash and a new start on the file.                *)
AppendOnly == [][store.blocks \subseteq store'.blocks]_vars

(* The scheduler starves no layer: within one rotation of the layers there *)
(* are, whatever events the other layers have or get meanwhile, comes a    *)
(* tick that takes the head of a layer that has events.                    *)
NoLayerStarves ==
    \A l \in Layers : \E k \in 1..Cumulative(Len(queue)) :
        \A others \in SUBSET Layers :
            Pick((tick + k) % Cumulative(Len(Freqs)), others \cup {l}) = l

(* While the user keeps ticking, every event that waits, in a queue or in  *)
(* the hands of process_fn, in the end waits no more (or the process       *)
(* restarts). By OneHome it is then settled, unless it had no metadata.    *)
EventsSettle == \A e \in Event : Homes(e) # {} ~> Homes(e) = {}

(* HD_CACHE.md has EXPIRED mean "Past TTL": a tick expires an event only   *)
(* when it is older than its time to live.                                 *)
ExpiredIsPastTtl ==
    [][\A e \in Event : Live(e) /\ Status(e)' = "EXPIRED"
         => call.now - meta[e].created > meta[e].ttl]_vars

(* HD_CACHE.md has blocks "aligned to 4KB boundaries".                     *)
BlocksAligned == \A b \in store.blocks : b.off % BlockAlign = 0
=============================================================================
