---------------------------- MODULE ServerSlots ----------------------------
(***************************************************************************)
(* The slots of tools/server/server.cpp and the memory of the context they *)
(* share: each slot remembers in slot.prompt.tokens what it believes the   *)
(* memory holds for its sequence, so that the next request may reuse it.   *)
(* Launching, the prompt cache, saving and restoring slots, update_slots   *)
(* with context shift, prompt reuse, batching, the retries of llama_decode *)
(* and purging.  All of it runs on the main thread; module Server has the  *)
(* queues around it.  Without multimodal input, speculative decoding,      *)
(* aLoRA, and checkpoints (models with a sliding window or a recurrent     *)
(* state).                                                                 *)
(***************************************************************************)
EXTENDS Integers, SequencesExt

CONSTANTS
    NSlots,     \* n_parallel
    NCtx,       \* slot.n_ctx
    NBatch,     \* llama_n_batch, and llama_n_ubatch
    NPredict,   \* bound: n_predict of every request
    Sampled,    \* the tokens a sampler may return
    MaxRequests,\* bound: requests, slot actions and cancellations
    Settings    \* names of settings; each is
                \*   unified:    kv_unified, the slots share cells
                \*   cells:      cells, per slot when not unified
                \*   ctx_shift, n_cache_reuse, cont_batching: params_base
                \*   cache:      token limit of the prompt cache, -1: none
                \*   early:      requests come before the first update
                \*   events:     what happens: "cancel", "slots" (actions),
                \*               "compute_error", "fragmented"
                \*   requests:   [type, tokens, cache_prompt, n_keep, lora,
                \*               valid, id_slot]

ASSUME SlotsAssumption ==
    /\ NSlots \in Nat \ {0} /\ NCtx \in Nat /\ NCtx >= 4
    /\ NBatch \in Nat \ {0} /\ NPredict \in Nat \ {0}

VARIABLES
    name,       \* the setting
    slot,       \* the slots
    lru,        \* the slots by t_last_used
    mem,        \* per slot, the memory of the context: <<position, token, adapter
                \* it was computed with>>
    states,     \* the prompt cache, oldest first
    file,       \* the slot save file
    clean,      \* clean_kv_cache
    at,         \* the main thread: "loop", "decode", "returned", "aborted"
    batch, i, n_batch,      \* of update_slots
    requests,   \* bound
    told,       \* history: prompt and generated tokens of the request
    stale,      \* history: prompts that a failure left ahead of the memory
    refused     \* history: a request failed because context shift is off

history == <<told, stale, refused>>
vars == <<name, slot, lru, mem, states, file, clean, at, batch, i, n_batch, requests, history>>

Slots == 1 .. NSlots
S == Settings[name]
NoTask == [type |-> "none", tokens |-> <<>>]
NoFile == [tokens |-> <<>>, mem |-> {}, stale |-> FALSE, ok |-> FALSE]

Init ==
    /\ name \in DOMAIN Settings
    /\ slot = [s \in Slots |->
                [state |-> "idle", task |-> NoTask, prompt |-> <<>>, lora |-> 0,
                 sampled |-> 0, i_batch |-> -1, n_decoded |-> 0, truncated |-> FALSE]]
    /\ lru = [k \in Slots |-> NSlots + 1 - k]
    /\ mem = [s \in Slots |-> {}]
    /\ states = <<>> /\ file = NoFile
    /\ clean = S.early
    /\ at = "loop" /\ batch = <<>> /\ i = 0 /\ n_batch = NBatch
    /\ requests = 0
    /\ told = [s \in Slots |-> <<>>]
    /\ stale = [s \in Slots |-> FALSE]
    /\ refused = FALSE

-----------------------------------------------------------------------------
(* The memory of one sequence, as module KVStore describes it *)

AsMem(tokens, lora) == {<<k - 1, tokens[k], lora>> : k \in 1 .. Len(tokens)}
SeqRm(m, p0, p1) == {x \in m : x[1] < p0 \/ (p1 >= 0 /\ x[1] >= p1)}
SeqAdd(m, p0, p1, d) ==
    {IF x[1] >= p0 /\ x[1] < p1 THEN [x EXCEPT ![1] = @ + d] ELSE x : x \in m}
Positions(m) == {x[1] : x \in m}
PosMin(m) == IF m = {} THEN -1 ELSE Min(Positions(m))
PosMax(m) == IF m = {} THEN -1 ELSE Max(Positions(m))

\* cells left for slot s
Free(m, s) == S.cells - (IF S.unified THEN MapThenSumSet(LAMBDA t : Cardinality(m[t]), Slots)
                        ELSE Cardinality(m[s]))

Lcp(a, b) == Max({n \in 0 .. Len(a) : n <= Len(b) /\ SubSeq(a, 1, n) = SubSeq(b, 1, n)})

Idle == {s \in Slots : slot[s].state = "idle"}

\* release(): the task is gone, what the slot cached stays
Released(sl) ==
    [sl EXCEPT !.state = "idle", !.task = NoTask, !.sampled = 0, !.n_decoded = 0,
               !.truncated = FALSE]
LastUsed(l, s) == Append(Remove(l, s), s)

Request == requests < MaxRequests /\ requests' = requests + 1

-----------------------------------------------------------------------------
(***************************************************************************)
(* server_prompt_cache.  alloc: nothing when the prompt is contained in a  *)
(* cached one; otherwise it replaces those it contains.                    *)
(***************************************************************************)
Contained(a, b) == Lcp(a, b) = Len(a)

Alloc(st, s) ==
    IF \E k \in DOMAIN st : Contained(slot[s].prompt, st[k].tokens) THEN st
    ELSE Append(SelectSeq(st, LAMBDA x : ~Contained(x.tokens, slot[s].prompt)),
                [tokens |-> slot[s].prompt, mem |-> mem[s], stale |-> stale[s]])

\* load: the first of the best among the cached prompts that keep more of their
\* tokens and cover more of the request than what the slot has; 0 if none
Better(x, y) == x.lcp * y.len > y.lcp * x.len /\ x.lcp > y.lcp

RECURSIVE BestFrom(_, _, _, _, _)
BestFrom(st, tokens, k, best, found) ==
    IF k > Len(st) THEN found
    ELSE LET x == [lcp |-> Lcp(st[k].tokens, tokens), len |-> Len(st[k].tokens)]
         IN  IF 4 * x.lcp >= x.len /\ Better(x, best)
             THEN BestFrom(st, tokens, k + 1, x, k)
             ELSE BestFrom(st, tokens, k + 1, best, found)

Best(st, s, tokens) ==
    BestFrom(st, tokens, 1,
             [lcp |-> Lcp(slot[s].prompt, tokens), len |-> Len(slot[s].prompt)], 0)

\* update: at least one state stays, whatever the limit
RECURSIVE Limited(_)
Limited(st) ==
    IF Len(st) > 1 /\ FoldLeft(LAMBDA n, x : n + Len(x.tokens), 0, st) > S.cache
    THEN Limited(Tail(st)) ELSE st

\* llama_state_seq_set_data: a state without cells changes nothing; cells that
\* are not found in one piece leave the sequence empty
Loadable(m, s) == Free([mem EXCEPT ![s] = {}], s) >= Cardinality(m)
MayFail(m, s) ==
    /\ m # {}
    /\ \/ ~Loadable(m, s)
       \/ "fragmented" \in S.events /\ S.unified /\ \E t \in Slots \ {s} : mem[t] # {}

(***************************************************************************)
(* get_available_slot: the idle slot with the longest common prefix, if    *)
(* that is more than a tenth of the request (slot_prompt_similarity), or   *)
(* else the one not used for the longest time.  When most of what the slot *)
(* has would be lost, it is saved in the prompt cache and a better state   *)
(* is loaded from there.                                                   *)
(***************************************************************************)
Kept(s) == [prompt |-> slot[s].prompt, mem |-> mem[s], stale |-> stale[s], states |-> states]

CacheUpdates(s, tokens) ==
    LET st == Alloc(states, s)
        k  == Best(st, s, tokens)
        loaded == [prompt |-> st[k].tokens, stale |-> st[k].stale,
                   mem |-> IF st[k].mem = {} THEN mem[s] ELSE st[k].mem,
                   states |-> Limited(RemoveAt(st, k))]
        failed == [prompt |-> slot[s].prompt, stale |-> TRUE, mem |-> {},
                   states |-> Limited(st)]
    IN  IF k = 0 THEN {[Kept(s) EXCEPT !.states = Limited(st)]}
        ELSE (IF Loadable(st[k].mem, s) THEN {loaded} ELSE {})
             \cup (IF MayFail(st[k].mem, s) THEN {failed} ELSE {})

Similar(tokens) ==
    {s \in Idle : 10 * Lcp(slot[s].prompt, tokens) > Len(tokens)}

MostSimilar(tokens) ==
    CHOOSE s \in Similar(tokens) : \A t \in Similar(tokens) :
        LET n(x) == Lcp(slot[x].prompt, tokens) IN n(s) > n(t) \/ (n(s) = n(t) /\ s <= t)

Available(r) ==
    IF r.id_slot # 0 THEN {r.id_slot} \cap Idle
    ELSE IF Similar(r.tokens) # {} THEN {MostSimilar(r.tokens)}
    ELSE IF Idle = {} THEN {} ELSE {SelectSeq(lru, LAMBDA s : s \in Idle)[1]}

UpdatesCache(s, r) ==
    /\ r.id_slot = 0 /\ S.cache >= 0 /\ r.type = "COMPLETION" /\ slot[s].prompt # <<>>
    /\ s \in Similar(r.tokens) => 2 * Lcp(slot[s].prompt, r.tokens) < Len(slot[s].prompt)

\* handle_completions_impl turns down what does not fit into a slot and posts no
\* task for it; the handlers of the other kinds post what they get
Posted(r) == r.type = "COMPLETION" => Len(r.tokens) < NCtx

\* and launch_slot_with_task: another LoRA forgets the prompt, not the memory;
\* an invalid request does not start
Launch(r) ==
    /\ at = "loop" /\ Posted(r) /\ Request
    /\ \E s \in Available(r) :
       \E c \in IF UpdatesCache(s, r) THEN CacheUpdates(s, r.tokens) ELSE {Kept(s)} :
         LET same == slot[s].lora = r.lora
             sl == [slot[s] EXCEPT !.prompt = IF same THEN c.prompt ELSE <<>>,
                                   !.lora = r.lora]
         IN  /\ slot' = [slot EXCEPT ![s] =
                   IF r.valid THEN [sl EXCEPT !.state = "started", !.task = r] ELSE sl]
             /\ told' = IF r.valid THEN [told EXCEPT ![s] = r.tokens] ELSE told
             /\ mem' = [mem EXCEPT ![s] = c.mem]
             /\ stale' = [stale EXCEPT ![s] = same /\ c.stale]
             /\ states' = c.states
    /\ UNCHANGED <<name, lru, file, clean, at, batch, i, n_batch, refused>>

-----------------------------------------------------------------------------
(* process_single_task, the other tasks that touch a slot *)

otherTask == <<name, states, clean, at, batch, i, n_batch, refused>>

Cancel(s) ==
    /\ at = "loop" /\ "cancel" \in S.events /\ s \notin Idle /\ Request
    /\ slot' = [slot EXCEPT ![s] = Released(@)]
    /\ lru' = LastUsed(lru, s)
    /\ told' = [told EXCEPT ![s] = <<>>]
    /\ UNCHANGED <<mem, file, stale, otherTask>>

SlotTask(s) == at = "loop" /\ "slots" \in S.events /\ s \in Idle /\ Request

SlotSave(s) ==
    /\ SlotTask(s)
    /\ file' = [tokens |-> slot[s].prompt, mem |-> mem[s], stale |-> stale[s], ok |-> TRUE]
    /\ UNCHANGED <<slot, lru, mem, told, stale, otherTask>>

SlotRestore(s) ==
    /\ SlotTask(s) /\ file.ok
    /\ \/ /\ Loadable(file.mem, s)
          /\ slot' = [slot EXCEPT ![s].prompt = file.tokens]
          /\ mem' = IF file.mem = {} THEN mem ELSE [mem EXCEPT ![s] = file.mem]
          /\ stale' = [stale EXCEPT ![s] = file.stale]
       \/ /\ MayFail(file.mem, s)
          /\ slot' = [slot EXCEPT ![s].prompt = <<>>]
          /\ mem' = [mem EXCEPT ![s] = {}]
          /\ stale' = [stale EXCEPT ![s] = FALSE]
    /\ UNCHANGED <<lru, file, told, otherTask>>

SlotErase(s) ==
    /\ SlotTask(s)
    /\ slot' = [slot EXCEPT ![s].prompt = <<>>]
    /\ mem' = [mem EXCEPT ![s] = {}]
    /\ stale' = [stale EXCEPT ![s] = FALSE]
    /\ UNCHANGED <<lru, file, told, otherTask>>

-----------------------------------------------------------------------------
(***************************************************************************)
(* update_slots, up to the decoding.  x holds the slots, the memory, the   *)
(* batch, and lead, the slot whose task the others must be batched with.   *)
(***************************************************************************)
NKeep(t) == Min({NCtx - 4, IF t.n_keep < 0 THEN Len(t.tokens) ELSE t.n_keep})

Drop(x, s) ==
    [x EXCEPT !.slot[s] = Released(@), !.lru = LastUsed(@, s), !.told[s] = <<>>]

\* context shift: of what follows the kept tokens, half is discarded
ContextShift(x, s) ==
    LET p == x.slot[s].prompt
        keep == NKeep(x.slot[s].task)
        discard == (Len(p) - keep) \div 2
    IN  IF x.slot[s].state = "idle" \/ Len(p) + 1 < NCtx THEN x
        ELSE IF ~S.ctx_shift THEN [Drop(x, s) EXCEPT !.refused = TRUE]
        ELSE [x EXCEPT
                !.mem[s] = SeqAdd(SeqRm(@, keep, keep + discard),
                                  keep + discard, Len(p), -discard),
                !.slot[s].prompt = SubSeq(p, 1, keep) \o SubSeq(p, keep + discard + 1, Len(p)),
                !.slot[s].truncated = TRUE]

\* can_batch_with; LeadGone: its GGML_ASSERT(task) fails
LeadGone(x) == x.lead # 0 /\ x.slot[x.lead].task = NoTask

CanBatch(x, s) ==
    \/ x.lead = 0
    \/ /\ x.slot[x.lead].task.type = x.slot[s].task.type
       /\ x.slot[x.lead].lora = x.slot[s].lora

Lead(x, s) == [x EXCEPT !.lead = IF @ = 0 THEN s ELSE @]

\* a token of slot s goes into the batch and, before it is computed, into the
\* prompt; the batch is computed with the adapter of the lead
Add(x, s, tok) ==
    [x EXCEPT !.batch = Append(@, [slot |-> s, tok |-> tok, pos |-> Len(x.slot[s].prompt),
                                   lora |-> x.slot[x.lead].lora]),
              !.slot[s].prompt = Append(@, tok)]

AddSampled(x, s) ==
    IF x.slot[s].state # "generating" \/ ~CanBatch(x, s) THEN x
    ELSE [Add(Lead(x, s), s, x.slot[s].sampled) EXCEPT !.slot[s].i_batch = Len(x.batch)]

(***************************************************************************)
(* n_cache_reuse: matching chunks further on in the cached prompt are      *)
(* moved to where the request has them.  y: heads c and p, memory, prompt. *)
(***************************************************************************)
NMatch(y, t) ==
    Max({n \in 0 .. Len(t) - y.p : y.c + n <= Len(y.prompt)
            /\ \A k \in 1 .. n : y.prompt[y.c + k] = t[y.p + k]})

\* (mutant) one chunk is moved without dropping what is in its place
ReuseChunkOver(y, t) ==
    LET n == NMatch(y, t)
    IN  IF y.c >= Len(y.prompt) \/ y.p >= Len(t) THEN y
        ELSE IF n < S.n_cache_reuse THEN [y EXCEPT !.c = @ + 1]
        ELSE [c |-> y.c + n, p |-> y.p + n,
              mem |-> SeqAdd(y.mem, y.c, y.c + n, y.p - y.c),
              prompt |-> [k \in DOMAIN y.prompt |->
                  IF k \in y.p + 1 .. y.p + n THEN t[k] ELSE y.prompt[k]]]

ReuseChunk(y, t) ==
    LET n == NMatch(y, t)
    IN  IF y.c >= Len(y.prompt) \/ y.p >= Len(t) THEN y
        ELSE IF n < S.n_cache_reuse THEN [y EXCEPT !.c = @ + 1]
        ELSE [c |-> y.c + n, p |-> y.p + n,
              mem |-> SeqAdd(SeqRm(y.mem, y.p, y.c), y.c, y.c + n, y.p - y.c),
              prompt |-> [k \in DOMAIN y.prompt |->
                  IF k \in y.p + 1 .. y.p + n THEN t[k] ELSE y.prompt[k]]]

Reuse(y, t) ==
    IF S.n_cache_reuse = 0 THEN y
    ELSE FoldLeft(LAMBDA z, k : ReuseChunk(z, t), y, [k \in 1 .. Len(y.prompt) |-> k])

\* (mutant) an embedding may be larger than a batch
PromptLimitContext(task) == NCtx - 1

\* the longest prompt a task may have
PromptLimit(task) == IF task.type = "COMPLETION" THEN NCtx - 1 ELSE Min({NBatch, NCtx})

\* how much of the cached prompt a new prompt starts from; the process aborts
\* when the memory has nothing of a prompt that is cached
StartPrompt(x, s) ==
    LET sl == x.slot[s]
        t  == sl.task.tokens
        n0 == IF sl.task.type = "COMPLETION" /\ sl.task.cache_prompt
              THEN Lcp(sl.prompt, t) ELSE 0
        y0 == [c |-> n0, p |-> n0, mem |-> x.mem[s], prompt |-> sl.prompt]
        y  == IF sl.task.type = "COMPLETION" /\ sl.task.cache_prompt THEN Reuse(y0, t) ELSE y0
        looks == y.p > 0 /\ y.p < Len(y.prompt)
        n1 == IF looks /\ PosMin(y.mem) > Max({0, y.p - 1}) THEN 0 ELSE y.p
        n2 == IF n1 = Len(t) THEN n1 - 1 ELSE n1
    IN  IF t = <<>> \/ Len(t) > PromptLimit(sl.task) THEN Drop(x, s)
        ELSE [x EXCEPT !.aborts = @ \/ (looks /\ y.mem = {}),
                       !.mem[s] = y.mem,
                       !.slot[s].state = "prompt",
                       !.slot[s].prompt = SubSeq(y.prompt, 1, n2)]

\* (mutant) what the last request left behind the prompt is not dropped
FillOverOld(x, s) ==
    LET t == x.slot[s].task.tokens
        p == x.slot[s].prompt
        n == Min({Len(t) - Len(p), Max({0, NBatch - Len(x.batch)})})
        y == FoldLeft(LAMBDA z, k : Add(z, s, t[k]), x, [k \in 1 .. n |-> Len(p) + k])
    IN  IF x.slot[s].task.type = "EMBEDDING" /\ Len(x.batch) + Len(t) > NBatch THEN x
        ELSE IF Len(p) + n < Len(t) THEN y
        ELSE [y EXCEPT !.slot[s].state = "done", !.slot[s].n_decoded = 0,
                       !.slot[s].i_batch = Len(y.batch) - 1]

\* the memory behind the prompt is dropped, and the prompt goes on as far as the
\* batch has room; an embedding must fit into it
FillBatch(x, s) ==
    LET t == x.slot[s].task.tokens
        p == x.slot[s].prompt
        n == Min({Len(t) - Len(p), Max({0, NBatch - Len(x.batch)})})
        y == FoldLeft(LAMBDA z, k : Add(z, s, t[k]),
                      [x EXCEPT !.mem[s] = SeqRm(@, Len(p), -1)],
                      [k \in 1 .. n |-> Len(p) + k])
    IN  IF x.slot[s].task.type = "EMBEDDING" /\ Len(x.batch) + Len(t) > NBatch THEN x
        ELSE IF Len(p) + n < Len(t) THEN y
        ELSE [y EXCEPT !.slot[s].state = "done", !.slot[s].n_decoded = 0,
                       !.slot[s].i_batch = Len(y.batch) - 1]

Waits(x, s) == /\ x.slot[s].task.type = "EMBEDDING" /\ x.slot[s].state = "prompt"
               /\ Len(x.batch) + Len(x.slot[s].task.tokens) > NBatch

\* once the batch is full no further slot is looked at, except behind one that
\* was passed over
AddPrompt(x, s) ==
    LET lead == IF x.slot[s].state = "idle" THEN x ELSE Lead(x, s)
        started == IF lead.slot[s].state = "started" THEN StartPrompt(lead, s) ELSE lead
        filled == IF started.slot[s].state = "prompt" THEN FillBatch(started, s) ELSE started
        passed == started.slot[s].state # x.slot[s].state /\ started.slot[s].state = "idle"
    IN  IF x.full THEN x
        ELSE IF x.slot[s].state # "idle" /\ ~CanBatch(x, s)
             THEN [x EXCEPT !.aborts = @ \/ LeadGone(x)]
        ELSE IF passed \/ Waits(started, s) THEN started
        ELSE [filled EXCEPT !.full = Len(filled.batch) >= NBatch]

\* the tokens of slot s in a batch
Of(b, s) == SelectSeq(b, LAMBDA e : e.slot = s)
Cells(b) == {<<e.pos, e.tok, e.lora>> : e \in ToSet(b)}

InOrder(Op(_, _), x) == FoldLeft(Op, x, [s \in Slots |-> s])

\* the prompt of slot sl has tokens that are not in m
Ahead(sl, m) == ~(AsMem(sl.prompt, sl.lora) \subseteq m)

UpdateSlots ==
    /\ at = "loop" /\ Idle # Slots
    /\ LET x0 == [slot |-> slot, lru |-> lru, mem |-> mem, told |-> told, batch |-> <<>>,
                  lead |-> 0, full |-> FALSE, aborts |-> FALSE, refused |-> refused]
           x1 == InOrder(AddSampled, InOrder(ContextShift, x0))
       IN  \E x \in {IF S.cont_batching \/ x1.batch = <<>> THEN InOrder(AddPrompt, x1) ELSE x1} :
             /\ slot' = x.slot /\ lru' = x.lru /\ mem' = x.mem /\ told' = x.told
             /\ batch' = IF x.aborts THEN <<>> ELSE x.batch
             /\ refused' = x.refused
             /\ at' = IF x.aborts THEN "aborted"
                      ELSE IF x.batch = <<>> THEN "returned" ELSE "decode"
             /\ stale' = [s \in Slots |-> stale[s] /\
                   Ahead(x.slot[s], x.mem[s] \cup Cells(Of(x.batch, s)))]
    /\ i' = 0 /\ n_batch' = NBatch
    /\ UNCHANGED <<name, states, file, clean, requests>>

\* with nothing to decode, the task that update_slots posted for itself brings
\* the loop round
NextResponse ==
    /\ at = "returned" /\ at' = "loop"
    /\ UNCHANGED <<name, slot, lru, mem, states, file, clean, batch, i, n_batch, requests, history>>

\* all slots are idle: the first time, the memory is cleared
UpdateIdle ==
    /\ at = "loop" /\ Idle = Slots /\ clean
    /\ clean' = FALSE
    /\ mem' = [s \in Slots |-> {}]
    /\ stale' = [s \in Slots |-> Ahead(slot[s], {})]
    /\ UNCHANGED <<name, slot, lru, states, file, at, batch, i, n_batch, requests, told, refused>>

-----------------------------------------------------------------------------
(***************************************************************************)
(* The batch is decoded in views of n_batch tokens.  llama_decode refuses  *)
(* tokens that do not follow what the memory has of their sequence.        *)
(***************************************************************************)
View == SubSeq(batch, i + 1, Min({i + n_batch, Len(batch)}))

Valid(v) ==
    \A s \in Slots : Of(v, s) # <<>> /\ mem[s] # {} =>
        Of(v, s)[1].pos = PosMax(mem[s]) + 1

HasRoom(v) ==
    \A s \in Slots : Of(v, s) # <<>> =>
        Free(mem, s) >= (IF S.unified THEN Len(v) ELSE Len(Of(v, s)))

Written(v) ==
    [s \in Slots |-> mem[s] \cup Cells(Of(v, s))]

\* the slots ss are released, one after the other
UsedBy(ss) == FoldLeft(LastUsed, lru, SetToSortSeq(ss, <))

\* an error: the first k tokens of the view are in the memory, every request
\* fails, and the prompts keep the tokens that are not
DecodeFails(k) ==
    /\ mem' = Written(SubSeq(View, 1, k))
    /\ slot' = [s \in Slots |-> IF s \in Idle THEN slot[s] ELSE Released(slot[s])]
    /\ lru' = UsedBy(Slots \ Idle)
    /\ told' = [s \in Slots |-> <<>>]
    /\ stale' = [s \in Slots |-> stale[s] \/ Ahead(slot[s], mem'[s])]
    /\ at' = "loop" /\ batch' = <<>> /\ i' = 0 /\ n_batch' = NBatch
    /\ UNCHANGED <<name, states, file, clean, requests, refused>>

decodeKeeps == <<name, lru, states, file, clean, requests, told, refused>>

\* (mutant) slots at work are purged, too
PurgeableAny == {s \in Slots : slot[s].prompt # <<>>}

\* try_purge_idle_slots
Purgeable == {s \in Idle : slot[s].prompt # <<>>}

\* (mutant) the purged slot still believes its prompt is cached
PurgeKeepsPrompt ==
    /\ mem' = [mem EXCEPT ![Min(Purgeable)] = {}]
    /\ UNCHANGED <<slot, stale, n_batch, at, batch, i, decodeKeeps>>

Purge ==
    LET s == Min(Purgeable)
    IN  /\ mem' = [mem EXCEPT ![s] = {}]
        /\ slot' = [slot EXCEPT ![s].prompt = <<>>]
        /\ stale' = [stale EXCEPT ![s] = FALSE]
        /\ UNCHANGED <<n_batch, at, batch, i, decodeKeeps>>

\* no room: purge an idle slot, or try half the tokens, or give up
NoRoom ==
    /\ at = "decode" /\ Valid(View) /\ ~HasRoom(View)
    /\ \/ n_batch = 1 /\ DecodeFails(0)
       \/ n_batch > 1 /\ S.unified /\ Purgeable # {} /\ Purge
       \/ /\ n_batch > 1 /\ ~(S.unified /\ Purgeable # {})
          /\ n_batch' = n_batch \div 2
          /\ UNCHANGED <<slot, mem, stale, at, batch, i, decodeKeeps>>

Refused == at = "decode" /\ ~Valid(View) /\ DecodeFails(0)

ComputeError ==
    /\ at = "decode" /\ "compute_error" \in S.events /\ Valid(View) /\ HasRoom(View)
    /\ \E k \in 0 .. Len(View) - 1 : DecodeFails(k)

\* process_token
Stops(sl) ==
    \/ ~S.ctx_shift /\ Len(sl.prompt) + 1 >= NCtx
    \/ sl.n_decoded >= NPredict

\* slot s after the view: an embedding is done; a completion samples tok, and
\* ends if that ends it
Answered(sl, tok, eog) ==
    LET next == [sl EXCEPT !.state = "generating", !.i_batch = -1, !.sampled = tok,
                           !.n_decoded = @ + 1]
    IN  IF sl.task.type = "EMBEDDING" THEN Released([sl EXCEPT !.i_batch = -1])
        ELSE IF eog \/ Stops(next) THEN Released(next) ELSE next

Answering == {s \in Slots : /\ slot[s].i_batch \in i .. i + Len(View) - 1
                            /\ slot[s].state \in {"done", "generating"}}

Decoded ==
    /\ at = "decode" /\ Valid(View) /\ HasRoom(View)
    /\ mem' = Written(View)
    /\ \E tok \in [Answering -> Sampled], eog \in [Answering -> BOOLEAN] :
         slot' = [s \in Slots |-> IF s \in Answering THEN Answered(slot[s], tok[s], eog[s])
                                  ELSE slot[s]]
    /\ lru' = UsedBy({s \in Answering : slot'[s].state = "idle"})
    /\ told' = [s \in Slots |-> IF s \notin Answering THEN told[s]
                  ELSE IF slot'[s].state = "idle" THEN <<>>
                  ELSE Append(told[s], slot'[s].sampled)]
    /\ n_batch' = NBatch
    /\ LET last == i + Len(View) = Len(batch)
       IN  /\ at' = IF last THEN "loop" ELSE "decode"
           /\ batch' = IF last THEN <<>> ELSE batch
           /\ i' = IF last THEN 0 ELSE i + Len(View)
    /\ UNCHANGED <<name, states, file, clean, requests, stale, refused>>

Update == UpdateSlots \/ NextResponse \/ UpdateIdle \/ NoRoom \/ Refused \/ ComputeError \/ Decoded

Next ==
    \/ \E r \in S.requests : Launch(r)
    \/ \E s \in Slots : Cancel(s) \/ SlotSave(s) \/ SlotRestore(s) \/ SlotErase(s)
    \/ Update

\* the main loop runs; nobody has to ask for anything.  (Weak fairness of Update,
\* with the states that enable it spelled out.)
MayUpdate == at \in {"decode", "returned"} \/ (at = "loop" /\ (Idle # Slots \/ clean))
Fairness == []<>~MayUpdate \/ []<><<Update>>_vars

Spec == Init /\ [][Next]_vars /\ Fairness

-----------------------------------------------------------------------------
Tokens == UNION {ToSet(r.tokens) : r \in S.requests} \cup Sampled

TypeOK ==
    /\ at \in {"loop", "decode", "returned", "aborted"}
    /\ (at = "decode") = (batch # <<>>)
    /\ i \in 0 .. Len(batch) /\ n_batch \in 1 .. NBatch
    /\ \A s \in Slots :
         /\ slot[s].state \in {"idle", "started", "prompt", "done", "generating"}
         /\ (slot[s].state = "idle") = (slot[s].task = NoTask)
         /\ ToSet(slot[s].prompt) \subseteq Tokens /\ Len(slot[s].prompt) <= NCtx
         /\ slot[s].n_decoded < NPredict
         /\ mem[s] \subseteq (0 .. NCtx - 1) \X Tokens \X {0, 1}
         /\ Free(mem, s) >= 0

(***************************************************************************)
(* Between two updates the memory has every token that a slot believes is  *)
(* cached, at its position and computed with the slot's adapter, through   *)
(* context shifts, moved chunks, the prompt cache, saved slots, purges and *)
(* retries; unless a failure left the prompt ahead of the memory (stale).  *)
(* Slots, batch and memory keep their types and bounds throughout.         *)
(***************************************************************************)
PromptInMemory ==
    /\ TypeOK
    /\ at = "loop" => \A s \in Slots : stale[s] \/ ~Ahead(slot[s], mem[s])

(***************************************************************************)
(* llama_decode never refuses a batch as invalid, unless it has a slot     *)
(* whose prompt a failure left ahead of the memory.                        *)
(***************************************************************************)
BatchFollowsMemory ==
    at = "decode" => Valid(View) \/ \E e \in ToSet(View) : stale[e.slot]

(***************************************************************************)
(* What a request is answered from: when a slot samples a token, or        *)
(* delivers an embedding, the memory holds for its sequence exactly the    *)
(* request's prompt and the tokens generated so far, computed with its     *)
(* adapter, whatever was cached before; after a context shift, the tokens  *)
(* to keep and the latest ones.                                            *)
(***************************************************************************)
AnsweredFrom(s, context) ==
    LET p == slot[s].prompt
        keep == NKeep(slot[s].task)
    IN  /\ context = AsMem(p, slot[s].lora)
        /\ IF ~slot[s].truncated THEN p = told[s]
           ELSE /\ SubSeq(p, 1, keep) = SubSeq(told[s], 1, keep)
                /\ IsSuffix(SubSeq(p, keep + 1, Len(p)), told[s])

ContextIsRequest ==
    [][at = "decode" /\ (\A s \in Slots : Cells(Of(View, s)) \subseteq mem'[s]) =>
         \A s \in Answering : stale[s] \/ AnsweredFrom(s, mem'[s])]_vars

(***************************************************************************)
(* While a batch is decoded no slot that works loses cached tokens: the    *)
(* purge that makes room and the retries touch idle slots only.            *)
(***************************************************************************)
WorkKeepsMemory ==
    [][at = "decode" => \A s \in Slots \ Idle : mem[s] \subseteq mem'[s]]_vars

(***************************************************************************)
(* Every request comes to its end: halving the batch, purging, waiting for *)
(* a batch of the same kind and shifting the context do not go on for      *)
(* ever (unless the process aborts).                                       *)
(***************************************************************************)
RequestsEnd ==
    \A s \in Slots : slot[s].state # "idle" ~> (slot[s].state = "idle" \/ at = "aborted")

(***************************************************************************)
(* The assertions and GGML_ABORTs that update_slots meets on the way hold: *)
(* "GGML_ASSERT(task)" of can_batch_with, and "pos_min == -1, but n_past > *)
(* 0 - should not happen".                                                 *)
(***************************************************************************)
NeverAborts == at # "aborted"

(***************************************************************************)
(* "this check is redundant (for good) we should never get here, because   *)
(* generation should already stopped in process_token()" (update_slots, on *)
(* a request that fails because context shift is disabled).                *)
(***************************************************************************)
ShiftCheckRedundant == ~refused
=============================================================================
