------------------------------ MODULE KVStore ------------------------------
(***************************************************************************)
(* What the KV cache promises (include/llama.h, llama_memory_* and         *)
(* llama_decode): a bag of tokens, each at a position of one or more       *)
(* sequences.  Cells, heads, counts, pending shifts and pending copies are *)
(* not visible here.  A token is told from others at its position by the   *)
(* sequence it was decoded for, the first one if there are several.        *)
(***************************************************************************)
EXTENDS Integers, Sequences, FiniteSets, Bags, FiniteSetsExt

CONSTANTS
    Seqs,       \* sequence ids
    MaxPos,     \* bound on the positions
    Instances   \* how a cache is created and used, see KVCache

VARIABLES
    inst,       \* which instance this is
    store,      \* the bag of entries
    saved,      \* the state that was saved last
    call        \* the last call, with a bit that changes at each call

\* c is called; not even a call without effect passes for no call at all
Call(c) == call' = <<1 - call[1], c>>

Unified == inst.unified
Ranges  == inst.ranges
Deltas  == inst.deltas
Batches == inst.batches

\* [p0, p1) with negative bounds open
InRange(p, r) == r[1] <= p /\ (r[2] < 0 \/ p < r[2])

\* the entries still in some sequence, at a position that exists
Live(b) == [e \in {x \in DOMAIN b : x.seqs # {} /\ x.pos >= 0} |-> b[e]]

Of(s) == {e \in DOMAIN store : s \in e.seqs}

Next0(s) == IF Of(s) = {} THEN 0 ELSE Max({e.pos : e \in Of(s)}) + 1

Cleared == Call(<<"clear">>) /\ store' = EmptyBag

\* b without sequence s
Without(b, s) ==
    LET f(e) == [e EXCEPT !.seqs = @ \ {s}] IN Live(BagOfAll(f, b))

\* the entries of b that s has, for t alone
Moving(b, s, t) ==
    LET f(e) == IF s \in e.seqs THEN [e EXCEPT !.seqs = {t}] ELSE [e EXCEPT !.seqs = {}]
    IN  Live(BagOfAll(f, b))

Removed(s, r) ==
    LET b == store
        f(e) == IF s \in e.seqs /\ InRange(e.pos, r)
                THEN [e EXCEPT !.seqs = @ \ {s}] ELSE e
    IN  Call(<<"rm", s, r>>) /\ store' = Live(BagOfAll(f, b))

RemovedAll(r) ==
    LET b == store
        f(e) == IF InRange(e.pos, r) THEN [e EXCEPT !.seqs = {}] ELSE e
    IN  Call(<<"rm_any", r>>) /\ store' = Live(BagOfAll(f, b))

\* the entries are shared
Shared(s, t, r) ==
    LET b == store
        f(e) == IF s \in e.seqs /\ InRange(e.pos, r)
                THEN [e EXCEPT !.seqs = @ \cup {t}] ELSE e
    IN  Call(<<"cp", s, t, r>>) /\ Unified /\ store' = BagOfAll(f, b)

\* the whole sequence is copied, over what the target held
Copied(s, t, r) ==
    /\ Call(<<"cp", s, t, r>>)
    /\ ~Unified /\ s # t
    /\ store' = Without(store, t) (+) Moving(store, s, t)

Kept(s) ==
    LET b == store
        f(e) == [e EXCEPT !.seqs = @ \cap {s}]
    IN  Call(<<"keep", s>>) /\ store' = Live(BagOfAll(f, b))

Moved(s, r, d) ==
    LET b == store
        f(e) == IF s \in e.seqs /\ InRange(e.pos, r)
                THEN [e EXCEPT !.pos = @ + d] ELSE e
    IN  Call(<<"add", s, r, d>>) /\ store' = Live(BagOfAll(f, b))

Divided(s, r, d) ==
    LET b == store
        f(e) == IF s \in e.seqs /\ InRange(e.pos, r)
                THEN [e EXCEPT !.pos = @ \div d] ELSE e
    IN  Call(<<"div", s, r, d>>) /\ store' = BagOfAll(f, b)

(***************************************************************************)
(* decode returns ret: 0, and all ubatches are added; 1, no room, and none *)
(* is; 2, an abort after k ubatches, and these are.  Nothing else changes. *)
(***************************************************************************)
Added(batch, n) ==
    LET tokens == {<<u, g, i>> \in (1 .. n) \X (1 .. 2) \X (1 .. 4) :
                      g <= Len(batch[u]) /\ i <= Len(batch[u][g])}
        entry(x) == LET a == batch[x[1]][x[2]][x[3]]
                    IN  [seqs |-> a.seqs, tok |-> Min(a.seqs),
                         pos |-> Next0(CHOOSE s \in a.seqs : TRUE) + a.off]
        new == {entry(x) : x \in tokens}
    IN  store' = store (+) [e \in new |-> Cardinality({x \in tokens : entry(x) = e})]

Decoded(batch, k, ret) ==
    /\ Call(<<"decode", batch, k, ret>>)
    /\ (ret = 2) <=> (k < Len(batch))
    /\ IF ret = 1 THEN UNCHANGED store ELSE Added(batch, k)

(***************************************************************************)
(* llama_state_seq_get_data and set_data: one sequence is saved, and comes *)
(* back as sequence t, or t is empty when there is no room for it.  A      *)
(* state without cells changes nothing.                                    *)
(***************************************************************************)
Saved(s) ==
    /\ Call(<<"save", s>>)
    /\ saved' = [seq |-> s, bag |-> Moving(store, s, s)] /\ UNCHANGED store

Loaded(t, ok) ==
    /\ Call(<<"load", t, ok>>)
    /\ saved.seq \in Seqs /\ UNCHANGED saved
    /\ store' = IF saved.bag = EmptyBag THEN store
                ELSE IF ok THEN Without(store, t) (+) Moving(saved.bag, saved.seq, t)
                ELSE Without(store, t)

\* llama_state_get_data and set_data: the whole cache
SavedAll ==
    /\ Call(<<"save", -1>>)
    /\ saved' = [seq |-> -1, bag |-> store] /\ UNCHANGED store

LoadedAll ==
    /\ Call(<<"load", -1, TRUE>>)
    /\ saved.seq = -1 /\ UNCHANGED saved
    /\ store' = IF saved.bag = EmptyBag THEN store ELSE saved.bag

NothingSaved == [seq |-> -2, bag |-> EmptyBag]

Init == store = EmptyBag /\ saved = NothingSaved /\ inst \in Instances /\ call = <<0, <<"init">>>>

Step ==
    \/ Cleared
    \/ \E r \in Ranges : RemovedAll(r)
    \/ \E s \in Seqs : Kept(s)
    \/ \E s \in Seqs, r \in Ranges : Removed(s, r)
    \/ \E s, t \in Seqs, r \in Ranges : Shared(s, t, r)
    \/ \E s, t \in Seqs, r \in Ranges : Copied(s, t, r)
    \/ \E s \in Seqs, r \in Ranges, d \in Deltas : Moved(s, r, d)
    \/ \E s \in Seqs, r \in Ranges, d \in 2 .. MaxPos : Divided(s, r, d)
    \/ \E b \in Batches : \E k \in 0 .. Len(b), ret \in 0 .. 2 : Decoded(b, k, ret)

Next ==
    /\ UNCHANGED inst
    /\ \/ \E s \in Seqs : Saved(s) \/ \E ok \in BOOLEAN : Loaded(s, ok)
       \/ SavedAll
       \/ LoadedAll
       \/ UNCHANGED saved /\ Step

Spec == Init /\ [][Next]_<<store, saved, inst, call>>
=============================================================================
