------------------------------ MODULE KVCache ------------------------------
(***************************************************************************)
(* llama_kv_cache (src/llama-kv-cache.cpp) under the calls of the public   *)
(* API, and the part of llama_context::decode (src/llama-context.cpp) that *)
(* drives it: update, prepare, apply, and the clean-up after an ubatch     *)
(* that fails.  A context is used by one thread, so a call is one action.  *)
(* The contents of the K tensor are kept in data: which token was written  *)
(* to a cell, and the position its rotary embedding encodes.               *)
(***************************************************************************)
EXTENDS KVCellOps, SlotSearch, FiniteSetsExt, SequencesExt

CONSTANTS
    Instances,  \* the ways a cache is created and used:
                \*   unified: kv_unified, one stream of cells for all sequences
                \*   size:    kv_size, the number of cells of a stream
                \*   n_swa:   size of the sliding window, 0: no sliding window
                \*   calls:   the calls and faults that happen
                \*   ranges:  ranges <<p0, p1>> passed by the callers
                \*   deltas:  distances passed to seq_add
                \*   batches: a batch is a sequence of ubatches, an ubatch of
                \*            groups, a group of tokens [seqs, off]
                \*   copies:  bound on the copies that wait
                \*   last:    bound on the positions
    Garbage     \* what a computation that failed leaves in a cell

ASSUME CacheAssumption ==
    /\ \A n \in Instances : 0 .. n.size - 1 \subseteq Cells
    /\ Seqs = 0 .. Cardinality(Seqs) - 1 /\ Seqs # {}
    /\ \A n \in Instances : n.last <= MaxPos

VARIABLES
    inst,       \* which instance this cache is
    v_cells,    \* per stream, the cells
    v_heads,    \* per stream, where the next search starts
    data,       \* per stream and cell, the K data
    sc_info,    \* buffer copies that wait for the next update
    saved,      \* the state written last: whose, and per stream its rows
    ret,        \* result of llama_decode, NoRet after another call
    call        \* history: the last call, see KVStore

\* no action depends on call
view == <<inst, v_cells, v_heads, data, sc_info, saved, ret>>
vars == <<view, call>>

Unified   == inst.unified
Size      == inst.size     \* the cells from Size on stay empty
NSwa      == inst.n_swa
Calls     == inst.calls
Ranges    == inst.ranges
Deltas    == inst.deltas
Batches   == inst.batches
MaxCopies == inst.copies
LastPos   == inst.last

NoRet == -9
StreamOf(s) == IF Unified THEN 0 ELSE s
Streams == {StreamOf(s) : s \in Seqs}
Blank == [tok |-> Garbage, rope |-> 0]

\* everything a call works on
Mem == [cells |-> v_cells, heads |-> v_heads, data |-> data]

(***************************************************************************)
(* Call c ends with m.  The data of an empty cell is never read, except by *)
(* a copy that still waits, so the model forgets it.                       *)
(***************************************************************************)
Commit(c, mem, sc, r) == \E m \in {mem} :
    /\ v_cells' = m.cells /\ v_heads' = m.heads /\ sc_info' = sc /\ ret' = r
    /\ UNCHANGED <<inst, saved>> /\ call' = <<1 - call[1], c>>
    /\ data' = IF sc # <<>> THEN m.data
               ELSE [st \in Streams |-> [i \in Cells |->
                        IF m.cells[st].pos[i] = -1 THEN Blank ELSE m.data[st][i]]]

Init ==
    /\ inst \in Instances
    /\ v_cells = [st \in Streams |-> NoCells]
    /\ v_heads = [st \in Streams |-> 0]
    /\ data = [st \in Streams |-> [i \in Cells |-> Blank]]
    /\ saved = [seq |-> -2, rows |-> [st \in Streams |-> <<>>]]
    /\ sc_info = <<>> /\ ret = NoRet /\ call = <<0, <<"init">>>>

-----------------------------------------------------------------------------
(***************************************************************************)
(* The sequence operations.  r is <<p0, p1>>; a negative bound is open.    *)
(***************************************************************************)
Lo(r) == IF r[1] < 0 THEN 0 ELSE r[1]
Hi(r) == IF r[2] < 0 THEN MaxPos + 1 ELSE r[2]
In(c, i, r) == PosIn(c, i, Lo(r), Hi(r))

\* the cells of sequence s in the range
Hit(c, s, r) == {i \in Cells : In(c, i, r) /\ s \in c.seq[i]}

\* the cells of X that are empty in c
Freed(c, X) == {i \in X : c.pos[i] = -1}

\* if a slot was freed before the head, the next search starts there
Lowered(h, X) == IF X # {} /\ Min(X) < h THEN Min(X) ELSE h

SeqRmRange(m, s, r) ==
    LET st == StreamOf(s)
        hit == Hit(m.cells[st], s, r)
        d == FoldSet(LAMBDA i, c : SeqRm(c, i, s), m.cells[st], hit)
    IN  [m EXCEPT !.cells[st] = d, !.heads[st] = Lowered(@, Freed(d, hit))]

Clear == /\ "clear" \in Calls
         /\ Commit(<<"clear">>, [Mem EXCEPT !.cells = [st \in Streams |-> NoCells],
                               !.heads = [st \in Streams |-> 0]], sc_info, NoRet)

SeqRmCall(s, r) == /\ "rm" \in Calls
                   /\ Commit(<<"rm", s, r>>, SeqRmRange(Mem, s, r), sc_info, NoRet)

\* seq_id < 0
SeqRmAny(r) ==
    LET hit(st) == {i \in Cells : In(v_cells[st], i, r)}
        d == [st \in Streams |->
                FoldSet(LAMBDA i, c : Rm(c, i), v_cells[st], hit(st))]
    IN  /\ "rm_any" \in Calls
        /\ Commit(<<"rm_any", r>>, [Mem EXCEPT !.cells = d,
                              !.heads = [st \in Streams |-> Lowered(@[st], hit(st))]],
                  sc_info, NoRet)

\* within a stream: the cells are shared
SeqCpShare(s, t, r) ==
    LET st == StreamOf(s)
        hit == Hit(v_cells[st], s, r)
    IN  /\ "cp" \in Calls /\ StreamOf(t) = st /\ s # t
        /\ "cp_onto" \in Calls \/ \A i \in hit : t \notin v_cells[st].seq[i]
        /\ Commit(<<"cp", s, t, r>>, [Mem EXCEPT !.cells[st] =
                      FoldSet(LAMBDA i, c : SeqAdd(c, i, t), @, hit)],
                  sc_info, NoRet)

(***************************************************************************)
(* Between streams: the buffer is copied by the next update, the cells of  *)
(* the target are replaced now.  A range short of the buffer fails the     *)
(* assertion is_full.                                                      *)
(***************************************************************************)
IsFull(r) == ~(r[1] > 0 /\ r[1] + 1 < Size) /\ ~(r[2] > 0 /\ r[2] + 1 < Size)

CopyLosesShift(c, i, s, t) == SeqAdd(PosSet(c, i, v_cells[s].pos[i]), i, t)

CopyCell(c, i, s, t) ==
    LET sh == v_cells[s].shift[i]
        d == SeqAdd(PosSet(c, i, v_cells[s].pos[i] - sh), i, t)
    IN  IF sh # 0 THEN PosAdd(d, i, sh) ELSE d

SeqCpStream(s, t, r) ==
    LET hit == {i \in Cells : s \in v_cells[s].seq[i]}
    IN  /\ "cp" \in Calls /\ StreamOf(s) # StreamOf(t) /\ IsFull(r)
        /\ Len(sc_info) < MaxCopies
        /\ Commit(<<"cp", s, t, r>>, [Mem EXCEPT
                     !.cells[t] = FoldSet(LAMBDA i, c : CopyCell(c, i, s, t),
                                          NoCells, hit),
                     !.heads[t] = v_heads[s]],
                  Append(sc_info, <<s, t>>), NoRet)

SeqKeepCall(s) ==
    LET st == StreamOf(s)
        d == FoldSet(LAMBDA i, c : SeqKeep(c, i, s), v_cells[st], Cells)
        freed == {i \in Cells : v_cells[st].pos[i] # -1 /\ d.pos[i] = -1}
    IN  /\ "keep" \in Calls
        /\ Commit(<<"keep", s>>, [Mem EXCEPT !.cells[st] = d, !.heads[st] = Lowered(@, freed)],
                  sc_info, NoRet)

SeqAddCall(s, r, n) ==
    LET st == StreamOf(s)
        hit == Hit(v_cells[st], s, r)
        d == FoldSet(LAMBDA i, c : PosAdd(c, i, n), v_cells[st], hit)
        freed == Freed(d, hit)
    IN  /\ "add" \in Calls /\ n # 0 /\ Lo(r) # Hi(r)
        /\ \A i \in hit : v_cells[st].pos[i] + n <= LastPos
        /\ Commit(<<"add", s, r, n>>, [Mem EXCEPT !.cells[st] = d,
                              !.heads[st] = IF freed # {} THEN Min(freed) ELSE 0],
                  sc_info, NoRet)

SeqDivCall(s, r, n) ==
    LET st == StreamOf(s)
        d == FoldSet(LAMBDA i, c : PosDiv(c, i, n), v_cells[st],
                     Hit(v_cells[st], s, r))
    IN  /\ "div" \in Calls /\ n # 1 /\ Lo(r) # Hi(r)
        /\ Commit(<<"div", s, r, n>>, [Mem EXCEPT !.cells[st] = d], sc_info, NoRet)

-----------------------------------------------------------------------------
(***************************************************************************)
(* update: the copies that wait are made in order, then the K-shift turns  *)
(* the data of every shifted cell.  When the K-shift fails (ok is FALSE)   *)
(* the shifts stay pending.                                                *)
(***************************************************************************)
AnyShift(m) == \E st \in Streams : m.cells[st].has_shift

Copied(d, sc) == FoldLeft(LAMBDA x, cp : [x EXCEPT ![cp[2]] = x[cp[1]]], d, sc)

Shifted(m) ==
    [m EXCEPT !.data = [st \in Streams |-> [i \in Cells |->
                          [@[st][i] EXCEPT !.rope = @ + m.cells[st].shift[i]]]],
              !.cells = [st \in Streams |-> ResetShift(@[st])]]

ShiftBeforeCopy(m, sc, ok) ==
    LET n == IF AnyShift(m) /\ ok THEN Shifted(m) ELSE m
    IN  [n EXCEPT !.data = Copied(@, sc)]

Update(m, sc, ok) ==
    LET n == [m EXCEPT !.data = Copied(@, sc)]
    IN  IF AnyShift(n) /\ ok THEN Shifted(n) ELSE n

(***************************************************************************)
(* find_slot, not contiguous: the first n cells that can be used, in the   *)
(* order of the search, which goes round once from the head (module        *)
(* FindSlot has the loop).  <<>> when there are not enough.                *)
(***************************************************************************)
MaskedSwa(p0, p1) == NSwa > 0 /\ p1 - p0 >= NSwa

EvictsVisible(c, i) ==
    \/ c.pos[i] = -1
    \/ \E s \in Seqs : c.seq[i] = {s} /\ NSwa > 0
                       /\ SeqPosMax(c, s) + 1 - c.pos[i] >= NSwa - 1

CanUse(c, i) ==
    \/ c.pos[i] = -1
    \/ \E s \in Seqs : c.seq[i] = {s} /\ MaskedSwa(c.pos[i], SeqPosMax(c, s) + 1)

SearchStart(c, head, n) == IF head > Cardinality(c.used) + 2 * n THEN 0 ELSE head

FindIdxs(c, head, n) ==
    FirstUsable(Size, SearchStart(c, head, n), {i \in Cells : CanUse(c, i)}, n)

\* the same, contiguous
FindRun(c, head, n) ==
    FirstRun(Size, SearchStart(c, head, n), {i \in Cells : CanUse(c, i)}, n)

\* the slot of an ubatch: per group, a stream and its cells; <<>> if none
FindSlot(m, ub) ==
    LET strm(g) == StreamOf(Min(ub[g][1].seqs))
        slot == [g \in 1 .. Len(ub) |->
                   [strm |-> strm(g),
                    idxs |-> FindIdxs(m.cells[strm(g)], m.heads[strm(g)], Len(ub[g]))]]
    IN  IF \E g \in 1 .. Len(ub) : slot[g].idxs = <<>> THEN <<>> ELSE slot

(***************************************************************************)
(* apply_ubatch: the tokens take their cells, evicting what was there, and *)
(* positions below an evicted one are purged.                              *)
(***************************************************************************)
PlaceOver(c, i, a) ==
    FoldSet(LAMBDA s, x : SeqAdd(x, i, s), PosSet(c, i, a.pos), a.seqs)

Place(c, i, a) ==
    LET e == IF c.pos[i] # -1 THEN Rm(c, i) ELSE c
    IN  FoldSet(LAMBDA s, x : SeqAdd(x, i, s), PosSet(e, i, a.pos), a.seqs)

PlaceGroup(m, slot, group) ==
    [m EXCEPT !.cells[slot.strm] =
        FoldLeft(LAMBDA c, k : Place(c, slot.idxs[k], group[k]), @,
                 [k \in 1 .. Len(group) |-> k])]

\* the positions of s that the slots overwrite
Overwritten(m, sinfo, s) ==
    {m.cells[sinfo[g].strm].pos[i] : <<g, i>> \in
        {x \in (1 .. Len(sinfo)) \X Cells :
            /\ x[2] \in ToSet(sinfo[x[1]].idxs)
            /\ m.cells[sinfo[x[1]].strm].seq[x[2]] = {s}}}

NoPurge(m, s, over) == m

Purge(m, s, over) ==
    LET pmin == SeqPosMin(m.cells[StreamOf(s)], s)
    IN  IF over # {} /\ pmin <= Max(over)
        THEN SeqRmRange(m, s, <<pmin, Max(over) + 1>>) ELSE m

\* the next search starts behind the last cell taken
HeadAfter(idxs) == Last(idxs) + 1

ApplyUbatch(m, sinfo, ub) ==
    LET placed == FoldLeft(LAMBDA x, g : PlaceGroup(x, sinfo[g], ub[g]), m,
                           [g \in 1 .. Len(ub) |-> g])
        purged == FoldSet(LAMBDA s, x : Purge(x, s, Overwritten(m, sinfo, s)),
                          placed, Seqs)
    IN  [purged EXCEPT !.heads = [st \in Streams |->
            IF \E g \in 1 .. Len(sinfo) : sinfo[g].strm = st
            THEN LET g == CHOOSE g \in 1 .. Len(sinfo) : sinfo[g].strm = st
                 IN  HeadAfter(sinfo[g].idxs)
            ELSE @[st]]]

(***************************************************************************)
(* prepare: place the ubatches one after the other to see where they fit,  *)
(* then put back, last first, the cells they took and the heads.  Of the   *)
(* old heads it takes the one at the index of the group in the slot.       *)
(***************************************************************************)
TryUbatch(x, ub) ==
    LET sl == FindSlot(x.m, ub)
    IN  IF ~x.ok \/ sl = <<>> THEN [x EXCEPT !.ok = FALSE]
        ELSE [ok     |-> TRUE,
              m      |-> ApplyUbatch(x.m, sl, ub),
              states |-> Append(x.states, [sinfo |-> sl, old |-> x.m])]

RestoreGroup(m, z, g) ==
    LET sl == z.sinfo[g]
        old == z.old.cells[sl.strm]
    IN  [m EXCEPT !.cells[sl.strm] = FoldLeft(LAMBDA c, i :
                      Restore(c, i, old.pos[i], old.seq[i]), @, sl.idxs),
                  !.heads[sl.strm] = z.old.heads[g - 1]]

RestoreState(m, z) ==
    FoldLeft(LAMBDA x, g : RestoreGroup(x, z, g), m, [g \in 1 .. Len(z.sinfo) |-> g])

Prepare(m, ubs) ==
    LET x == FoldLeft(TryUbatch, [ok |-> TRUE, m |-> m, states |-> <<>>], ubs)
    IN  [ok     |-> x.ok,
         m      |-> FoldLeft(RestoreState, x.m, Reverse(x.states)),
         sinfos |-> [k \in 1 .. Len(x.states) |-> x.states[k].sinfo]]

(***************************************************************************)
(* The batch as llama_batch_allocr::init lets it through: the positions of *)
(* a sequence go on where the memory ends, and coupled sequences have the  *)
(* same first and last position.                                           *)
(***************************************************************************)
NextPos(s) == SeqPosMax(v_cells[StreamOf(s)], s) + 1

Tokens(b) == {b[x[1]][x[2]][x[3]] : x \in
                {y \in (1 .. Len(b)) \X (1 .. 2) \X (1 .. 4) :
                    y[2] <= Len(b[y[1]]) /\ y[3] <= Len(b[y[1]][y[2]])}}

BatchInit(b) ==
    \A a \in Tokens(b) :
        /\ NextPos(Min(a.seqs)) + a.off <= LastPos      \* bound
        /\ \A s, q \in a.seqs : LET c == v_cells[StreamOf(s)] IN
             /\ SeqPosMin(c, s) = SeqPosMin(c, q)
             /\ SeqPosMax(c, s) = SeqPosMax(c, q)

Positioned(b) ==
    [u \in 1 .. Len(b) |-> [g \in 1 .. Len(b[u]) |-> [k \in 1 .. Len(b[u][g]) |->
        [seqs |-> b[u][g][k].seqs, tok |-> Min(b[u][g][k].seqs),
         pos |-> NextPos(Min(b[u][g][k].seqs)) + b[u][g][k].off]]]]

\* the graph of an ubatch writes the K data of its cells
Write(m, sinfo, ub, ok) ==
    LET put(d, g) == [d EXCEPT ![sinfo[g].strm] =
            [i \in Cells |-> IF i \notin ToSet(sinfo[g].idxs) THEN @[i]
                ELSE LET a == ub[g][CHOOSE k \in 1 .. Len(ub[g]) : sinfo[g].idxs[k] = i]
                     IN  [tok |-> IF ok THEN a.tok ELSE Garbage, rope |-> a.pos]]]
    IN  [m EXCEPT !.data = FoldLeft(put, @, [g \in 1 .. Len(ub) |-> g])]

\* after an ubatch that fails, remove its positions: of each token, for the
\* first of its sequences
Cleanup(m, ub) ==
    LET first(s) == {ub[x[1]][x[2]].pos : x \in
                       {y \in (1 .. Len(ub)) \X (1 .. 4) :
                          /\ y[2] <= Len(ub[y[1]])
                          /\ Min(ub[y[1]][y[2]].seqs) = s}}
    IN  FoldSet(LAMBDA s, x : IF first(s) = {} THEN x
                              ELSE SeqRmRange(x, s, <<Min(first(s)), -1>>), m, Seqs)

(***************************************************************************)
(* llama_context::decode: update, prepare (once more after a second update *)
(* if shifts are still pending), then ubatch by ubatch; the first k are    *)
(* computed and, if there are more, the next one fails.  ok tells whether  *)
(* a K-shift succeeds.                                                     *)
(***************************************************************************)
Slots(ubs, ok) ==
    LET p == Prepare(Update(Mem, sc_info, ok), ubs)
    IN  IF p.ok \/ ~AnyShift(p.m) THEN p ELSE Prepare(Update(p.m, <<>>, ok), ubs)

Decode(b, k, ok) ==
    /\ BatchInit(b)
    /\ k < Len(b) => "abort" \in Calls
    /\ ~ok => "shift_fails" \in Calls
    /\ \E ubs \in {Positioned(b)} : \E p \in {Slots(ubs, ok)} :
         LET apply(m, u, good) ==
                 Write(ApplyUbatch(m, p.sinfos[u], ubs[u]), p.sinfos[u], ubs[u], good)
             done == FoldLeft(LAMBDA m, u : apply(m, u, TRUE), p.m, [u \in 1 .. k |-> u])
         IN  \/ ~p.ok /\ k = Len(b) /\ Commit(<<"decode", b, k, 1>>, p.m, <<>>, 1)
             \/ p.ok /\ k = Len(b) /\ Commit(<<"decode", b, k, 0>>, done, <<>>, 0)
             \/ p.ok /\ k < Len(b)
                /\ Commit(<<"decode", b, k, 2>>,
                          Cleanup(apply(done, k + 1, FALSE), ubs[k + 1]), <<>>, 2)

-----------------------------------------------------------------------------
(***************************************************************************)
(* state_write: per stream, a row for each cell in use, or in use by s, in *)
(* the order of the cells.  Copies and shifts that wait are not made.      *)
(***************************************************************************)
RowsOf(st, s) ==
    LET c == v_cells[st]
        mine == {i \in Cells : c.pos[i] # -1 /\ (s = -1 \/ s \in c.seq[i])}
        cells == SetToSortSeq(mine, <)
    IN  [k \in 1 .. Len(cells) |->
           [pos |-> c.pos[cells[k]], data |-> data[st][cells[k]],
            seqs |-> IF s = -1 THEN c.seq[cells[k]] ELSE {s}]]

StateWrite(s) ==
    /\ IF s = -1 THEN "save_all" \in Calls ELSE "save" \in Calls
    /\ saved' = [seq |-> s, rows |-> [st \in Streams |-> RowsOf(st, s)]]
    /\ ret' = NoRet /\ call' = <<1 - call[1], <<"save", s>>>>
    /\ UNCHANGED <<inst, v_cells, v_heads, data, sc_info>>

\* the data of the rows is read into the cells from head on
ReadData(m, st, head, rows) ==
    [m EXCEPT !.data[st] = [i \in Cells |->
        IF i \in head .. head + Len(rows) - 1 THEN rows[i - head + 1].data ELSE @[i]]]

(***************************************************************************)
(* state_read for one sequence: t is emptied and its cells are found again *)
(* by a contiguous search, or t stays empty and the call fails.  The head  *)
(* is left at the first of the cells.                                      *)
(***************************************************************************)
StateReadSeq(t) ==
    LET rows == saved.rows[StreamOf(saved.seq)]
        st == StreamOf(t)
        m == SeqRmRange(Mem, t, <<-1, -1>>)
        idxs == FindRun(m.cells[st], m.heads[st], Len(rows))
        group == [k \in 1 .. Len(rows) |-> [seqs |-> {t}, pos |-> rows[k].pos]]
        put == ApplyUbatch(m, <<[strm |-> st, idxs |-> idxs]>>, <<group>>)
    IN  /\ saved.seq \in Seqs
        /\ \/ rows = <<>> /\ Commit(<<"load", t, TRUE>>, Mem, sc_info, NoRet)
           \/ /\ rows # <<>> /\ idxs = <<>>
              /\ Commit(<<"load", t, FALSE>>, m, sc_info, NoRet)
           \/ /\ rows # <<>> /\ idxs # <<>>
              /\ Commit(<<"load", t, TRUE>>,
                        ReadData([put EXCEPT !.heads[st] = idxs[1]], st, idxs[1], rows),
                        sc_info, NoRet)

(***************************************************************************)
(* state_read of the whole cache: for each stream with rows, all streams   *)
(* are cleared, then the rows take the cells from 0 on.                    *)
(***************************************************************************)
ReadStream(m, st, rows) ==
    LET fresh == [cells |-> [x \in Streams |-> NoCells],
                  heads |-> [x \in Streams |-> 0],
                  data  |-> [x \in Streams |-> [i \in Cells |-> Blank]]]
        put == [fresh EXCEPT !.cells[st] = FoldLeft(LAMBDA c, k :
                   PlaceOver(c, k - 1, rows[k]), @, [k \in 1 .. Len(rows) |-> k])]
    IN  IF rows = <<>> THEN m ELSE ReadData(put, st, 0, rows)

StateReadAll ==
    /\ saved.seq = -1
    /\ Commit(<<"load", -1, TRUE>>,
              FoldLeft(LAMBDA m, st : ReadStream(m, st, saved.rows[st]), Mem,
                       SetToSortSeq(Streams, <)),
              sc_info, NoRet)

Next ==
    \/ Clear
    \/ \E s \in Seqs \cup {-1} : StateWrite(s)
    \/ \E t \in Seqs : StateReadSeq(t)
    \/ StateReadAll
    \/ \E r \in Ranges : SeqRmAny(r)
    \/ \E s \in Seqs : SeqKeepCall(s)
    \/ \E s \in Seqs, r \in Ranges : SeqRmCall(s, r)
    \/ \E s, t \in Seqs, r \in Ranges : SeqCpShare(s, t, r) \/ SeqCpStream(s, t, r)
    \/ \E s \in Seqs, r \in Ranges, n \in Deltas : SeqAddCall(s, r, n)
    \/ \E s \in Seqs, r \in Ranges, n \in 2 .. LastPos + 1 : SeqDivCall(s, r, n)
    \/ \E b \in Batches, ok \in BOOLEAN : \E k \in 0 .. Len(b) :
          Decode(b, k, ok)

Spec == Init /\ [][Next]_vars

-----------------------------------------------------------------------------
TypeOK ==
    /\ \A st \in Streams : IsCells(v_cells[st]) /\ v_heads[st] \in 0 .. Size
    /\ inst \in Instances
    /\ data \in [Streams -> [Cells -> [tok : Seqs \cup {Garbage}, rope : Int]]]
    /\ sc_info \in Seq(Streams \X Streams) /\ ret \in {NoRet, 0, 1, 2}
    /\ call[1] \in {0, 1} /\ saved.seq \in Seqs \cup {-1, -2}
    /\ \A st \in Streams : Len(saved.rows[st]) <= Size

(***************************************************************************)
(* Whatever is called in whatever order, the cells' own bookkeeping stays  *)
(* exact: used cells, the counts behind seq_pos_min and seq_pos_max, and   *)
(* has_shift, and every variable keeps its type.  The cache must call the  *)
(* methods of llama_kv_cells only as their comments allow.                 *)
(***************************************************************************)
CellsExact ==
    /\ TypeOK
    /\ \A st \in Streams : /\ UsedExact(v_cells[st]) /\ CountsExact(v_cells[st])
                           /\ ShiftAnnounced(v_cells[st])

(***************************************************************************)
(* The promise of the API, with the data of a cell as it will be once the  *)
(* copies and shifts that wait have been made.                             *)
(***************************************************************************)
EntryOf(x, settled) ==
    LET c == v_cells[x[1]]
        d == settled[x[1]][x[2]]
    IN  [seqs |-> c.seq[x[2]], pos |-> c.pos[x[2]],
         tok |-> IF d.rope + c.shift[x[2]] = c.pos[x[2]] THEN d.tok ELSE Garbage]

Contents ==
    LET live == {x \in Streams \X Cells : v_cells[x[1]].pos[x[2]] # -1}
        settled == Copied(data, sc_info)
        entry == [x \in live |-> EntryOf(x, settled)]
    IN  [e \in Range(entry) |-> Cardinality({x \in live : entry[x] = e})]

\* a state that was saved is the bag of its rows
SavedBag ==
    LET rows == {x \in Streams \X (1 .. Size) : x[2] <= Len(saved.rows[x[1]])}
        row(x) == saved.rows[x[1]][x[2]]
        entry == [x \in rows |->
                    [seqs |-> row(x).seqs, pos |-> row(x).pos,
                     tok |-> IF row(x).data.rope = row(x).pos THEN row(x).data.tok ELSE Garbage]]
    IN  [e \in Range(entry) |-> Cardinality({x \in rows : entry[x] = e})]

Store == INSTANCE KVStore WITH store <- Contents,
                               saved <- [seq |-> saved.seq, bag |-> SavedBag]

(***************************************************************************)
(* The cache implements the bag of tokens of KVStore, call by call: none   *)
(* has another effect than the one promised for it, so none loses,         *)
(* duplicates or mixes up tokens, a batch without room leaves no trace, an *)
(* aborted one leaves exactly its computed ubatches, and the data found    *)
(* under an entry is the data of its token turned to its position.         *)
(***************************************************************************)
StoreRefined == Store!Spec

(***************************************************************************)
(* After a decode that succeeded, the attention has seen every token at    *)
(* its position: no shift or copy was still waiting.                       *)
(***************************************************************************)
DecodedIsSettled ==
    ret = 0 => \A st \in Streams, i \in Cells : v_cells[st].pos[i] # -1 =>
                   /\ data[st][i].rope = v_cells[st].pos[i]
                   /\ data[st][i].tok # Garbage

(***************************************************************************)
(* With a sliding window, and callers that only remove tails: every        *)
(* position between the first and the last of a sequence is cached, so     *)
(* seq_pos_min tells how far a caller may go back (the comment in          *)
(* apply_ubatch).                                                          *)
(***************************************************************************)
NoHoles ==
    NSwa > 0 => \A s \in Seqs : LET c == v_cells[StreamOf(s)] IN
        PosOf(c, s) = SeqPosMin(c, s) .. SeqPosMax(c, s) \ {-1}

(***************************************************************************)
(* A decode, whether it succeeds, finds no room or is aborted, drops no    *)
(* position that the window of the sequence's next token still covers, and *)
(* one that finds no room leaves no position of its batch behind.          *)
(***************************************************************************)
DecodeKeepsWindow ==
    [][ret' # NoRet =>
         \A s \in Seqs :
            LET old == PosOf(v_cells[StreamOf(s)], s)
                new == PosOf(v_cells[StreamOf(s)], s)'
            IN  /\ \A p \in old : ~MaskedSwa(p, NextPos(s)') => p \in new
                /\ ret' = 1 => new \subseteq old]_vars

(***************************************************************************)
(* llama_decode returning 1 (no room) leaves the contents as they were.    *)
(***************************************************************************)
RefusedLeavesNoTrace == [][ret' = 1 => Contents' = Contents]_vars
=============================================================================
