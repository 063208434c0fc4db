------------------------------ MODULE KVProofs ------------------------------
(***************************************************************************)
(* Proofs about the cells of the KV cache.                                 *)
(* The bookkeeping of llama_kv_cells is exact after any sequence of calls, *)
(* for every number of cells, sequences and positions.                     *)
(* The search for a slot among them: find_slot is right for every number   *)
(* of cells, every set of usable cells and every starting point.  It stays *)
(* in the buffer, what it finds is the first slot, and it gives up only    *)
(* when there is none.                                                     *)
(***************************************************************************)
EXTENDS KVCells, FindSlot, SeqOpsProofs, FiniteSetTheorems

-----------------------------------------------------------------------------
(***************************************************************************)
(* The cells                                                               *)
(***************************************************************************)
Good(c) == IsCells(c) /\ UsedExact(c) /\ CountsExact(c) /\ ShiftAnnounced(c)

\* whether cell i counts for sequence s at position p
Has(c, i, s, p) == IF s \in c.seq[i] /\ c.pos[i] = p THEN 1 ELSE 0

\* c and d agree on the cells other than i
SameBut(c, d, i) ==
    \A j \in Cells \ {i} : d.seq[j] = c.seq[j] /\ d.pos[j] = c.pos[j]

(***************************************************************************)
(* When only cell i changes, the number of cells of s at p changes by what *)
(* cell i contributed before and after.                                    *)
(***************************************************************************)
LEMMA OneCellChanges ==
    ASSUME NEW c, NEW d, NEW i \in Cells, NEW s, NEW p,
           SameBut(c, d, i)
    PROVE  /\ Cardinality(CellsAt(c, s, p)) \in Nat
           /\ Cardinality(CellsAt(d, s, p)) \in Nat
           /\ Cardinality(CellsAt(d, s, p)) =
                Cardinality(CellsAt(c, s, p)) - Has(c, i, s, p) + Has(d, i, s, p)
<1> DEFINE A == CellsAt(c, s, p)
           B == CellsAt(d, s, p)
           R == A \ {i}
<1>1. R = B \ {i}
  BY DEF CellsAt, SameBut
<1>2. IsFiniteSet(A) /\ IsFiniteSet(B) /\ IsFiniteSet(R)
  BY CellsAssumption, FS_Subset DEF CellsAt
<1>3. Cardinality(A) \in Nat /\ Cardinality(B) \in Nat /\ Cardinality(R) \in Nat
  BY <1>2, FS_CardinalityType
<1>4. Cardinality(A) = Cardinality(R) + Has(c, i, s, p)
  <2>1. CASE i \in A
    <3>1. Cardinality(R) = Cardinality(A) - 1
      BY <1>2, <2>1, FS_RemoveElement
    <3>2. Has(c, i, s, p) = 1
      BY <2>1 DEF Has, CellsAt
    <3> QED BY <3>1, <3>2, <1>3
  <2>2. CASE i \notin A
    <3>1. R = A
      BY <2>2
    <3>2. Has(c, i, s, p) = 0
      BY <2>2 DEF Has, CellsAt
    <3> QED BY <3>1, <3>2, <1>3
  <2> QED BY <2>1, <2>2
<1>5. Cardinality(B) = Cardinality(R) + Has(d, i, s, p)
  <2>1. CASE i \in B
    <3>1. Cardinality(R) = Cardinality(B) - 1
      BY <1>1, <1>2, <2>1, FS_RemoveElement
    <3>2. Has(d, i, s, p) = 1
      BY <2>1 DEF Has, CellsAt
    <3> QED BY <3>1, <3>2, <1>3
  <2>2. CASE i \notin B
    <3>1. R = B
      BY <1>1, <2>2
    <3>2. Has(d, i, s, p) = 0
      BY <2>2 DEF Has, CellsAt
    <3> QED BY <3>1, <3>2, <1>3
  <2> QED BY <2>1, <2>2
<1>6. Has(c, i, s, p) \in Int /\ Has(d, i, s, p) \in Int
  BY DEF Has
<1> QED BY <1>3, <1>4, <1>5, <1>6

(***************************************************************************)
(* A call that changes only cell i keeps the counts exact when it adds to  *)
(* seq_pos what the cell contributes after it and takes away what it       *)
(* contributed before.                                                     *)
(***************************************************************************)
LEMMA CountsFollow ==
    ASSUME NEW c, NEW d, NEW i \in Cells, CountsExact(c),
           SameBut(c, d, i),
           \A s \in Seqs, p \in Pos :
               d.seq_pos[s][p] =
                   c.seq_pos[s][p] - Has(c, i, s, p) + Has(d, i, s, p)
    PROVE  /\ CountsExact(d)
           /\ \A s \in Seqs, p \in Pos : d.seq_pos[s][p] \in Nat
<1> SUFFICES ASSUME NEW s \in Seqs, NEW p \in Pos
             PROVE  /\ d.seq_pos[s][p] = Cardinality(CellsAt(d, s, p))
                    /\ d.seq_pos[s][p] \in Nat
  BY DEF CountsExact
<1>1. c.seq_pos[s][p] = Cardinality(CellsAt(c, s, p))
  BY DEF CountsExact
<1>2. d.seq_pos[s][p] = c.seq_pos[s][p] - Has(c, i, s, p) + Has(d, i, s, p)
  OBVIOUS
<1>3. /\ Cardinality(CellsAt(d, s, p)) \in Nat
      /\ Cardinality(CellsAt(d, s, p)) =
           Cardinality(CellsAt(c, s, p)) - Has(c, i, s, p) + Has(d, i, s, p)
  BY OneCellChanges
<1> QED BY <1>1, <1>2, <1>3

\* a record of the fields, the counts not yet known to be natural
Shaped(d) ==
    d \in [pos : [Cells -> Pos \cup {-1}], shift : [Cells -> Int],
           seq : [Cells -> SUBSET Seqs], used : SUBSET Cells,
           seq_pos : [Seqs -> [Pos -> Int]], has_shift : BOOLEAN]

(***************************************************************************)
(* A method that changes one cell gives it a position p (-1: none), a set  *)
(* of sequences S and a shift sh.                                          *)
(***************************************************************************)
Updates(c, d, i, p, S, sh) ==
    /\ Shaped(d)
    /\ d.pos   = [c.pos EXCEPT ![i] = p]
    /\ d.shift = [c.shift EXCEPT ![i] = sh]
    /\ d.seq   = [c.seq EXCEPT ![i] = S]
    /\ d.used  = IF p = -1 THEN c.used \ {i} ELSE c.used \cup {i}
    /\ p = -1 => S = {} /\ sh = 0
    /\ c.has_shift \/ sh # 0 => d.has_shift

\* sp counts what c.seq_pos counts, with cell i now at p for the sequences S
Follows(sp, c, i, p, S) ==
    /\ sp \in [Seqs -> [Pos -> Int]]
    /\ \A s \in Seqs, q \in Pos :
         sp[s][q] = c.seq_pos[s][q] - (IF s \in c.seq[i] /\ q = c.pos[i] THEN 1 ELSE 0)
                                    + (IF s \in S /\ q = p THEN 1 ELSE 0)

(***************************************************************************)
(* Such a method keeps the bookkeeping exact.                              *)
(***************************************************************************)
LEMMA UpdateIsGood ==
    ASSUME NEW c, Good(c), NEW d, NEW i \in Cells, NEW p, NEW S, NEW sh,
           Updates(c, d, i, p, S, sh),
           Follows(d.seq_pos, c, i, p, S)
    PROVE  Good(d)
<1>1. /\ d.pos   = [c.pos EXCEPT ![i] = p]
      /\ d.shift = [c.shift EXCEPT ![i] = sh]
      /\ d.seq   = [c.seq EXCEPT ![i] = S]
      /\ d.used  = IF p = -1 THEN c.used \ {i} ELSE c.used \cup {i}
      /\ p = -1 => S = {} /\ sh = 0
      /\ c.has_shift \/ sh # 0 => d.has_shift
  BY DEF Updates
<1>2. /\ c.pos \in [Cells -> Pos \cup {-1}]
      /\ c.shift \in [Cells -> Int]
      /\ c.seq \in [Cells -> SUBSET Seqs]
      /\ c.used \subseteq Cells
  BY DEF Good, IsCells
<1>3. SameBut(c, d, i)
  BY <1>1, <1>2 DEF SameBut
<1>4. \A s \in Seqs, q \in Pos :
        d.seq_pos[s][q] = c.seq_pos[s][q] - Has(c, i, s, q) + Has(d, i, s, q)
  <2> SUFFICES ASSUME NEW s \in Seqs, NEW q \in Pos
               PROVE  d.seq_pos[s][q] =
                        c.seq_pos[s][q] - Has(c, i, s, q) + Has(d, i, s, q)
    OBVIOUS
  <2>1. Has(d, i, s, q) = IF s \in S /\ q = p THEN 1 ELSE 0
    BY <1>1, <1>2 DEF Has
  <2>2. Has(c, i, s, q) = IF s \in c.seq[i] /\ q = c.pos[i] THEN 1 ELSE 0
    BY DEF Has
  <2> QED BY <2>1, <2>2 DEF Follows
<1>5. CountsExact(d) /\ \A s \in Seqs, q \in Pos : d.seq_pos[s][q] \in Nat
  BY <1>3, <1>4, CountsFollow DEF Good
<1>6. IsCells(d)
  <2>1. d.seq_pos \in [Seqs -> [Pos -> Nat]]
    BY <1>5 DEF Follows
  <2> QED BY <2>1 DEF IsCells, Updates, Shaped
<1>7. UsedExact(d)
  BY <1>1, <1>2, d.pos \in [Cells -> Pos \cup {-1}] DEF Good, UsedExact, Pos, Updates, Shaped
<1>8. ShiftAnnounced(d)
  BY <1>1, <1>2 DEF Good, ShiftAnnounced
<1> QED BY <1>5, <1>6, <1>7, <1>8 DEF Good

-----------------------------------------------------------------------------
(***************************************************************************)
(* Counting cell i out, and in again elsewhere, follows the cell.          *)
(***************************************************************************)
LEMMA CountsOut ==
    ASSUME NEW c, Good(c), NEW i \in Cells, NEW p
    PROVE  Follows(SeqPosRm(c.seq_pos, c.seq[i], c.pos[i]), c, i, p, {})
BY DEF Follows, SeqPosRm, Bumped, Good, IsCells

LEMMA CountsOutIn ==
    ASSUME NEW c, Good(c), NEW i \in Cells, NEW p, NEW S
    PROVE  Follows(SeqPosAdd(SeqPosRm(c.seq_pos, c.seq[i], c.pos[i]), S, p),
                   c, i, p, S)
BY DEF Follows, SeqPosAdd, SeqPosRm, Bumped, Good, IsCells

(***************************************************************************)
(* The methods, one by one: each keeps the bookkeeping exact when called   *)
(* as its comment demands.                                                 *)
(***************************************************************************)
LEMMA NoCellsGood == Good(NoCells)
<1>1. IsCells(NoCells) /\ UsedExact(NoCells) /\ ShiftAnnounced(NoCells)
  BY DEF NoCells, IsCells, UsedExact, ShiftAnnounced
<1>2. CountsExact(NoCells)
  <2> SUFFICES ASSUME NEW s \in Seqs, NEW p \in Pos
               PROVE  NoCells.seq_pos[s][p] = Cardinality(CellsAt(NoCells, s, p))
    BY DEF CountsExact
  <2>1. CellsAt(NoCells, s, p) = {}
    BY DEF CellsAt, NoCells
  <2> QED BY <2>1, FS_EmptySet, Zenon DEF NoCells
<1> QED BY <1>1, <1>2 DEF Good

LEMMA RmGood ==
    ASSUME NEW c, Good(c), NEW i \in Cells
    PROVE  Good(Rm(c, i))
<1> DEFINE d == Rm(c, i)
           sp == SeqPosRm(c.seq_pos, c.seq[i], c.pos[i])
<1>1. Follows(sp, c, i, -1, {})
  BY CountsOut
<1>2. /\ d.pos = [c.pos EXCEPT ![i] = -1] /\ d.shift = [c.shift EXCEPT ![i] = 0]
      /\ d.seq = [c.seq EXCEPT ![i] = {}] /\ d.used = c.used \ {i}
      /\ d.seq_pos = sp /\ d.has_shift = c.has_shift
  BY DEF Rm, Good, IsCells
<1>3. Shaped(d)
  <2> DEFINE q == [c.seq EXCEPT ![i] = {}]
             o == [c.pos EXCEPT ![i] = -1]
             h == [c.shift EXCEPT ![i] = 0]
             u == c.used \ {i}
  <2>1. d = [c EXCEPT !.seq_pos = sp, !.seq = q, !.pos = o, !.shift = h, !.used = u]
    BY DEF Rm
  <2>2. /\ sp \in [Seqs -> [Pos -> Int]] /\ q \in [Cells -> SUBSET Seqs]
        /\ o \in [Cells -> Pos \cup {-1}] /\ h \in [Cells -> Int]
        /\ u \in SUBSET Cells
    BY <1>1 DEF Follows, Good, IsCells
  <2> HIDE DEF sp, q, o, h, u, d
  <2> QED BY <2>1, <2>2, Zenon DEF Shaped, Good, IsCells
<1>4. Updates(c, d, i, -1, {}, 0)
  BY <1>2, <1>3 DEF Updates
<1> QED BY <1>1, <1>2, <1>4, UpdateIsGood

\* a cell with other sequences, and the counts sp
Reseq(c, i, S, sp) == [c EXCEPT !.seq_pos = sp, !.seq = [@ EXCEPT ![i] = S]]

\* d is c, but for the sequences S of cell i and the counts sp
IsReseq(c, d, i, S, sp) ==
    /\ Shaped(d) /\ d.seq_pos = sp /\ d.seq = [c.seq EXCEPT ![i] = S]
    /\ d.pos = c.pos /\ d.shift = c.shift /\ d.used = c.used
    /\ d.has_shift = c.has_shift

LEMMA ReseqFields ==
    ASSUME NEW c, Good(c), NEW i \in Cells, NEW S \in SUBSET Seqs,
           NEW sp \in [Seqs -> [Pos -> Int]]
    PROVE  IsReseq(c, Reseq(c, i, S, sp), i, S, sp)
<1> DEFINE d == Reseq(c, i, S, sp)
           q == [c.seq EXCEPT ![i] = S]
<1>1. d = [c EXCEPT !.seq_pos = sp, !.seq = q]
  BY DEF Reseq
<1>2. q \in [Cells -> SUBSET Seqs]
  BY DEF Good, IsCells
<1> HIDE DEF q, d
<1>3. Shaped(d) /\ d.seq_pos = sp /\ d.seq = q
  BY <1>1, <1>2, Zenon DEF Shaped, Good, IsCells
<1>4. /\ d.pos = c.pos /\ d.shift = c.shift /\ d.used = c.used
      /\ d.has_shift = c.has_shift
  BY <1>1, <1>2 DEF Good, IsCells
<1> QED BY <1>3, <1>4 DEF q, d, IsReseq

\* a used cell of c given other sequences, not none
LEMMA ReseqGood ==
    ASSUME NEW c, Good(c), NEW i \in Cells, NEW S \in SUBSET Seqs, NEW sp,
           c.pos[i] # -1, Follows(sp, c, i, c.pos[i], S)
    PROVE  Good(Reseq(c, i, S, sp))
<1> DEFINE d == Reseq(c, i, S, sp)
<1>1. sp \in [Seqs -> [Pos -> Int]]
  BY DEF Follows
<1>2. IsReseq(c, d, i, S, sp)
  BY <1>1, ReseqFields
<1>3. /\ c.pos = [c.pos EXCEPT ![i] = c.pos[i]]
      /\ c.shift = [c.shift EXCEPT ![i] = c.shift[i]]
      /\ c.used = c.used \cup {i}
      /\ c.shift[i] # 0 => c.has_shift
  BY DEF Good, IsCells, UsedExact, ShiftAnnounced
<1>4. Updates(c, d, i, c.pos[i], S, c.shift[i])
  BY <1>2, <1>3 DEF Updates, IsReseq
<1>5. Follows(d.seq_pos, c, i, c.pos[i], S)
  BY <1>2 DEF IsReseq
<1> QED BY <1>4, <1>5, UpdateIsGood

LEMMA SeqAddGood ==
    ASSUME NEW c, Good(c), NEW i \in Cells, NEW s \in Seqs,
           c.pos[i] # -1, s \notin c.seq[i]
    PROVE  Good(SeqAdd(c, i, s))
<1> DEFINE S  == c.seq[i] \cup {s}
           sp == SeqPosAdd(c.seq_pos, {s}, c.pos[i])
<1>1. Follows(sp, c, i, c.pos[i], S) /\ S \in SUBSET Seqs
  BY DEF Follows, SeqPosAdd, Bumped, Good, IsCells
<1>2. SeqAdd(c, i, s) = Reseq(c, i, S, sp)
  BY DEF SeqAdd, Reseq
<1> QED BY <1>1, <1>2, ReseqGood

LEMMA SeqKeepGood ==
    ASSUME NEW c, Good(c), NEW i \in Cells, NEW s \in Seqs
    PROVE  Good(SeqKeep(c, i, s))
<1>1. CASE s \in c.seq[i]
  <2> DEFINE sp == SeqPosAdd(SeqPosRm(c.seq_pos, c.seq[i], c.pos[i]), {s}, c.pos[i])
  <2>1. Follows(sp, c, i, c.pos[i], {s})
    BY CountsOutIn
  <2>2. SeqKeep(c, i, s) = Reseq(c, i, {s}, sp)
    BY <1>1 DEF SeqKeep, Reseq
  <2>3. c.pos[i] # -1
    BY <1>1 DEF Good, UsedExact
  <2> QED BY <2>1, <2>2, <2>3, ReseqGood
<1>2. CASE s \notin c.seq[i]
  BY <1>2, RmGood DEF SeqKeep
<1> QED BY <1>1, <1>2

LEMMA SeqRmGood ==
    ASSUME NEW c, Good(c), NEW i \in Cells, NEW s \in Seqs,
           c.pos[i] # -1, s \in c.seq[i]
    PROVE  Good(SeqRm(c, i, s))
<1> DEFINE S  == c.seq[i] \ {s}
           sp == SeqPosRm(c.seq_pos, {s}, c.pos[i])
           e  == Reseq(c, i, S, sp)
<1>1. Follows(sp, c, i, c.pos[i], S) /\ S \in SUBSET Seqs
  BY DEF Follows, SeqPosRm, Bumped, Good, IsCells
<1>2. IsReseq(c, e, i, S, sp)
  BY <1>1, ReseqFields, Zenon DEF Follows
<1>3. e.seq[i] = S
  BY <1>2 DEF IsReseq, Good, IsCells
<1>4. CASE S # {}
  <2>1. SeqRm(c, i, s) = e
    BY <1>3, <1>4 DEF SeqRm, Reseq
  <2> QED BY <1>1, <2>1, ReseqGood
<1>5. CASE S = {}
  <2> DEFINE d == SeqRm(c, i, s)
             o == [e.pos EXCEPT ![i] = -1]
             h == [e.shift EXCEPT ![i] = 0]
             u == e.used \ {i}
  <2>1. d = [e EXCEPT !.pos = o, !.shift = h, !.used = u]
    BY <1>3, <1>5 DEF SeqRm, Reseq
  <2>2. /\ o \in [Cells -> Pos \cup {-1}] /\ h \in [Cells -> Int]
        /\ u \in SUBSET Cells
    <3>1. /\ e.pos \in [Cells -> Pos \cup {-1}] /\ e.shift \in [Cells -> Int]
          /\ e.used \in SUBSET Cells
      BY <1>2, Zenon DEF IsReseq, Shaped
    <3> HIDE DEF e
    <3> QED BY <3>1
  <2>3. Follows(sp, c, i, -1, {})
    BY <1>1, <1>5, Zenon DEF Follows, Pos, Good, IsCells
  <2> HIDE DEF o, h, u, d, e
  <2>4. /\ Shaped(d) /\ d.seq_pos = sp /\ d.seq = e.seq
        /\ d.pos = o /\ d.shift = h /\ d.used = u /\ d.has_shift = c.has_shift
    BY <1>2, <2>1, <2>2, Zenon DEF Shaped, IsReseq
  <2>5. Updates(c, d, i, -1, {}, 0)
    BY <1>2, <1>5, <2>4 DEF Updates, IsReseq, o, h, u
  <2>6. Good(d)
    BY <2>3, <2>4, <2>5, UpdateIsGood
  <2> QED BY <2>6 DEF d
<1> QED BY <1>4, <1>5

\* a cell at position p, with the shift sh and the counts sp
Moved(c, i, p, sh, sp) ==
    [c EXCEPT !.seq_pos = sp, !.pos = [@ EXCEPT ![i] = p],
              !.shift = [@ EXCEPT ![i] = sh], !.has_shift = TRUE]

LEMMA MovedGood ==
    ASSUME NEW c, Good(c), NEW i \in Cells, NEW p \in Pos, NEW sh \in Int,
           NEW sp, c.pos[i] # -1, Follows(sp, c, i, p, c.seq[i])
    PROVE  Good(Moved(c, i, p, sh, sp))
<1> DEFINE o == [c.pos EXCEPT ![i] = p]
           h == [c.shift EXCEPT ![i] = sh]
           d == [c EXCEPT !.seq_pos = sp, !.pos = o, !.shift = h, !.has_shift = TRUE]
<1>1. /\ sp \in [Seqs -> [Pos -> Int]] /\ o \in [Cells -> Pos \cup {-1}]
      /\ h \in [Cells -> Int]
  BY DEF Follows, Good, IsCells
<1>2. /\ c.seq = [c.seq EXCEPT ![i] = c.seq[i]] /\ c.used = c.used \cup {i}
  BY DEF Good, IsCells, UsedExact
<1>3. Shaped(d)
  <2> HIDE DEF o, h
  <2> QED BY <1>1, Zenon DEF Shaped, Good, IsCells
<1>4. /\ d.seq_pos = sp /\ d.pos = o /\ d.shift = h /\ d.has_shift = TRUE
      /\ d.seq = c.seq /\ d.used = c.used
  <2> HIDE DEF o, h
  <2> QED BY DEF Good, IsCells
<1> HIDE DEF d
<1>5. Updates(c, d, i, p, c.seq[i], sh)
  BY <1>2, <1>3, <1>4 DEF Updates, Pos
<1>6. Follows(d.seq_pos, c, i, p, c.seq[i])
  BY <1>4
<1>7. Good(d)
  BY <1>5, <1>6, UpdateIsGood
<1> QED BY <1>7 DEF d, Moved

LEMMA PosAddGood ==
    ASSUME NEW c, Good(c), NEW i \in Cells, NEW n \in Int,
           c.pos[i] # -1, c.pos[i] + n <= MaxPos
    PROVE  Good(PosAdd(c, i, n))
<1> DEFINE p == c.pos[i] + n
           e == SeqPosRm(c.seq_pos, c.seq[i], c.pos[i])
<1>0. p \in Int /\ MaxPos \in Nat
  BY CellsAssumption DEF Good, IsCells, Pos
<1>1. CASE p < 0
  <2> DEFINE q == [c.seq EXCEPT ![i] = {}]
             o == [c.pos EXCEPT ![i] = -1]
             h == [c.shift EXCEPT ![i] = 0]
             u == c.used \ {i}
             d == [c EXCEPT !.seq_pos = e, !.seq = q, !.pos = o, !.shift = h,
                            !.used = u, !.has_shift = TRUE]
  <2>1. PosAdd(c, i, n) = d
    BY <1>1 DEF PosAdd
  <2>2. Follows(e, c, i, -1, {})
    BY CountsOut
  <2>3. /\ e \in [Seqs -> [Pos -> Int]] /\ q \in [Cells -> SUBSET Seqs]
        /\ o \in [Cells -> Pos \cup {-1}] /\ h \in [Cells -> Int]
        /\ u \in SUBSET Cells
    BY <2>2 DEF Follows, Good, IsCells
  <2>4. /\ Shaped(d)
        /\ d.seq_pos = e /\ d.seq = q /\ d.pos = o /\ d.shift = h
        /\ d.used = u /\ d.has_shift = TRUE
    <3> HIDE DEF e, q, o, h, u
    <3> QED BY <2>3, Zenon DEF Shaped, Good, IsCells
  <2> HIDE DEF d
  <2>5. Updates(c, d, i, -1, {}, 0)
    BY <2>4 DEF Updates
  <2>6. Follows(d.seq_pos, c, i, -1, {})
    BY <2>2, <2>4
  <2> QED BY <2>1, <2>5, <2>6, UpdateIsGood
<1>2. CASE ~(p < 0)
  <2> DEFINE sp == SeqPosAdd(e, c.seq[i], p)
             sh == c.shift[i] + n
  <2>1. PosAdd(c, i, n) = Moved(c, i, p, sh, sp)
    BY <1>2 DEF PosAdd, Moved
  <2>2. Follows(sp, c, i, p, c.seq[i])
    BY CountsOutIn
  <2>3. p \in Pos /\ sh \in Int
    BY <1>0, <1>2 DEF Pos, Good, IsCells
  <2> HIDE DEF p, sh, sp
  <2> QED BY <2>1, <2>2, <2>3, MovedGood
<1> QED BY <1>1, <1>2

LEMMA PosDivGood ==
    ASSUME NEW c, Good(c), NEW i \in Cells, NEW n \in Nat, n # 0, c.pos[i] # -1
    PROVE  Good(PosDiv(c, i, n))
<1> DEFINE p  == c.pos[i] \div n
           sp == SeqPosAdd(SeqPosRm(c.seq_pos, c.seq[i], c.pos[i]), c.seq[i], p)
           sh == c.shift[i] + (c.pos[i] - p)
<1>1. PosDiv(c, i, n) = Moved(c, i, p, sh, sp)
  BY DEF PosDiv, Moved
<1>2. Follows(sp, c, i, p, c.seq[i])
  BY CountsOutIn
<1>3. p \in Pos
  <2>1. c.pos[i] \in 0 .. MaxPos /\ MaxPos \in Nat
    BY CellsAssumption DEF Good, IsCells, Pos
  <2>2. \A a \in Nat, b \in Nat : b # 0 => a \div b \in Nat /\ a \div b <= a
    OBVIOUS
  <2> QED BY <2>1, <2>2 DEF Pos
<1>4. sh \in Int
  BY <1>3 DEF Good, IsCells, Pos
<1> HIDE DEF p, sp, sh
<1> QED BY <1>1, <1>2, <1>3, <1>4, MovedGood

LEMMA PosSetGood ==
    ASSUME NEW c, Good(c), NEW i \in Cells, NEW p \in Pos,
           c.pos[i] = -1, c.seq[i] = {}
    PROVE  Good(PosSet(c, i, p))
<1> DEFINE d == PosSet(c, i, p)
           o == [c.pos EXCEPT ![i] = p]
           u == c.used \cup {i}
<1>1. d = [c EXCEPT !.pos = o, !.used = u]
  BY DEF PosSet
<1>2. o \in [Cells -> Pos \cup {-1}] /\ u \in SUBSET Cells
  BY DEF Good, IsCells
<1>3. c.seq = [c.seq EXCEPT ![i] = {}] /\ c.shift = [c.shift EXCEPT ![i] = 0]
  BY DEF Good, IsCells, UsedExact
<1>4. Follows(c.seq_pos, c, i, p, {})
  BY DEF Follows, Good, IsCells
<1>5. /\ Shaped(d)
      /\ d.pos = o /\ d.used = u /\ d.seq = c.seq /\ d.shift = c.shift
      /\ d.seq_pos = c.seq_pos /\ d.has_shift = c.has_shift
  <2> HIDE DEF o, u, d
  <2>1. c.seq_pos \in [Seqs -> [Pos -> Int]]
    BY <1>4 DEF Follows
  <2>2. Shaped(d)
    BY <1>1, <1>2, <2>1, Zenon DEF Shaped, Good, IsCells
  <2> QED BY <1>1, <2>2 DEF Good, IsCells
<1> HIDE DEF d
<1>6. Updates(c, d, i, p, {}, 0)
  BY <1>3, <1>5 DEF Updates, Pos
<1>7. Follows(d.seq_pos, c, i, p, {})
  BY <1>4, <1>5
<1>8. Good(d)
  BY <1>6, <1>7, UpdateIsGood
<1> QED BY <1>8 DEF d

LEMMA ResetShiftGood ==
    ASSUME NEW c, Good(c)
    PROVE  Good(ResetShift(c))
<1> DEFINE d == ResetShift(c)
           h == [i \in Cells |-> 0]
<1>1. d = [c EXCEPT !.shift = h, !.has_shift = FALSE]
  BY DEF ResetShift
<1>2. h \in [Cells -> Int] /\ \A i \in Cells : h[i] = 0
  OBVIOUS
<1>3. /\ IsCells(d)
      /\ d.shift = h /\ d.pos = c.pos /\ d.seq = c.seq
      /\ d.seq_pos = c.seq_pos /\ d.used = c.used
  <2> HIDE DEF h, d
  <2> QED BY <1>1, <1>2, Zenon DEF Good, IsCells
<1> HIDE DEF d, h
<1>4. CountsExact(d)
  BY <1>3 DEF Good, CountsExact, CellsAt
<1>5. UsedExact(d) /\ ShiftAnnounced(d)
  BY <1>2, <1>3 DEF Good, UsedExact, ShiftAnnounced
<1>6. Good(d)
  BY <1>3, <1>4, <1>5 DEF Good
<1> QED BY <1>6 DEF d

LEMMA RestoreGood ==
    ASSUME NEW c, Good(c), NEW i \in Cells, NEW p \in Pos \cup {-1},
           NEW S \in SUBSET Seqs, c.shift[i] = 0, p = -1 => S = {}
    PROVE  Good(Restore(c, i, p, S))
<1> DEFINE d   == Restore(c, i, p, S)
           out == IF c.pos[i] = -1 THEN c.seq_pos
                  ELSE SeqPosRm(c.seq_pos, c.seq[i], c.pos[i])
           sp  == IF p # -1 THEN SeqPosAdd(out, S, p) ELSE out
           u   == IF p # -1 THEN c.used \cup {i} ELSE c.used \ {i}
           o   == [c.pos EXCEPT ![i] = p]
           q   == [c.seq EXCEPT ![i] = S]
<1>1. d = [c EXCEPT !.used = u, !.seq_pos = sp, !.pos = o, !.seq = q]
  BY DEF Restore
<1>2. /\ u \in SUBSET Cells /\ o \in [Cells -> Pos \cup {-1}]
      /\ q \in [Cells -> SUBSET Seqs] /\ c.shift = [c.shift EXCEPT ![i] = 0]
  BY DEF Good, IsCells
<1>3. Follows(sp, c, i, p, S)
  <2>1. Follows(out, c, i, -1, {})
    <3>1. CASE c.pos[i] = -1
      BY <3>1 DEF Follows, Good, IsCells, UsedExact
    <3>2. CASE c.pos[i] # -1
      BY <3>2, CountsOut
    <3> QED BY <3>1, <3>2
  <2> HIDE DEF out
  <2>2. CASE p = -1
    BY <2>1, <2>2
  <2>3. CASE p # -1
    <3>1. sp = SeqPosAdd(out, S, p)
      BY <2>3, Zenon
    <3> HIDE DEF sp
    <3> QED BY <2>1, <3>1 DEF Follows, SeqPosAdd, Bumped, Good, IsCells
  <2> QED BY <2>2, <2>3
<1>4. sp \in [Seqs -> [Pos -> Int]]
  BY <1>3 DEF Follows
<1>5. /\ Shaped(d)
      /\ d.pos = o /\ d.used = u /\ d.seq = q /\ d.shift = c.shift
      /\ d.seq_pos = sp /\ d.has_shift = c.has_shift
  <2> HIDE DEF o, u, q, sp, d
  <2> QED BY <1>1, <1>2, <1>4, Zenon DEF Shaped, Good, IsCells
<1> HIDE DEF d, sp
<1>6. Updates(c, d, i, p, S, 0)
  BY <1>2, <1>5 DEF Updates
<1>7. Follows(d.seq_pos, c, i, p, S)
  BY <1>3, <1>5
<1>8. Good(d)
  BY <1>6, <1>7, UpdateIsGood
<1> QED BY <1>8 DEF d

-----------------------------------------------------------------------------
(***************************************************************************)
(* The bookkeeping of llama_kv_cells is exact after any sequence of calls  *)
(* of its methods: the fields have their types, used holds exactly the     *)
(* non-empty cells, seq_pos counts the cells of every sequence at every    *)
(* position, and no shift is pending without has_shift.                    *)
(***************************************************************************)
THEOREM CellsStayGood == CellsSpec => []Good(cells)
<1>1. CellsInit => Good(cells)
  BY NoCellsGood DEF CellsInit
<1>2. Good(cells) /\ [CellsNext]_cells => Good(cells)'
  <2> SUFFICES ASSUME Good(cells), [CellsNext]_cells
               PROVE  Good(cells')
    BY DEF Good, IsCells, UsedExact, CountsExact, CellsAt, ShiftAnnounced
  <2>1. CASE CallReset
    BY <2>1, NoCellsGood DEF CallReset
  <2>2. CASE CallResetShift
    BY <2>2, ResetShiftGood DEF CallResetShift
  <2>3. ASSUME NEW i \in Cells, CallRm(i) PROVE Good(cells')
    BY <2>3, RmGood DEF CallRm
  <2>4. ASSUME NEW i \in Cells, NEW s \in Seqs, CallSeqRm(i, s) PROVE Good(cells')
    BY <2>4, SeqRmGood DEF CallSeqRm
  <2>5. ASSUME NEW i \in Cells, NEW s \in Seqs, CallSeqKeep(i, s) PROVE Good(cells')
    BY <2>5, SeqKeepGood DEF CallSeqKeep
  <2>6. ASSUME NEW i \in Cells, NEW s \in Seqs, CallSeqAdd(i, s) PROVE Good(cells')
    BY <2>6, SeqAddGood DEF CallSeqAdd
  <2>7. ASSUME NEW i \in Cells, NEW p \in Pos, CallPosSet(i, p) PROVE Good(cells')
    BY <2>7, PosSetGood DEF CallPosSet
  <2>8. ASSUME NEW i \in Cells, NEW d \in -MaxPos .. MaxPos, CallPosAdd(i, d)
        PROVE  Good(cells')
    <3>1. d \in Int
      BY CellsAssumption
    <3> QED BY <2>8, <3>1, PosAddGood DEF CallPosAdd
  <2>9. ASSUME NEW i \in Cells, NEW d \in 1 .. MaxPos, CallPosDiv(i, d)
        PROVE  Good(cells')
    <3>1. d \in Nat /\ d # 0
      BY CellsAssumption
    <3> QED BY <2>9, <3>1, PosDivGood DEF CallPosDiv
  <2>10. ASSUME NEW i \in Cells, NEW p \in Pos \cup {-1}, NEW S \in SUBSET Seqs,
                CallSet(i, p, S)
         PROVE  Good(cells')
    BY <2>10, RestoreGood DEF CallSet
  <2>11. CASE UNCHANGED cells
    BY <2>11
  <2> QED BY <2>1, <2>2, <2>3, <2>4, <2>5, <2>6, <2>7, <2>8, <2>9, <2>10, <2>11, ZenonT(30)
          DEF CellsNext
<1> QED BY <1>1, <1>2, PTL DEF CellsSpec

(***************************************************************************)
(* The fields of llama_kv_cells keep their types under its methods.        *)
(***************************************************************************)
THEOREM TypeCorrect == CellsSpec => []CellsTypeOK
<1>1. Good(cells) => CellsTypeOK
  BY DEF Good, CellsTypeOK
<1> QED BY <1>1, CellsStayGood, PTL

(***************************************************************************)
(* used always holds exactly the non-empty cells, and an empty cell is in  *)
(* no sequence: find_slot never takes a cell that is still in use.         *)
(***************************************************************************)
THEOREM UsedStaysExact == CellsSpec => []UsedIsExact
<1>1. Good(cells) => UsedIsExact
  BY DEF Good, UsedIsExact
<1> QED BY <1>1, CellsStayGood, PTL

(***************************************************************************)
(* The map seq_pos always agrees with the cells, so seq_pos_min and        *)
(* seq_pos_max are never stale.                                            *)
(***************************************************************************)
THEOREM CountsStayExact == CellsSpec => []CountsAreExact
<1>1. Good(cells) => CountsAreExact
  BY DEF Good, CountsAreExact
<1> QED BY <1>1, CellsStayGood, PTL

(***************************************************************************)
(* A pending shift is always announced by has_shift.                       *)
(***************************************************************************)
THEOREM ShiftStaysAnnounced == CellsSpec => []ShiftIsAnnounced
<1>1. Good(cells) => ShiftIsAnnounced
  BY DEF Good, ShiftIsAnnounced
<1> QED BY <1>1, CellsStayGood, PTL

-----------------------------------------------------------------------------
(***************************************************************************)
(* The search                                                              *)
(***************************************************************************)
\* the slot is not full while the search goes on
Lens ==
    /\ pc \in {"while", "for"} => Len(idxs) < n_tokens
    /\ Len(idxs) <= n_tokens
    /\ pc = "none" => Len(idxs) < n_tokens
    /\ pc = "found" => Len(idxs) = n_tokens
    /\ cont /\ pc \in {"while", "none"} => idxs = <<>>

\* the inner loop stays within the window it was started for
Fitting == pc = "for" => head_cur + (IF cont THEN n_tokens - Len(idxs) ELSE 1) <= Size

Usables == \A k \in 1 .. Len(idxs) : idxs[k] \in usable

\* contiguous: the cells taken are those just before the head
Adjacent ==
    cont /\ (pc = "for" \/ Len(idxs) = n_tokens) =>
        \A k \in 1 .. Len(idxs) : idxs[k] = head_cur - Len(idxs) + k - 1

\* n_tested counts the cells passed since the start
Counted ==
    /\ wraps = 0 => n_tested = head_cur - start
    /\ wraps = 1 => n_tested = Size - start + head_cur
    /\ wraps = 2 => n_tested >= Size
    /\ pc = "while" => n_tested < Size \/ head_cur = 0
    /\ pc = "none" => n_tested >= Size

\* contiguous: windows the search has left behind are blocked, also when it
\* stands behind the one it has found
Behind == IF pc = "for" \/ Len(idxs) = n_tokens THEN head_cur - Len(idxs) ELSE head_cur
Passed(w) ==
    \/ wraps = 0 /\ start <= w /\ w < Behind
    \/ wraps = 1 /\ (start <= w \/ w < Behind)
    \/ wraps = 2
Swept ==
    cont => /\ \A w \in 0 .. Size - n_tokens : Passed(w) => Blocked(w)
            /\ wraps = 0 => start <= Behind

\* not contiguous: the usable cells passed are the ones taken, once each
Visited(c) ==
    \/ wraps = 0 /\ start <= c /\ c < head_cur
    \/ wraps = 1 /\ (start <= c \/ c < head_cur)
TakenCells ==
    ~cont =>
        /\ wraps < 2
        /\ pc \in {"while", "for"} /\ wraps = 1 => head_cur < start
        /\ \A k \in 1 .. Len(idxs) : Visited(idxs[k])
        /\ \A j, k \in 1 .. Len(idxs) : j # k => idxs[j] # idxs[k]
        /\ \A c \in usable : Visited(c) => \E k \in 1 .. Len(idxs) : idxs[k] = c

\* not contiguous: the cells taken are the usable ones of the search order up
\* to the last cell tested
InOrder ==
    ~cont => /\ n_tested <= Size
             /\ idxs = Keep(SubSeq(SearchOrder(Size, start), 1, n_tested), usable)

(***************************************************************************)
(* The inductive invariant.  The properties are about the end of the loop; *)
(* Counted, Swept, TakenCells and InOrder say what is known in the middle  *)
(* of it, in particular after the search has gone back to the beginning.   *)
(***************************************************************************)
SearchInv == SearchTypeOK /\ Lens /\ Fitting /\ Usables /\ Adjacent /\ Counted /\ Swept
             /\ TakenCells /\ InOrder

-----------------------------------------------------------------------------
\* The order of the search goes over all cells.
LEMMA OrderIs ==
    ASSUME NEW s \in 0 .. Size
    PROVE  /\ SearchOrder(Size, s) \in Seq(Cell) /\ Len(SearchOrder(Size, s)) = Size
           /\ \A k \in 1 .. Size : SearchOrder(Size, s)[k] = (s + k - 1) % Size
<1>1. \A k \in 1 .. Size : (s + k - 1) % Size \in Cell
  BY SizeAssumption DEF Cell
<1>2. Size \in Nat
  BY SizeAssumption
<1> QED BY <1>1, <1>2 DEF SearchOrder

LEMMA InitSearch == SearchInit => SearchInv
<1> SUFFICES ASSUME SearchInit PROVE SearchInv
  OBVIOUS
<1> USE SizeAssumption DEF SearchInit
<1>1. SearchTypeOK
  BY DEF SearchTypeOK, Cell
<1>2. Lens /\ Fitting /\ Usables /\ Adjacent /\ Counted
  BY DEF Lens, Fitting, Usables, Adjacent, Counted
<1>3. Swept
  <2>1. Len(idxs) = 0 /\ Behind = head_cur
    BY DEF Behind
  <2> QED
    BY <2>1 DEF Swept, Passed
<1>4. TakenCells
  <2>1. Len(idxs) = 0 /\ \A c \in usable : ~Visited(c)
    BY DEF Visited, Cell
  <2> QED
    BY <2>1 DEF TakenCells
<1>5. InOrder
  BY OrderIs, KeepNext DEF InOrder
<1> QED
  BY <1>1, <1>2, <1>3, <1>4, <1>5 DEF SearchInv

(***************************************************************************)
(* Going back to the beginning.  At the head no window fits any more, so   *)
(* all windows from the start on have been passed.                         *)
(***************************************************************************)
LEMMA WrapSearch == SearchInv /\ Wrap => SearchInv'
<1> SUFFICES ASSUME SearchInv, Wrap PROVE SearchInv'
  OBVIOUS
<1> USE SizeAssumption
<1>1. SearchTypeOK'
  BY DEF SearchInv, SearchTypeOK, Wrap, inputs
<1>2. Lens' /\ Fitting' /\ Usables' /\ Adjacent'
  BY DEF SearchInv, SearchTypeOK, Lens, Fitting, Usables, Adjacent, Wrap, inputs
<1>3. Counted'
  BY DEF SearchInv, SearchTypeOK, Counted, Wrap, inputs
<1>4. Swept'
  <2>0. /\ Len(idxs) < n_tokens /\ Behind = head_cur /\ Behind' = 0 /\ wraps' # 0
        /\ UNCHANGED <<start, usable, n_tokens, cont>>
    BY DEF SearchInv, SearchTypeOK, Lens, Wrap, inputs, Behind
  <2> SUFFICES ASSUME cont, NEW w \in 0 .. Size - n_tokens, Passed(w)'
               PROVE  Blocked(w)
    BY <2>0 DEF Swept, Blocked
  <2>1. w < head_cur
    BY DEF SearchInv, SearchTypeOK, Wrap, n_test
  <2>2. wraps' = 1 => wraps = 0 /\ start <= w
    BY <2>0 DEF SearchInv, SearchTypeOK, Wrap, Passed
  <2>3. Passed(w)
    BY <2>0, <2>1, <2>2 DEF SearchInv, SearchTypeOK, Wrap, Passed
  <2> QED
    BY <2>3 DEF SearchInv, Swept
<1>5. TakenCells'
  <2> SUFFICES ASSUME ~cont PROVE TakenCells'
    BY DEF TakenCells, Wrap, inputs
  <2>1. wraps = 0 /\ head_cur = Size /\ 0 < start
    BY DEF SearchInv, SearchTypeOK, Counted, TakenCells, Wrap, n_test
  <2>2. \A c \in Cell : Visited(c)' <=> Visited(c)
    BY <2>1 DEF SearchInv, SearchTypeOK, Cell, Visited, Wrap, inputs
  <2>3. \A k \in 1 .. Len(idxs) : idxs[k] \in Cell
    BY DEF SearchInv, SearchTypeOK
  <2> QED
    BY <2>1, <2>2, <2>3 DEF SearchInv, SearchTypeOK, TakenCells, Wrap, inputs
<1>6. InOrder'
  <2> SUFFICES ASSUME ~cont PROVE InOrder'
    BY DEF InOrder, Wrap, inputs
  <2>1. head_cur = Size /\ n_tested' = n_tested
    BY DEF SearchInv, SearchTypeOK, Wrap, n_test
  <2> QED
    BY <2>1 DEF SearchInv, InOrder, Wrap, inputs
<1> QED
  BY <1>1, <1>2, <1>3, <1>4, <1>5, <1>6 DEF SearchInv

LEMMA FitsSearch == SearchInv /\ Fits => SearchInv'
<1> SUFFICES ASSUME SearchInv, Fits PROVE SearchInv'
  OBVIOUS
<1> USE SizeAssumption
<1>1. SearchTypeOK'
  BY DEF SearchInv, SearchTypeOK, Fits, inputs
<1>2. cont => Len(idxs) = 0
  BY DEF SearchInv, Lens, Fits
<1>3. Lens' /\ Fitting' /\ Usables' /\ Adjacent' /\ Counted'
  BY <1>2 DEF SearchInv, SearchTypeOK, Lens, Fitting, Usables, Adjacent, Counted, Fits,
                 inputs, n_test
<1>4. Swept'
  <2>1. cont => Behind' = Behind
    BY <1>2 DEF SearchInv, SearchTypeOK, Behind, Fits, inputs
  <2>2. UNCHANGED <<start, usable, n_tokens, cont, wraps>>
    BY DEF Fits, inputs
  <2> QED
    BY <2>1, <2>2 DEF SearchInv, Swept, Passed, Blocked
<1>5. TakenCells'
  BY DEF SearchInv, SearchTypeOK, TakenCells, Visited, Fits, inputs
<1>6. InOrder'
  BY DEF SearchInv, InOrder, Fits, inputs
<1> QED
  BY <1>1, <1>3, <1>4, <1>5, <1>6, Zenon DEF SearchInv

\* The cell tested is the next one of the search order.
LEMMA TestInOrder ==
    ASSUME SearchInv, Test
    PROVE  InOrder'
<1> SUFFICES ASSUME ~cont PROVE InOrder'
  BY DEF InOrder, Test, inputs
<1> DEFINE order == SearchOrder(Size, start)
<1>1. /\ head_cur \in Cell /\ start \in 0 .. Size /\ n_tested \in Nat /\ Size \in Nat
      /\ pc = "for" /\ wraps \in {0, 1}
  BY SizeAssumption DEF SearchInv, SearchTypeOK, Lens, Fitting, TakenCells, Test, Cell
<1>2. /\ wraps = 0 => n_tested = head_cur - start
      /\ wraps = 1 => n_tested = Size - start + head_cur /\ head_cur < start
  BY <1>1 DEF SearchInv, Counted, TakenCells
<1>3. n_tested < Size /\ (start + n_tested) % Size = head_cur
  <2>1. CASE wraps = 0
    BY <1>1, <1>2, <2>1 DEF Cell
  <2>2. CASE wraps = 1
    <3>1. start + n_tested = Size + head_cur /\ n_tested < Size
      BY <1>1, <1>2, <2>2 DEF Cell
    <3>2. (Size + head_cur) % Size = head_cur
      BY <1>1 DEF Cell
    <3> QED
      BY <3>1, <3>2
  <2> QED
    BY <1>1, <2>1, <2>2
<1>4. order \in Seq(Cell) /\ Len(order) = Size /\ order[n_tested + 1] = head_cur
  <2>1. n_tested + 1 \in 1 .. Size /\ start + (n_tested + 1) - 1 = start + n_tested
    BY <1>1, <1>3
  <2> QED
    BY <1>1, <1>3, <2>1, OrderIs, Zenon
<1> HIDE DEF order
<1>5. Keep(SubSeq(order, 1, n_tested + 1), usable) =
         IF head_cur \in usable
         THEN Append(Keep(SubSeq(order, 1, n_tested), usable), head_cur)
         ELSE Keep(SubSeq(order, 1, n_tested), usable)
  <2>1. n_tested \in 0 .. Len(order) - 1
    BY <1>1, <1>3, <1>4
  <2>2. \A n \in 0 .. Len(order) - 1 :
           Keep(SubSeq(order, 1, n + 1), usable) =
              IF order[n + 1] \in usable
              THEN Append(Keep(SubSeq(order, 1, n), usable), order[n + 1])
              ELSE Keep(SubSeq(order, 1, n), usable)
    BY <1>4, KeepNext, Zenon
  <2> QED
    BY <1>4, <2>1, <2>2
<1>6. idxs = Keep(SubSeq(order, 1, n_tested), usable)
  BY DEF SearchInv, InOrder, order
<1>7. /\ idxs' = (IF head_cur \in usable THEN Append(idxs, head_cur) ELSE idxs)
      /\ n_tested' = n_tested + 1 /\ UNCHANGED <<start, usable, cont>>
  BY DEF Test, inputs
<1>8. idxs' = Keep(SubSeq(order, 1, n_tested + 1), usable)
  BY <1>5, <1>6, <1>7
<1>9. n_tested' <= Size
  BY <1>1, <1>3, <1>7
<1> QED
  BY <1>7, <1>8, <1>9, Zenon DEF InOrder, order

(***************************************************************************)
(* One cell is tested.                                                     *)
(***************************************************************************)
LEMMA TestSearch == SearchInv /\ Test => SearchInv'
<1> SUFFICES ASSUME SearchInv, Test PROVE SearchInv'
  OBVIOUS
<1> USE SizeAssumption
<1>1. head_cur \in Cell /\ Len(idxs) \in Nat /\ Len(idxs) < n_tokens
  BY DEF SearchInv, SearchTypeOK, Lens, Fitting, Test, Cell
<1>2. CASE head_cur \in usable
  <2>1. /\ idxs' = Append(idxs, head_cur) /\ idxs' \in Seq(Cell)
        /\ Len(idxs') = Len(idxs) + 1 /\ idxs'[Len(idxs) + 1] = head_cur
        /\ \A k \in 1 .. Len(idxs) : idxs'[k] = idxs[k]
    BY <1>1, <1>2 DEF SearchInv, SearchTypeOK, Test
  <2>2. SearchTypeOK'
    BY <1>1, <2>1 DEF SearchInv, SearchTypeOK, Test, inputs, Cell
  <2>3. Lens' /\ Fitting'
    BY <1>1, <1>2, <2>1 DEF SearchInv, SearchTypeOK, Lens, Fitting, Test, inputs, n_test
  <2>4. Usables'
    BY <1>1, <1>2, <2>1 DEF SearchInv, SearchTypeOK, Usables, Test, inputs
  <2>5. Adjacent'
    <3> SUFFICES ASSUME cont, NEW k \in 1 .. Len(idxs')
                 PROVE  idxs'[k] = head_cur' - Len(idxs') + k - 1
      BY DEF Adjacent, Test, inputs
    <3>1. \A j \in 1 .. Len(idxs) : idxs[j] = head_cur - Len(idxs) + j - 1
      BY DEF SearchInv, Adjacent, Test
    <3>2. head_cur \in Int /\ head_cur' = head_cur + 1
      BY DEF SearchInv, SearchTypeOK, Test
    <3>3. CASE k \in 1 .. Len(idxs)
      BY <1>1, <2>1, <3>1, <3>2, <3>3
    <3>4. CASE k = Len(idxs) + 1
      BY <1>1, <2>1, <3>2, <3>4, SMTT(20)
    <3> QED
      BY <1>1, <2>1, <3>3, <3>4
  <2>6. Counted'
    BY <1>1 DEF SearchInv, SearchTypeOK, Counted, Test, inputs
  <2>7. Swept'
    <3>1. UNCHANGED <<start, usable, n_tokens, cont, wraps>>
      BY DEF Test, inputs
    <3>2. cont => Behind' = Behind
      BY <1>1, <1>2, <2>1, <3>1 DEF SearchInv, SearchTypeOK, Test, n_test, Behind
    <3> QED
      BY <3>1, <3>2 DEF SearchInv, Swept, Passed, Blocked
  <2>8. TakenCells'
    <3> SUFFICES ASSUME ~cont PROVE TakenCells'
      BY DEF TakenCells, Test, inputs
    <3>1. pc' = "after" /\ UNCHANGED <<wraps, start, usable, cont>>
      BY DEF Test, inputs
    <3>2. ~Visited(head_cur)
      BY <1>1 DEF SearchInv, SearchTypeOK, TakenCells, Visited, Test, Cell
    <3>3. \A c \in Cell : Visited(c)' <=> Visited(c) \/ c = head_cur
      <4> SUFFICES ASSUME NEW c \in Cell
                   PROVE  Visited(c)' <=> Visited(c) \/ c = head_cur
        OBVIOUS
      <4>1. wraps \in {0, 1} /\ (wraps = 0 => start <= head_cur)
        BY DEF SearchInv, SearchTypeOK, Counted, TakenCells
      <4> QED
        BY <1>1, <4>1, <3>1 DEF SearchInv, SearchTypeOK, Visited, Test, Cell
    <3>4. \A k \in 1 .. Len(idxs) : idxs[k] \in Cell /\ Visited(idxs[k])
      BY DEF SearchInv, SearchTypeOK, TakenCells
    <3>5. \A k \in 1 .. Len(idxs') : \A c \in Cell : c = idxs'[k] => Visited(c)'
      BY <1>1, <2>1, <3>3, <3>4, SMTT(20)
    <3>6. \A j, k \in 1 .. Len(idxs') : j # k => idxs'[j] # idxs'[k]
      BY <1>1, <2>1, <3>2, <3>4, SMTT(20) DEF SearchInv, TakenCells
    <3>7. \A c \in usable' : Visited(c)' => \E k \in 1 .. Len(idxs') : idxs'[k] = c
      BY <1>1, <2>1, <3>1, <3>3 DEF SearchInv, SearchTypeOK, TakenCells
    <3> QED
      <4>1. \A k \in 1 .. Len(idxs') : idxs'[k] \in Cell
        BY <2>1
      <4>2. (\A k \in 1 .. Len(idxs) : Visited(idxs[k]))'
        BY <4>1, <3>5 DEF Visited
      <4>3. wraps' < 2
        BY <3>1 DEF SearchInv, TakenCells
      <4> QED
        BY <3>1, <3>6, <3>7, <4>2, <4>3 DEF TakenCells
  <2>9. InOrder'
    BY <1>1, <1>2, TestInOrder, Zenon
  <2> QED
    BY <2>2, <2>3, <2>4, <2>5, <2>6, <2>7, <2>8, <2>9, Zenon DEF SearchInv
<1>3. CASE head_cur \notin usable
  <2>1. idxs' = idxs /\ pc' = "after"
    BY <1>3 DEF Test
  <2>2. SearchTypeOK'
    BY <1>1, <2>1 DEF SearchInv, SearchTypeOK, Test, inputs, Cell
  <2>3. Lens' /\ Fitting' /\ Usables' /\ Adjacent' /\ Counted'
    <3>1. Lens' /\ Fitting' /\ Usables'
      BY <1>1, <2>1 DEF SearchInv, SearchTypeOK, Lens, Fitting, Usables, Test, inputs
    <3>2. Adjacent'
      BY <1>1, <2>1 DEF SearchInv, SearchTypeOK, Adjacent, Test, inputs
    <3>3. Counted'
      BY <1>1, <2>1 DEF SearchInv, SearchTypeOK, Counted, Test, inputs
    <3> QED
      BY <3>1, <3>2, <3>3
  <2>4. Swept'
    <3>0. /\ Behind = head_cur - Len(idxs) /\ Behind' = head_cur + 1
          /\ UNCHANGED <<start, usable, n_tokens, cont, wraps>>
      BY <1>1, <2>1 DEF Behind, Test, inputs
    <3>3. cont /\ wraps = 0 => start <= Behind'
      BY <1>1, <3>0 DEF SearchInv, SearchTypeOK, Swept, Cell
    <3> SUFFICES ASSUME cont, NEW w \in 0 .. Size - n_tokens, Passed(w)'
                 PROVE  Blocked(w)
      BY <3>0, <3>3 DEF Swept, Blocked
    <3>1. CASE Passed(w)
      BY <1>1, <3>1 DEF SearchInv, Swept
    <3>2. CASE ~Passed(w)
      <4>1. head_cur - Len(idxs) <= w /\ w <= head_cur
        <5>1. head_cur \in Int /\ w \in Int
          BY DEF SearchInv, SearchTypeOK
        <5>2. ~(w < Behind) /\ w < Behind'
          BY <3>0, <3>2 DEF Passed
        <5> QED
          BY <1>1, <3>0, <5>1, <5>2
      <4>2. head_cur \in w .. w + n_tokens - 1
        BY <1>1, <4>1 DEF SearchInv, SearchTypeOK, Cell
      <4> QED
        BY <1>3, <4>2 DEF Blocked
    <3> QED
      BY <3>1, <3>2
  <2>5. TakenCells'
    <3> SUFFICES ASSUME ~cont PROVE TakenCells'
      BY DEF TakenCells, Test, inputs
    <3>1. /\ pc' = "after" /\ head_cur' = head_cur + 1 /\ idxs' = idxs
          /\ UNCHANGED <<wraps, start, usable, cont>>
      BY <2>1 DEF Test, inputs
    <3>2. wraps \in {0, 1} /\ (wraps = 0 => start <= head_cur)
      BY DEF SearchInv, SearchTypeOK, Counted, TakenCells
    <3>3. \A c \in Cell : Visited(c)' <=> Visited(c) \/ c = head_cur
      <4> SUFFICES ASSUME NEW c \in Cell
                   PROVE  Visited(c)' <=> Visited(c) \/ c = head_cur
        OBVIOUS
      <4> QED
        BY <1>1, <3>1, <3>2 DEF SearchInv, SearchTypeOK, Visited, Test, Cell
    <3>4. \A k \in 1 .. Len(idxs) : idxs[k] \in Cell /\ Visited(idxs[k])
      BY DEF SearchInv, SearchTypeOK, TakenCells
    <3>5. \A k \in 1 .. Len(idxs') : \A c \in Cell : c = idxs'[k] => Visited(c)'
      BY <3>1, <3>3, <3>4
    <3>6. \A j, k \in 1 .. Len(idxs') : j # k => idxs'[j] # idxs'[k]
      BY <3>1 DEF SearchInv, TakenCells
    <3>7. \A c \in usable' : Visited(c)' => \E k \in 1 .. Len(idxs') : idxs'[k] = c
      <4> SUFFICES ASSUME NEW c \in usable, Visited(c)'
                   PROVE  \E k \in 1 .. Len(idxs) : idxs[k] = c
        BY <3>1
      <4>1. c \in Cell /\ c # head_cur
        BY <1>3 DEF SearchInv, SearchTypeOK
      <4>2. Visited(c)
        BY <3>3, <4>1
      <4> QED
        BY <4>2 DEF SearchInv, TakenCells
    <3> QED
      <4>1. \A k \in 1 .. Len(idxs') : idxs'[k] \in Cell
        BY <3>1, <3>4
      <4>2. (\A k \in 1 .. Len(idxs) : Visited(idxs[k]))'
        BY <4>1, <3>5 DEF Visited
      <4>3. wraps' < 2
        BY <3>1, <3>2
      <4> QED
        BY <3>1, <3>6, <3>7, <4>2, <4>3 DEF TakenCells
  <2>6. InOrder'
    BY <1>1, <1>3, TestInOrder, Zenon
  <2> QED
    BY <2>2, <2>3, <2>4, <2>5, <2>6 DEF SearchInv
<1> QED
  BY <1>2, <1>3

LEMMA AfterSearch == SearchInv /\ After => SearchInv'
<1> SUFFICES ASSUME SearchInv, After PROVE SearchInv'
  OBVIOUS
<1> USE SizeAssumption
<1>1. Len(idxs) \in Nat /\ <<>> \in Seq(Cell) /\ Len(<<>>) = 0
  BY DEF SearchInv, SearchTypeOK
<1>2. SearchTypeOK'
  BY <1>1, Zenon DEF SearchInv, SearchTypeOK, After, inputs
<1>3. Lens' /\ Fitting' /\ Usables' /\ Adjacent' /\ Counted'
  BY <1>1 DEF SearchInv, SearchTypeOK, Lens, Fitting, Usables, Adjacent, Counted, After, inputs
<1>4. Swept'
  <2>1. UNCHANGED <<start, usable, n_tokens, cont, wraps>>
    BY DEF After, inputs
  <2>2. cont => Behind' = Behind
    BY <1>1, <2>1 DEF SearchInv, SearchTypeOK, Behind, After
  <2> QED
    BY <2>1, <2>2 DEF SearchInv, Swept, Passed, Blocked
<1>5. TakenCells'
  BY <1>1 DEF SearchInv, SearchTypeOK, Counted, TakenCells, Visited, After, inputs
<1>6. InOrder'
  BY DEF SearchInv, InOrder, After, inputs
<1> QED
  BY <1>2, <1>3, <1>4, <1>5, <1>6 DEF SearchInv

(***************************************************************************)
(* The invariant holds throughout the search of find_slot.                 *)
(***************************************************************************)
THEOREM SearchInvariant == SearchSpec => []SearchInv
<1>1. SearchInv /\ UNCHANGED searchVars => SearchInv'
  <2> SUFFICES ASSUME SearchInv, UNCHANGED searchVars PROVE SearchInv'
    OBVIOUS
  <2>1. /\ usable' = usable /\ n_tokens' = n_tokens /\ cont' = cont /\ start' = start
        /\ head_cur' = head_cur /\ n_tested' = n_tested /\ idxs' = idxs
        /\ wraps' = wraps /\ pc' = pc
    BY Zenon DEF searchVars, inputs
  <2>2. SearchTypeOK' /\ Lens' /\ Fitting' /\ Usables'
    BY <2>1, Zenon DEF SearchInv, SearchTypeOK, Lens, Fitting, Usables
  <2>3. Adjacent' /\ Counted' /\ InOrder'
    BY <2>1, Zenon DEF SearchInv, Adjacent, Counted, InOrder
  <2>4. Swept'
    BY <2>1, Zenon DEF SearchInv, Swept, Passed, Behind, Blocked
  <2>5. TakenCells'
    BY <2>1, Zenon DEF SearchInv, TakenCells, Visited
  <2> QED BY <2>2, <2>3, <2>4, <2>5, Zenon DEF SearchInv
<1>2. SearchInv /\ [SearchNext]_searchVars => SearchInv'
  BY <1>1, WrapSearch, FitsSearch, TestSearch, AfterSearch DEF SearchNext
<1> QED
  BY InitSearch, <1>2, PTL DEF SearchSpec

(***************************************************************************)
(* find_slot never looks at a cell outside the buffer.                     *)
(***************************************************************************)
THEOREM SearchInBounds == SearchSpec => []InBounds
<1>1. SearchInv => InBounds
  <2> SUFFICES ASSUME SearchInv, pc = "for" PROVE head_cur < Size
    BY DEF InBounds, SearchInv
  <2>1. Len(idxs) \in Nat /\ Len(idxs) < n_tokens
    BY DEF SearchInv, SearchTypeOK, Lens
  <2> QED
    BY <2>1, SizeAssumption DEF SearchInv, SearchTypeOK, Fitting
<1> QED
  BY <1>1, SearchInvariant, PTL

(***************************************************************************)
(* The slot find_slot returns has n_tokens different usable cells,         *)
(* adjacent ones if cont.                                                  *)
(***************************************************************************)
THEOREM FoundStaysSlot == SearchSpec => []FoundIsSlot
<1>1. SearchInv => FoundIsSlot
  <2> SUFFICES ASSUME SearchInv, pc = "found" PROVE FoundIsSlot
    BY DEF FoundIsSlot
  <2>1. Len(idxs) = n_tokens /\ Len(idxs) \in Nat /\ Len(idxs) >= 1
    BY DEF SearchInv, SearchTypeOK, Lens
  <2>2. cont => \A j, k \in 1 .. Len(idxs) : j # k => idxs[j] # idxs[k]
    BY <2>1 DEF SearchInv, SearchTypeOK, Adjacent
  <2>3. ~cont => \A j, k \in 1 .. Len(idxs) : j # k => idxs[j] # idxs[k]
    BY DEF SearchInv, TakenCells
  <2>4. cont => \A k \in 1 .. Len(idxs) : idxs[k] = idxs[1] + k - 1
    BY <2>1 DEF SearchInv, SearchTypeOK, Adjacent
  <2> QED
    BY <2>1, <2>2, <2>3, <2>4 DEF SearchInv, Usables, FoundIsSlot
<1> QED
  BY <1>1, SearchInvariant, PTL

(***************************************************************************)
(* find_slot reports no slot only when there is none.                      *)
(***************************************************************************)
THEOREM NoneIsNone == SearchSpec => []NoneMeansNone
<1>1. SearchInv => NoneMeansNone
  <2> SUFFICES ASSUME SearchInv, pc = "none" PROVE NoneMeansNone
    BY DEF NoneMeansNone
  <2>1. Len(idxs) < n_tokens
    BY DEF SearchInv, Lens
  <2>2. ASSUME cont, NEW w \in 0 .. Size - n_tokens PROVE Blocked(w)
    <3>1. Passed(w)
      BY <2>1, SizeAssumption DEF SearchInv, SearchTypeOK, Counted, Passed, Behind
    <3> QED
      BY <2>1, <2>2, <3>1 DEF SearchInv, Swept
  <2>3. ASSUME ~cont, NEW c \in usable
        PROVE  \E k \in 1 .. Len(idxs) : idxs[k] = c
    <3>1. Visited(c)
      BY <2>3, SizeAssumption DEF SearchInv, SearchTypeOK, Cell, Counted, TakenCells, Visited
    <3> QED
      BY <2>3, <3>1 DEF SearchInv, TakenCells
  <2> QED
    BY <2>1, <2>2, <2>3 DEF NoneMeansNone
<1> QED
  BY <1>1, SearchInvariant, PTL


-----------------------------------------------------------------------------
\* Not contiguous: the first usable cells of the search order.
LEMMA FirstUsableIs ==
    ASSUME SearchInv, ~cont, pc \in {"found", "none"}
    PROVE  FirstUsable(Size, start, usable, n_tokens) = IF pc = "found" THEN idxs ELSE <<>>
<1> DEFINE order == SearchOrder(Size, start)
           free == Keep(order, usable)
<1>1. /\ Size \in Nat /\ start \in 0 .. Size /\ n_tested \in Nat /\ n_tested <= Size
      /\ idxs \in Seq(Cell) /\ n_tokens \in 1 .. Size
      /\ idxs = Keep(SubSeq(order, 1, n_tested), usable)
  BY SizeAssumption DEF SearchInv, SearchTypeOK, InOrder
<1>2. order \in Seq(Cell) /\ Len(order) = Size
  BY <1>1, OrderIs
<1>3. FirstUsable(Size, start, usable, n_tokens) =
         IF Len(free) < n_tokens THEN <<>> ELSE SubSeq(free, 1, n_tokens)
  BY DEF FirstUsable
<1> HIDE DEF order
<1>4. CASE pc = "none"
  <2>1. n_tested = Size /\ Len(idxs) < n_tokens
    BY <1>1, <1>4 DEF SearchInv, Counted, Lens
  <2>2. SubSeq(order, 1, Size) = order
    BY <1>2
  <2>3. free = idxs
    BY <1>1, <2>1, <2>2, Zenon
  <2> HIDE DEF free
  <2> QED
    BY <1>3, <1>4, <2>1, <2>3
<1>5. CASE pc = "found"
  <2> DEFINE rest == Keep(SubSeq(order, n_tested + 1, Size), usable)
  <2>1. Len(idxs) = n_tokens
    BY <1>5 DEF SearchInv, Lens
  <2>2. free = Keep(SubSeq(order, 1, n_tested), usable) \o rest
    <3>1. n_tested \in 0 .. Len(order)
      BY <1>1, <1>2
    <3> QED
      BY <1>2, <3>1, KeepSplit, Zenon
  <2>3. rest \in Seq(Cell)
    <3>1. SubSeq(order, n_tested + 1, Size) \in Seq(Cell)
      BY <1>1, <1>2
    <3> QED
      BY <3>1, KeepPlaces, Zenon
  <2> HIDE DEF rest, free
  <2>4. free = idxs \o rest
    BY <1>1, <2>2
  <2> DEFINE cut == SubSeq(free, 1, n_tokens)
  <2>5. free \in Seq(Cell) /\ Len(free) >= n_tokens /\ Len(free) \in Nat
        /\ \A k \in 1 .. n_tokens : free[k] = idxs[k]
    BY <1>1, <2>1, <2>3, <2>4
  <2>6. cut \in Seq(Cell) /\ Len(cut) = n_tokens /\ \A k \in 1 .. n_tokens : cut[k] = free[k]
    BY <1>1, <2>5
  <2> HIDE DEF cut
  <2>7. cut = idxs
    BY <1>1, <2>1, <2>5, <2>6, SMTT(20)
  <2>8. ~(Len(free) < n_tokens)
    BY <1>1, <2>5
  <2> QED
    BY <1>3, <1>5, <2>7, <2>8 DEF cut
<1> QED
  BY <1>4, <1>5

\* Contiguous: the first window of usable cells from the start on, or else from 0.
LEMMA FirstRunIs ==
    ASSUME SearchInv, cont, pc \in {"found", "none"}
    PROVE  FirstRun(Size, start, usable, n_tokens) = IF pc = "found" THEN idxs ELSE <<>>
<1> DEFINE runs == Runs(Size, usable, n_tokens)
           ahead == {w \in runs : w >= start}
           from == IF ahead # {} THEN ahead ELSE runs
           w0 == CHOOSE w \in from : \A v \in from : w <= v
<1>1. FirstRun(Size, start, usable, n_tokens) =
         IF runs = {} THEN <<>> ELSE [k \in 1 .. n_tokens |-> w0 + k - 1]
  BY DEF FirstRun
<1>2. /\ Size \in Nat /\ n_tokens \in 1 .. Size /\ start \in 0 .. Size
      /\ idxs \in Seq(Cell)
      /\ head_cur \in 0 .. Size
  BY SizeAssumption DEF SearchInv, SearchTypeOK
<1>3. \A w \in 0 .. Size - n_tokens : w \in runs <=> ~Blocked(w)
  <2> TAKE w \in 0 .. Size - n_tokens
  <2>1. w \in runs <=> \A k \in 0 .. n_tokens - 1 : w + k \in usable
    BY DEF Runs
  <2>2. ASSUME Blocked(w) PROVE w \notin runs
    <3>1. PICK c \in w .. w + n_tokens - 1 : c \notin usable
      BY <2>2 DEF Blocked
    <3>2. c - w \in 0 .. n_tokens - 1 /\ w + (c - w) = c
      BY <1>2, <3>1
    <3> QED
      BY <2>1, <3>1, <3>2
  <2>3. ASSUME ~Blocked(w) PROVE w \in runs
    <3>1. \A k \in 0 .. n_tokens - 1 : w + k \in w .. w + n_tokens - 1
      BY <1>2
    <3> QED
      BY <2>1, <2>3, <3>1 DEF Blocked
  <2> QED
    BY <2>2, <2>3
<1>4. runs \subseteq 0 .. Size - n_tokens
  BY DEF Runs
<1> HIDE DEF runs
<1>5. \A w \in runs : ~Passed(w)
  BY <1>3, <1>4 DEF SearchInv, Swept
<1>6. wraps \in {0, 1, 2} /\ (wraps = 0 => start <= Behind)
  BY DEF SearchInv, SearchTypeOK, Swept
<1>7. CASE pc = "none"
  <2>1. \A w \in runs : Passed(w)
    <3>1. Len(idxs) < n_tokens
      BY <1>7 DEF SearchInv, Lens
    <3> QED
      BY <1>2, <1>4, <1>7, <3>1 DEF SearchInv, SearchTypeOK, Counted, Passed, Behind
  <2>2. runs = {}
    BY <1>5, <2>1
  <2> QED
    BY <1>1, <1>7, <2>2, Zenon
<1>8. CASE pc = "found"
  <2> DEFINE b == Behind
  <2>1. Len(idxs) = n_tokens /\ b = head_cur - n_tokens
    BY <1>8 DEF SearchInv, Lens, Behind
  <2>2. \A k \in 1 .. n_tokens : idxs[k] = b + k - 1 /\ idxs[k] \in usable
    BY <1>2, <2>1 DEF SearchInv, Adjacent, Usables
  <2>3. b \in 0 .. Size - n_tokens
    <3>1. idxs[1] \in Cell
      BY <1>2, <2>1
    <3> QED
      BY <1>2, <2>1, <2>2, <3>1 DEF Cell
  <2>4. b \in runs
    <3>1. ASSUME NEW c \in b .. b + n_tokens - 1 PROVE c \in usable
      <4>1. c - b + 1 \in 1 .. n_tokens /\ b + (c - b + 1) - 1 = c
        BY <1>2, <2>3
      <4> QED
        BY <2>2, <4>1
    <3> QED
      BY <1>3, <2>3, <3>1 DEF Blocked
  <2>5. b \in from /\ \A v \in from : b <= v
    <3>1. CASE wraps = 0
      <4>1. b \in ahead
        BY <1>6, <2>4, <3>1
      <4>2. \A v \in ahead : b <= v
        BY <1>2, <1>4, <1>5, <2>3, <3>1 DEF Passed
      <4> QED
        BY <4>1, <4>2
    <3>2. CASE wraps = 1
      <4>1. ahead = {}
        BY <1>2, <1>4, <1>5, <3>2, Zenon DEF Passed
      <4>2. \A v \in runs : b <= v
        BY <1>2, <1>4, <1>5, <2>3, <3>2 DEF Passed
      <4> QED
        BY <2>4, <4>1, <4>2
    <3>3. CASE wraps = 2
      BY <1>5, <2>4, <3>3 DEF Passed
    <3> QED
      BY <1>6, <3>1, <3>2, <3>3
  <2>6. from \subseteq Int
    <3>1. runs \subseteq Int
      BY <1>2, <1>4
    <3> QED
      BY <3>1, Zenon
  <2> HIDE DEF from, b
  <2>7. w0 \in from /\ \A v \in from : w0 <= v
    BY <2>5
  <2> HIDE DEF w0
  <2>8. w0 = b
    <3>1. w0 \in Int /\ b \in Int /\ w0 <= b /\ b <= w0
      BY <2>5, <2>6, <2>7
    <3> QED
      BY <3>1
  <2>9. idxs = [k \in 1 .. n_tokens |-> b + k - 1]
    BY <1>2, <2>1, <2>2
  <2>10. runs # {}
    BY <2>4
  <2> QED
    BY <1>1, <1>8, <2>8, <2>9, <2>10
<1> QED
  BY <1>7, <1>8

(***************************************************************************)
(* find_slot returns what FirstUsable or, contiguous, FirstRun say, for    *)
(* every size, set of usable cells, starting point and number of tokens:   *)
(* the description of the search by which KVCache uses it is exact.        *)
(***************************************************************************)
THEOREM ResultStaysFirst == SearchSpec => []ResultIsFirst
<1>1. SearchInv => ResultIsFirst
  <2> SUFFICES ASSUME SearchInv, pc \in {"found", "none"} PROVE ResultIsFirst
    BY DEF ResultIsFirst
  <2>1. CASE cont
    BY <2>1, FirstRunIs DEF ResultIsFirst
  <2>2. CASE ~cont
    BY <2>2, FirstUsableIs DEF ResultIsFirst
  <2> QED
    BY <2>1, <2>2
<1> QED
  BY <1>1, SearchInvariant, PTL

=============================================================================
