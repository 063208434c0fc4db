----------------------------- MODULE KVCellOps -----------------------------
(***************************************************************************)
(* The methods of llama_kv_cells (src/llama-kv-cells.h) as operators on a  *)
(* record of its private fields.  A position is -1 for an empty cell; the  *)
(* map seq_pos[s] is a function that is 0 where the map has no entry.  The *)
(* assert()s of the class are compiled out of the builds people run, so an *)
(* operator says what the code does also where an assert would fail.  The  *)
(* 2D positions in ext are left out.                                       *)
(***************************************************************************)
EXTENDS Integers, FiniteSets

CONSTANTS
    Cells,      \* indices of the cells
    Seqs,       \* sequence ids, 0 .. LLAMA_MAX_SEQ - 1
    MaxPos      \* bound on the positions

ASSUME CellsAssumption == IsFiniteSet(Cells) /\ MaxPos \in Nat

Pos == 0 .. MaxPos

(***************************************************************************)
(* reset(), resize(): no cell is used                                      *)
(***************************************************************************)
NoCells ==
    [pos       |-> [i \in Cells |-> -1],
     shift     |-> [i \in Cells |-> 0],
     seq       |-> [i \in Cells |-> {}],
     used      |-> {},
     seq_pos   |-> [s \in Seqs |-> [p \in Pos |-> 0]],
     has_shift |-> FALSE]

(***************************************************************************)
(* seq_pos_inc/seq_pos_add and seq_pos_dec/seq_pos_rm: count position p in *)
(* or out for the sequences in S                                           *)
(***************************************************************************)
Bumped(sp, S, p, d) ==
    [s \in Seqs |-> [q \in Pos |->
        IF s \in S /\ q = p THEN sp[s][q] + d ELSE sp[s][q]]]

SeqPosAdd(sp, S, p) == Bumped(sp, S, p, 1)
SeqPosRm(sp, S, p)  == Bumped(sp, S, p, -1)

\* rm(i): clear a cell
Rm(c, i) ==
    [c EXCEPT !.seq_pos = SeqPosRm(@, c.seq[i], c.pos[i]),
              !.seq     = [@ EXCEPT ![i] = {}],
              !.pos     = [@ EXCEPT ![i] = -1],
              !.shift   = [@ EXCEPT ![i] = 0],
              !.used    = @ \ {i}]

\* seq_rm(i, s): the cell leaves sequence s, and is freed with its last one
SeqRmKeepsUsed(c, i, s) ==
    LET d == [c EXCEPT !.seq_pos = SeqPosRm(@, {s}, c.pos[i]),
                       !.seq     = [@ EXCEPT ![i] = c.seq[i] \ {s}]]
    IN  IF d.seq[i] # {} THEN d
        ELSE [d EXCEPT !.pos   = [@ EXCEPT ![i] = -1],
                       !.shift = [@ EXCEPT ![i] = 0]]

SeqRm(c, i, s) ==
    LET d == [c EXCEPT !.seq_pos = SeqPosRm(@, {s}, c.pos[i]),
                       !.seq     = [@ EXCEPT ![i] = c.seq[i] \ {s}]]
    IN  IF d.seq[i] # {} THEN d
        ELSE [d EXCEPT !.pos   = [@ EXCEPT ![i] = -1],
                       !.shift = [@ EXCEPT ![i] = 0],
                       !.used  = @ \ {i}]

\* seq_keep(i, s): the cell leaves every sequence but s
SeqKeepLosesCount(c, i, s) ==
    IF s \in c.seq[i]
    THEN [c EXCEPT !.seq_pos = SeqPosRm(@, c.seq[i], c.pos[i]),
                   !.seq     = [@ EXCEPT ![i] = {s}]]
    ELSE IF c.seq[i] # {} THEN Rm(c, i) ELSE c

SeqKeep(c, i, s) ==
    IF s \in c.seq[i]
    THEN [c EXCEPT !.seq_pos = SeqPosAdd(SeqPosRm(@, c.seq[i], c.pos[i]),
                                         {s}, c.pos[i]),
                   !.seq     = [@ EXCEPT ![i] = {s}]]
    ELSE IF c.seq[i] # {} THEN Rm(c, i) ELSE c

\* seq_add(i, s)
SeqAdd(c, i, s) ==
    [c EXCEPT !.seq_pos = SeqPosAdd(@, {s}, c.pos[i]),
              !.seq     = [@ EXCEPT ![i] = c.seq[i] \cup {s}]]

\* pos_set(i, p)
PosSet(c, i, p) ==
    [c EXCEPT !.pos  = [@ EXCEPT ![i] = p],
              !.used = @ \cup {i}]

\* pos_add(i, d): a cell moved below position 0 is freed
PosAdd(c, i, d) ==
    LET p == c.pos[i] + d
        e == SeqPosRm(c.seq_pos, c.seq[i], c.pos[i])
    IN  IF p < 0
        THEN [c EXCEPT !.seq_pos = e,
                       !.seq     = [@ EXCEPT ![i] = {}],
                       !.pos     = [@ EXCEPT ![i] = -1],
                       !.shift   = [@ EXCEPT ![i] = 0],
                       !.used    = @ \ {i},
                       !.has_shift = TRUE]
        ELSE [c EXCEPT !.seq_pos = SeqPosAdd(e, c.seq[i], p),
                       !.pos     = [@ EXCEPT ![i] = p],
                       !.shift   = [@ EXCEPT ![i] = c.shift[i] + d],
                       !.has_shift = TRUE]

\* pos_div(i, d)
PosDiv(c, i, d) ==
    LET p == c.pos[i] \div d
        e == SeqPosRm(c.seq_pos, c.seq[i], c.pos[i])
    IN  [c EXCEPT !.seq_pos = SeqPosAdd(e, c.seq[i], p),
                  !.pos     = [@ EXCEPT ![i] = p],
                  !.shift   = [@ EXCEPT ![i] = c.shift[i] + (c.pos[i] - p)],
                  !.has_shift = TRUE]

\* reset_shift()
ResetFlagOnly(c) == [c EXCEPT !.has_shift = FALSE]

ResetShift(c) ==
    [c EXCEPT !.shift = [i \in Cells |-> 0], !.has_shift = FALSE]

(***************************************************************************)
(* set({i}, other): cell i gets the position p and the sequences S of the  *)
(* copy; shift is not restored (asserted 0)                                *)
(***************************************************************************)
Restore(c, i, p, S) ==
    LET out == IF c.pos[i] = -1 THEN c.seq_pos
               ELSE SeqPosRm(c.seq_pos, c.seq[i], c.pos[i])
    IN  [c EXCEPT !.used    = IF p # -1 THEN @ \cup {i} ELSE @ \ {i},
                  !.seq_pos = IF p # -1 THEN SeqPosAdd(out, S, p) ELSE out,
                  !.pos     = [@ EXCEPT ![i] = p],
                  !.seq     = [@ EXCEPT ![i] = S]]

(***************************************************************************)
(* Queries: pos_in, seq_pos_min, seq_pos_max (-1: sequence not present)    *)
(***************************************************************************)
PosIn(c, i, p0, p1) == c.pos[i] >= p0 /\ c.pos[i] < p1
PosOf(c, s) == {p \in Pos : c.seq_pos[s][p] > 0}
SeqPosMin(c, s) ==
    IF PosOf(c, s) = {} THEN -1
    ELSE CHOOSE p \in PosOf(c, s) : \A q \in PosOf(c, s) : p <= q
SeqPosMax(c, s) ==
    IF PosOf(c, s) = {} THEN -1
    ELSE CHOOSE p \in PosOf(c, s) : \A q \in PosOf(c, s) : p >= q

-----------------------------------------------------------------------------
(***************************************************************************)
(* What every record c of these fields should satisfy                      *)
(***************************************************************************)
IsCells(c) ==
    c \in [pos : [Cells -> Pos \cup {-1}], shift : [Cells -> Int],
          seq : [Cells -> SUBSET Seqs], used : SUBSET Cells,
          seq_pos : [Seqs -> [Pos -> Nat]], has_shift : BOOLEAN]

UsedExact(c) ==
    /\ c.used = {i \in Cells : c.pos[i] # -1}
    /\ \A i \in Cells : c.pos[i] = -1 => c.seq[i] = {} /\ c.shift[i] = 0

\* the cells of sequence s at position p
CellsAt(c, s, p) == {i \in Cells : s \in c.seq[i] /\ c.pos[i] = p}

CountsExact(c) ==
    \A s \in Seqs, p \in Pos : c.seq_pos[s][p] = Cardinality(CellsAt(c, s, p))

ShiftAnnounced(c) == (\E i \in Cells : c.shift[i] # 0) => c.has_shift
=============================================================================
