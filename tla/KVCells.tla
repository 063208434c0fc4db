------------------------------ MODULE KVCells ------------------------------
(***************************************************************************)
(* llama_kv_cells as a state machine: any sequence of calls of its public  *)
(* methods, each called as its comment in src/llama-kv-cells.h demands     *)
(* ("call only if ...").  Positions stay within MaxPos, and a cell takes no *)
(* further shift once its pending one has reached MaxShift.                *)
(***************************************************************************)
EXTENDS KVCellOps

CONSTANT MaxShift   \* bound on the shift a cell accumulates

ASSUME MaxShiftAssumption == MaxShift \in Nat

VARIABLE cells

ShiftBounded(i) == -MaxShift <= cells.shift[i] /\ cells.shift[i] <= MaxShift

CellsInit == cells = NoCells

CallReset == cells' = NoCells

CallResetShift == cells' = ResetShift(cells)

CallRm(i) == /\ cells.pos[i] # -1
             /\ cells' = Rm(cells, i)

CallSeqRm(i, s) == /\ s \in cells.seq[i] /\ cells.pos[i] # -1
                   /\ cells' = SeqRm(cells, i, s)

CallSeqKeep(i, s) == cells' = SeqKeep(cells, i, s)

AddAgain(i, s) == /\ cells.pos[i] # -1
                  /\ cells' = SeqAdd(cells, i, s)

CallSeqAdd(i, s) == /\ cells.pos[i] # -1 /\ s \notin cells.seq[i]
                    /\ cells' = SeqAdd(cells, i, s)

CallPosSet(i, p) == /\ cells.pos[i] = -1 /\ cells.seq[i] = {}
                    /\ cells' = PosSet(cells, i, p)

CallPosAdd(i, d) == /\ cells.pos[i] # -1
                    /\ cells.pos[i] + d <= MaxPos /\ ShiftBounded(i)
                    /\ cells' = PosAdd(cells, i, d)

CallPosDiv(i, d) == /\ cells.pos[i] # -1 /\ ShiftBounded(i)
                    /\ cells' = PosDiv(cells, i, d)

\* set(): the copy was taken by cp() from cells like these, shift is 0
CallSet(i, p, S) == /\ cells.shift[i] = 0
                    /\ p = -1 => S = {}
                    /\ cells' = Restore(cells, i, p, S)

CellsNext ==
    \/ CallReset \/ CallResetShift
    \/ \E i \in Cells :
         \/ CallRm(i)
         \/ \E s \in Seqs : CallSeqRm(i, s) \/ CallSeqKeep(i, s)
                             \/ CallSeqAdd(i, s)
         \/ \E p \in Pos : CallPosSet(i, p)
         \/ \E d \in -MaxPos .. MaxPos : CallPosAdd(i, d)
         \/ \E d \in 1 .. MaxPos : CallPosDiv(i, d)
         \/ \E p \in Pos \cup {-1}, S \in SUBSET Seqs : CallSet(i, p, S)

CellsSpec == CellsInit /\ [][CellsNext]_cells

-----------------------------------------------------------------------------
CellsTypeOK == IsCells(cells)

(***************************************************************************)
(* The index set used holds exactly the non-empty cells, and an empty cell *)
(* belongs to no sequence and carries no shift: what find_slot overwrites  *)
(* as empty is nobody's.                                                   *)
(***************************************************************************)
UsedIsExact == UsedExact(cells)

(***************************************************************************)
(* The incrementally kept map seq_pos counts, for every sequence and       *)
(* position, the cells that hold it: seq_pos_min and seq_pos_max, which    *)
(* the callers trust to tell how much of a sequence is cached, are never   *)
(* stale.                                                                  *)
(***************************************************************************)
CountsAreExact == CountsExact(cells)

(***************************************************************************)
(* A shift is never pending without has_shift, so update() cannot skip it. *)
(***************************************************************************)
ShiftIsAnnounced == ShiftAnnounced(cells)
=============================================================================
