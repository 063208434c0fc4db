----------------------------- MODULE SlotSearch -----------------------------
(***************************************************************************)
(* The order in which find_slot (src/llama-kv-cache.cpp) looks at the      *)
(* cells of a stream, and the cells it takes.                              *)
(***************************************************************************)
EXTENDS Integers, SeqOps

SearchOrder(size, start) == [k \in 1 .. size |-> (start + k - 1) % size]

\* the first n usable cells; <<>> when there are fewer
FirstUsable(size, start, usable, n) ==
    LET free == Keep(SearchOrder(size, start), usable)
    IN  IF Len(free) < n THEN <<>> ELSE SubSeq(free, 1, n)

\* when they must be adjacent: the first run of n usable cells from start on,
\* or else from 0 on; <<>> when there is none
Runs(size, usable, n) == {w \in 0 .. size - n : \A k \in 0 .. n - 1 : w + k \in usable}

FirstRun(size, start, usable, n) ==
    LET runs  == Runs(size, usable, n)
        ahead == {w \in runs : w >= start}
        first(W) == CHOOSE w \in W : \A v \in W : w <= v
    IN  IF runs = {} THEN <<>>
        ELSE [k \in 1 .. n |-> first(IF ahead # {} THEN ahead ELSE runs) + k - 1]
=============================================================================
