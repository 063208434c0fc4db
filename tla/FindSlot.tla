------------------------------ MODULE FindSlot ------------------------------
(***************************************************************************)
(* The loop of llama_kv_cache::find_slot (src/llama-kv-cache.cpp) for one  *)
(* stream: starting at the head, look for n_tokens usable cells, adjacent  *)
(* ones if cont (as state_read asks for).  The set usable stands for the   *)
(* test can_use, which reads only cells that the loop does not change.     *)
(* The counter i of the inner loop is Len(idxs) when cont and 0 otherwise. *)
(***************************************************************************)
EXTENDS SlotSearch

CONSTANT Size       \* number of cells

ASSUME SizeAssumption == Size \in Nat \ {0}

VARIABLES
    usable, n_tokens, cont, start,  \* what the call is about
    head_cur, n_tested, idxs,       \* its variables
    wraps,                          \* history: how often it went back to 0, counted to 2
    pc

inputs == <<usable, n_tokens, cont, start>>
searchVars == <<inputs, head_cur, n_tested, idxs, wraps, pc>>

Cell == 0 .. Size - 1
n_test == IF cont THEN n_tokens ELSE 1

\* start is the head, or 0 when the head is far ahead of the used cells;
\* more tokens than cells are turned down before the loop
SearchInit ==
    /\ usable \in SUBSET Cell /\ n_tokens \in 1 .. Size /\ cont \in BOOLEAN
    /\ start \in 0 .. Size
    /\ head_cur = start /\ n_tested = 0 /\ idxs = <<>> /\ wraps = 0
    /\ pc = "while"

\* the rest of the buffer is too short
WrapCountsAll ==
    /\ pc = "while" /\ head_cur + n_test > Size
    /\ n_tested' = n_tested + Size /\ head_cur' = 0
    /\ wraps' = IF wraps = 2 THEN 2 ELSE wraps + 1
    /\ UNCHANGED <<inputs, idxs, pc>>

Wrap ==
    /\ pc = "while" /\ head_cur + n_test > Size
    /\ n_tested' = n_tested + (Size - head_cur) /\ head_cur' = 0
    /\ wraps' = IF wraps = 2 THEN 2 ELSE wraps + 1
    /\ UNCHANGED <<inputs, idxs, pc>>

FitsOffByOne ==
    /\ pc = "while" /\ head_cur + n_test <= Size + 1
    /\ pc' = "for"
    /\ UNCHANGED <<inputs, head_cur, n_tested, idxs, wraps>>

Fits ==
    /\ pc = "while" /\ head_cur + n_test <= Size
    /\ pc' = "for"
    /\ UNCHANGED <<inputs, head_cur, n_tested, idxs, wraps>>

\* one turn of the inner loop
TestSkipsNext ==
    /\ pc = "for"
    /\ head_cur' = head_cur + (IF head_cur \in usable THEN 1 ELSE 2)
    /\ n_tested' = n_tested + 1
    /\ idxs' = IF head_cur \in usable THEN Append(idxs, head_cur) ELSE idxs
    /\ pc' = IF cont /\ head_cur \in usable /\ Len(idxs) + 1 < n_test
             THEN "for" ELSE "after"
    /\ UNCHANGED <<inputs, wraps>>

Test ==
    /\ pc = "for"
    /\ head_cur' = head_cur + 1 /\ n_tested' = n_tested + 1
    /\ idxs' = IF head_cur \in usable THEN Append(idxs, head_cur) ELSE idxs
    /\ pc' = IF cont /\ head_cur \in usable /\ Len(idxs) + 1 < n_test
             THEN "for" ELSE "after"
    /\ UNCHANGED <<inputs, wraps>>

AfterKeepsIdxs ==
    /\ pc = "after"
    /\ pc' = IF Len(idxs) = n_tokens THEN "found"
             ELSE IF n_tested >= Size THEN "none" ELSE "while"
    /\ UNCHANGED <<inputs, head_cur, n_tested, wraps, idxs>>

AfterClearsCount ==
    /\ pc = "after"
    /\ \/ Len(idxs) = n_tokens /\ pc' = "found" /\ UNCHANGED <<idxs, n_tested>>
       \/ /\ Len(idxs) # n_tokens
          /\ idxs' = IF cont THEN <<>> ELSE idxs
          /\ n_tested' = IF cont THEN 0 ELSE n_tested
          /\ pc' = IF n_tested' >= Size THEN "none" ELSE "while"
    /\ UNCHANGED <<inputs, head_cur, wraps>>

After ==
    /\ pc = "after"
    /\ \/ Len(idxs) = n_tokens /\ pc' = "found" /\ UNCHANGED idxs
       \/ /\ Len(idxs) # n_tokens
          /\ idxs' = IF cont THEN <<>> ELSE idxs
          /\ pc' = IF n_tested >= Size THEN "none" ELSE "while"
    /\ UNCHANGED <<inputs, head_cur, n_tested, wraps>>

SearchNext == Wrap \/ Fits \/ Test \/ After

SearchSpec == SearchInit /\ [][SearchNext]_searchVars /\ WF_searchVars(SearchNext)

-----------------------------------------------------------------------------
SearchTypeOK ==
    /\ usable \in SUBSET Cell /\ n_tokens \in 1 .. Size /\ cont \in BOOLEAN
    /\ start \in 0 .. Size /\ head_cur \in 0 .. Size /\ n_tested \in Nat
    /\ idxs \in Seq(Cell) /\ wraps \in 0 .. 2
    /\ pc \in {"while", "for", "after", "found", "none"}

(***************************************************************************)
(* No cell outside the buffer is looked at, and the head, the counters and *)
(* the cells taken stay in their ranges.                                   *)
(***************************************************************************)
InBounds == SearchTypeOK /\ (pc = "for" => head_cur < Size)

(***************************************************************************)
(* The slot that is returned has n_tokens different usable cells, and they *)
(* are adjacent if that was asked for.                                     *)
(***************************************************************************)
FoundIsSlot ==
    pc = "found" =>
        /\ Len(idxs) = n_tokens
        /\ \A k \in 1 .. Len(idxs) : idxs[k] \in usable
        /\ \A j, k \in 1 .. Len(idxs) : j # k => idxs[j] # idxs[k]
        /\ cont => \A k \in 1 .. Len(idxs) : idxs[k] = idxs[1] + k - 1

\* a place where n_tokens cells do not fit
Blocked(w) == \E c \in w .. w + n_tokens - 1 : c \notin usable

(***************************************************************************)
(* The search gives up only when there is no slot: no window of usable     *)
(* cells, wherever the search started and wherever it turned round; or,    *)
(* not contiguous, when it has taken every usable cell and has too few.    *)
(***************************************************************************)
NoneMeansNone ==
    pc = "none" =>
        /\ cont => \A w \in 0 .. Size - n_tokens : Blocked(w)
        /\ ~cont => /\ Len(idxs) < n_tokens
                    /\ \A c \in usable : \E k \in 1 .. Len(idxs) : idxs[k] = c

(***************************************************************************)
(* The result is FirstUsable or, contiguous, FirstRun, by which KVCache    *)
(* describes the search.                                                   *)
(***************************************************************************)
ResultIsFirst ==
    pc \in {"found", "none"} =>
        (IF cont THEN FirstRun(Size, start, usable, n_tokens)
         ELSE FirstUsable(Size, start, usable, n_tokens))
            = IF pc = "found" THEN idxs ELSE <<>>

(***************************************************************************)
(* The while (true) of find_slot ends, also when it turns round twice.     *)
(***************************************************************************)
Terminates == <>(pc \in {"found", "none"})
=============================================================================
