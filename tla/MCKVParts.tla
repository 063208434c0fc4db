----------------------------- MODULE MCKVParts -----------------------------
(***************************************************************************)
(* The two parts of llama_kv_cache that have a specification of their own, *)
(* the cells (KVCells) and the search for a slot (FindSlot), in one run: a *)
(* behaviour is one of the cells, beside a search that found nothing, or   *)
(* one of the search, beside empty cells.                                  *)
(***************************************************************************)
EXTENDS KVCells, FindSlot

VARIABLE part
partVars == <<part, cells, searchVars>>

NoSearch ==
    /\ usable = {} /\ n_tokens = 1 /\ cont = FALSE /\ start = 0
    /\ head_cur = 0 /\ n_tested = Size /\ idxs = <<>> /\ wraps = 0
    /\ pc = "none"

PartsInit ==
    /\ CellsInit
    /\ \/ part = "cells" /\ NoSearch
       \/ part = "search" /\ SearchInit

CellsPart == part = "cells" /\ CellsNext /\ UNCHANGED <<part, searchVars>>

SearchPart == part = "search" /\ SearchNext /\ UNCHANGED <<part, cells>>

PartsNext == CellsPart \/ SearchPart

PartsSpec == PartsInit /\ [][PartsNext]_partVars /\ WF_partVars(SearchPart)
=============================================================================
