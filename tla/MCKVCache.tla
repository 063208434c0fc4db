----------------------------- MODULE MCKVCache -----------------------------
(***************************************************************************)
(* Instances for model checking KVCache.  Sequences are 0 and 1.           *)
(***************************************************************************)
EXTENDS KVCache

T(S, n) == [seqs |-> S, off |-> n]

\* everything, the tail and the first position
SomeDeltas == {-1, 1}
SomeRanges == {<<-1, -1>>, <<1, -1>>, <<0, 1>>}

\* everything; tails
AllRange == {<<-1, -1>>}
TailRanges == {<<-1, -1>>, <<2, -1>>}

\* one stream: one token; two ubatches of one sequence; two sequences
SharedBatches ==
    { << << <<T({0}, 0)>> >> >>,
      << << <<T({0}, 0)>> >>, << <<T({0}, 1)>> >> >>,
      << << <<T({1}, 0), T({0}, 0)>> >> >> }

\* one token each, or one of both sequences
SaveBatches == { << << <<T({0}, 0)>> >> >>, << << <<T({1}, 0), T({0}, 0)>> >> >> }

\* a token of both sequences
CoupledBatches == SharedBatches \cup { << << <<T({0, 1}, 0)>> >> >> }

\* a stream per sequence: an ubatch has a group per sequence
StreamBatches ==
    { << << <<T({0}, 0)>> >> >>,
      << << <<T({0}, 0)>>, <<T({1}, 0)>> >>, << <<T({1}, 1)>> >> >> }

\* with a window: up to two tokens, in one ubatch or in two
WindowBatches ==
    { << << <<T({0}, 0)>> >> >>, << << <<T({0}, 0), T({0}, 1)>> >> >>,
      << << <<T({0}, 0)>> >>, << <<T({0}, 1)>> >> >>, << << <<T({1}, 0)>> >> >> }

\* a second ubatch for which there may be no room
LongBatches ==
    { << << <<T({0}, 0)>> >> >>, << << <<T({0}, 0), T({0}, 1)>> >> >>,
      << << <<T({0}, 0)>> >>, << <<T({0}, 1), T({0}, 2), T({0}, 3), T({0}, 4)>> >> >> }
-----------------------------------------------------------------------------
Base ==
    [unified |-> TRUE, size |-> 2, last |-> 2, n_swa |-> 0, calls |-> {}, ranges |-> SomeRanges,
     deltas |-> SomeDeltas, batches |-> SharedBatches, copies |-> 1]

With(calls) == [Base EXCEPT !.calls = calls]

\* one stream; positions that move; a stream per sequence, with one copy that
\* waits while positions move, and with two copies that wait; a sequence, the
\* whole cache, and a sequence with its own stream saved and loaded
StoreInstances ==
    {[With({"clear", "rm", "rm_any", "cp", "keep", "abort"}) EXCEPT !.size = 3],
     With({"rm", "cp", "add"}),
     [With({"cp", "add"}) EXCEPT !.unified = FALSE, !.last = 1,
                       !.ranges = AllRange, !.batches = StreamBatches],
     [With({"clear", "rm", "cp", "abort"}) EXCEPT !.unified = FALSE,
                       !.copies = 2, !.batches = StreamBatches],
     [With({"rm", "save"}) EXCEPT !.size = 3, !.last = 1,
                       !.ranges = SomeRanges \ {<<1, -1>>}, !.batches = SaveBatches],
     With({"rm", "cp", "save_all"}),
     [With({"rm", "save"}) EXCEPT !.unified = FALSE, !.last = 1,
                       !.batches = StreamBatches]}

\* a sliding window; batches that may be refused
Windowed == [With({"rm", "abort"}) EXCEPT !.size = 4, !.last = 4, !.n_swa = 2,
                !.ranges = TailRanges, !.batches = WindowBatches]
Refusing == [Windowed EXCEPT !.last = 9, !.calls = {"rm"}, !.batches = LongBatches]

\* both, a window with a sequence saved and loaded, and every call within a
\* stream and every fault
CellInstances ==
    {Windowed, Refusing,
     [Windowed EXCEPT !.calls = {"save"}, !.size = 3, !.last = 3,
                       !.batches = SaveBatches],
     [With({"rm", "rm_any", "cp", "keep", "div", "abort", "shift_fails"})
        EXCEPT !.batches = CoupledBatches]}

\* a batch that may be refused
RefusedInstances == {Refusing}

\* a copy onto a sequence that already shares the cells
CopyTwiceInstances == {With({"rm", "cp", "cp_onto"})}

\* the whole of two streams saved and loaded
RestoreInstances ==
    {[With({"rm", "save_all"}) EXCEPT !.unified = FALSE, !.last = 1,
                       !.batches = StreamBatches]}

\* an aborted batch with a token of both sequences
CoupledInstances == {[With({"abort"}) EXCEPT !.batches = CoupledBatches]}
=============================================================================
