------------------------------ MODULE MCServer ------------------------------
(***************************************************************************)
(* Instances of Server: which requests meet                                *)
(***************************************************************************)
EXTENDS Server, TLC

CONSTANTS h1, h2, h3

Completion(n, stream) ==
    [type |-> "COMPLETION", n |-> n, stream |-> stream, id_slot |-> AnySlot,
     valid |-> TRUE, mayClose |-> FALSE]
Embedding(n) == [Completion(n, FALSE) EXCEPT !.type = "EMBEDDING"]
Pinned(r, s) == [r EXCEPT !.id_slot = s]
Invalid(r)   == [r EXCEPT !.valid = FALSE]
MayClose(r)  == [r EXCEPT !.mayClose = TRUE]
Metrics      == [Completion(1, FALSE) EXCEPT !.type = "METRICS"]
SlotAction(s) == [Pinned(Completion(1, FALSE), s) EXCEPT !.type = "SLOT_ACTION"]

\* nobody disconnects and every request can run.  Service: a stream and an
\* embedding share the slots, a slot action waits for the first slot.
\* Control: monitoring, and an action on a slot that does not exist.  Queue: three
\* requests as BlocksWhenDoneHolds (ServerProofs) has them, for two slots.
ServiceScenarios ==
    [service |-> h1 :> Completion(1, TRUE) @@ h2 :> Embedding(1) @@ h3 :> SlotAction(1),
     control |-> h1 :> Completion(1, FALSE) @@ h2 :> Metrics @@ h3 :> SlotAction(NSlots + 1),
     queue   |-> h1 :> Embedding(1) @@ h2 :> Pinned(Embedding(1), 1)
                 @@ h3 :> Pinned(Completion(1, FALSE), 1)]

\* a client of two completions, not streamed, disconnects, a request fails to
\* launch, another names its slot
CancelScenarios ==
    [cancel |-> h1 :> MayClose(Completion(2, FALSE)) @@ h2 :> Invalid(Completion(1, TRUE))
                @@ h3 :> Pinned(Embedding(1), 1)]

\* a request that cannot be launched queues behind one that can
StarveScenarios ==
    [starve |-> h1 :> Completion(1, FALSE) @@ h2 :> Invalid(Completion(1, FALSE))
                @@ h3 :> Completion(1, FALSE)]

\* clients of one slot, one of which may disconnect
RaceScenarios ==
    [race |-> h1 :> Completion(1, FALSE) @@ h2 :> MayClose(Completion(1, FALSE))
              @@ h3 :> Metrics]

\* a streaming client that may go before the stream starts
LeakScenarios ==
    [leak |-> h1 :> MayClose(Completion(1, TRUE)) @@ h2 :> Metrics @@ h3 :> Metrics]
=============================================================================
