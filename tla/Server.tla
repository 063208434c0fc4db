------------------------------- MODULE Server -------------------------------
(***************************************************************************)
(* The HTTP server of tools/server/server.cpp while it is in service: the  *)
(* main thread, which runs start_loop and owns the slots, and one thread   *)
(* per HTTP request.  They meet only in server_queue and server_response,  *)
(* each behind its own mutex, so a step here is one critical section with  *)
(* the thread-local work around it.                                        *)
(***************************************************************************)
EXTENDS ServerQueue, ServerResponse, FiniteSetsExt

CONSTANTS
    Handlers,   \* HTTP threads, each serving one request
    Scenarios,  \* which requests meet: names, and a request for each thread
    NSlots,     \* params_base.n_parallel
    NPredict,   \* bound on the tokens of a completion (has_budget)
    AnySlot     \* id_slot = -1

VARIABLES
    scene,      \* the scenario
    mpc,        \* where the main thread is
    mtask,      \* the task it took from the queue
    mslot,      \* the slot it is about to release
    batch,      \* the slots of the current batch it has still to advance
    slot_task,  \* slot.task: id of the task the slot processes, or NoId
    n_decoded,  \* slot.n_decoded
    pc,         \* where each HTTP thread is
    got,        \* ids for which the thread received the last result
    todo,       \* ids cancel_tasks has still to remove
    closed      \* the client has closed the connection

Slots == 1 .. NSlots
InferenceTypes == {"COMPLETION", "EMBEDDING"}   \* INFILL, RERANK alike
ControlTypes == {"METRICS", "SET_LORA", "SLOT_ACTION"}  \* SAVE/RESTORE/ERASE
Request == Scenarios[scene]     \* Request[h]: what the client of thread h asks for
Ids(h) == {<<h, i>> : i \in 1 .. Request[h].n}
RequestOf(id) == Request[id[1]]

ASSUME RequestAssumption ==
    /\ NSlots \in Nat \ {0} /\ NPredict \in Nat \ {0}
    /\ \A c \in DOMAIN Scenarios, h \in Handlers : LET r == Scenarios[c][h] IN
         /\ r.type \in InferenceTypes \cup ControlTypes
         /\ r.n \in Nat \ {0}
         /\ r.type \in ControlTypes => r.n = 1
         /\ \A i \in 1 .. r.n : <<h, i>> # NoId   \* ids count from 0, none is -1

mainVars == <<mpc, mtask, mslot, batch, slot_task, n_decoded>>
httpVars == <<pc, got, todo, closed>>
vars == <<scene, queueVars, responseVars, mainVars, httpVars>>

Busy == {s \in Slots : slot_task[s] # NoId}     \* is_processing()
Idle == Slots \ Busy
NextResponse == Task("NEXT_RESPONSE", NoId, NoId)
BackToLoop == mpc' = "pop" /\ mtask' = NextResponse   \* the local is gone

Init ==
    /\ scene \in DOMAIN Scenarios
    /\ queue_tasks = <<>> /\ queue_tasks_deferred = <<>>
    /\ waiting_task_ids = {} /\ queue_results = <<>>
    /\ mpc = "pop" /\ mtask = NextResponse /\ mslot = 1 /\ batch = {}
    /\ slot_task = [s \in Slots |-> NoId]
    /\ n_decoded = [s \in Slots |-> 0]
    /\ pc = [h \in Handlers |-> "start"]
    /\ got = [h \in Handlers |-> {}]
    /\ todo = [h \in Handlers |-> {}]
    /\ closed = [h \in Handlers |-> FALSE]

-----------------------------------------------------------------------------
(***************************************************************************)
(* start_loop: take a task, or go on to update_slots                       *)
(***************************************************************************)
MainPop ==
    /\ mpc = "pop"
    /\ TakeFront
    /\ mtask' = Head(queue_tasks)
    /\ mpc' = "process"
    /\ UNCHANGED <<responseVars, mslot, batch, slot_task, n_decoded, httpVars>>

MainDrained ==
    /\ mpc = "pop"
    /\ queue_tasks = <<>>
    /\ mpc' = "update"
    /\ UNCHANGED <<queueVars, responseVars, mtask, mslot, batch, slot_task,
                   n_decoded, httpVars>>

\* condition_tasks.wait: goes on once the queue is not empty
MainWake ==
    /\ mpc = "wait"
    /\ queue_tasks # <<>>
    /\ mpc' = "pop"
    /\ UNCHANGED <<queueVars, responseVars, mtask, mslot, batch, slot_task,
                   n_decoded, httpVars>>

(***************************************************************************)
(* process_single_task, inference: get_slot_by_id for a request that names *)
(* its slot, otherwise get_available_slot, which finds an idle slot if one *)
(* exists (which one, by prompt similarity or by last use, is left open).  *)
(***************************************************************************)
SlotsFor(id) ==
    IF RequestOf(id).id_slot = AnySlot THEN Slots
                                       ELSE {RequestOf(id).id_slot} \cap Slots

Processing(types) == mpc = "process" /\ mtask.type \in types

DeferTask ==
    /\ Processing(InferenceTypes)
    /\ SlotsFor(mtask.id) \cap Idle = {}
    /\ Defer(mtask)
    /\ BackToLoop
    /\ UNCHANGED <<responseVars, mslot, batch, slot_task, n_decoded,
                   httpVars>>

LaunchSlotWithTask ==
    /\ Processing(InferenceTypes)
    /\ RequestOf(mtask.id).valid
    /\ \E s \in SlotsFor(mtask.id) \cap Idle :
         slot_task' = [slot_task EXCEPT ![s] = mtask.id]
    /\ BackToLoop
    /\ UNCHANGED <<queueVars, responseVars, mslot, batch, n_decoded, httpVars>>

\* launch_slot_with_task fails: bad aLoRA, tokens or grammar; no slot is taken
RejectTask ==
    /\ Processing(InferenceTypes)
    /\ ~RequestOf(mtask.id).valid
    /\ SlotsFor(mtask.id) \cap Idle # {}
    /\ Send(Result(mtask.id, "error"))
    /\ BackToLoop
    /\ UNCHANGED <<queueVars, mslot, batch, slot_task, n_decoded,
                   httpVars>>

(***************************************************************************)
(* process_single_task, the other types                                    *)
(***************************************************************************)
ProcessNextResponse ==
    /\ Processing({"NEXT_RESPONSE"})
    /\ BackToLoop
    /\ UNCHANGED <<queueVars, responseVars, mslot, batch, slot_task,
                   n_decoded, httpVars>>

\* METRICS and SET_LORA need no slot
ProcessControl ==
    /\ Processing({"METRICS", "SET_LORA"})
    /\ Send(Result(mtask.id, "final"))
    /\ BackToLoop
    /\ UNCHANGED <<queueVars, mslot, batch, slot_task, n_decoded,
                   httpVars>>

\* SLOT_SAVE, SLOT_RESTORE, SLOT_ERASE on the slot the request names
ProcessSlotAction ==
    /\ Processing({"SLOT_ACTION"})
    /\ BackToLoop
    /\ LET s == RequestOf(mtask.id).id_slot
       IN  \/ /\ s \notin Slots
              /\ Send(Result(mtask.id, "error"))
              /\ UNCHANGED queueVars
           \/ /\ s \in Busy
              /\ Defer(mtask)
              /\ UNCHANGED responseVars
           \/ /\ s \in Idle
              /\ \E kind \in {"final", "error"} : Send(Result(mtask.id, kind))
              /\ UNCHANGED queueVars
    /\ UNCHANGED <<mslot, batch, slot_task, n_decoded, httpVars>>

\* server_slot::release, with callback_on_release.  (n_decoded is set to 0 when
\* the slot's next prompt is done; no one reads it in between.)
ReleaseKeepsTask(s) ==
    /\ n_decoded' = [n_decoded EXCEPT ![s] = 0]
    /\ PopDeferredTask
    /\ UNCHANGED slot_task

Release(s) ==
    /\ slot_task' = [slot_task EXCEPT ![s] = NoId]
    /\ n_decoded' = [n_decoded EXCEPT ![s] = 0]
    /\ PopDeferredTask

ProcessCancel ==
    /\ Processing({"CANCEL"})
    /\ LET owners == {s \in Busy : slot_task[s] = mtask.target}
       IN  IF owners = {} THEN UNCHANGED <<queueVars, slot_task, n_decoded>>
                          ELSE Release(Min(owners))
    /\ BackToLoop
    /\ UNCHANGED <<responseVars, mslot, batch, httpVars>>

-----------------------------------------------------------------------------
(***************************************************************************)
(* update_slots.  The batch is led by the first generating slot, or else   *)
(* the first busy one, and takes busy slots that can_batch_with it: of its *)
(* type and with its adapters, as long as the batch has room.  Adapters    *)
(* and room are left open (ServerSlots has them).                          *)
(***************************************************************************)
Generating == {s \in Busy : n_decoded[s] > 0}
Lead == Min(IF Generating # {} THEN Generating ELSE Busy)
TypeOf(s) == RequestOf(slot_task[s]).type
Batched == {s \in Busy : TypeOf(s) = TypeOf(Lead)}

UpdateSlots ==
    /\ mpc = "update"
    /\ IF Busy = {}
       THEN /\ mpc' = "wait"
            /\ UNCHANGED <<queueVars, batch>>
       ELSE /\ Post(<<NextResponse>>, FALSE)
            /\ batch' \in {b \in SUBSET Batched : Lead \in b}
            /\ mpc' = "slots"
    /\ UNCHANGED <<responseVars, mtask, mslot, slot_task, n_decoded, httpVars>>

Streamed(s) == RequestOf(slot_task[s]).stream
NextSlot(s) == /\ batch' = batch \ {s}
               /\ mpc' = IF batch = {s} THEN "wait" ELSE "slots"

\* a token of a completion is sampled; process_token streams it
SampleToken ==
    /\ mpc = "slots"
    /\ LET s == Min(batch)
       IN  /\ TypeOf(s) = "COMPLETION"
           /\ n_decoded' = [n_decoded EXCEPT ![s] = @ + 1]
           /\ mslot' = s
           /\ IF Streamed(s) THEN Send(Result(slot_task[s], "partial"))
                             ELSE UNCHANGED responseVars
    /\ mpc' = "stop?"
    /\ UNCHANGED <<queueVars, mtask, batch, slot_task, httpVars>>

\* process_token returns true: generation goes on in the next iteration
HasNextToken ==
    /\ mpc = "stop?"
    /\ n_decoded[mslot] < NPredict
    /\ NextSlot(mslot)
    /\ mslot' = 1
    /\ UNCHANGED <<queueVars, responseVars, mtask, slot_task, n_decoded,
                   httpVars>>

\* end of sequence, stop word or no budget left: send_final_response
Stop ==
    /\ mpc = "stop?"
    /\ Send(Result(slot_task[mslot], "final"))
    /\ mpc' = "release"
    /\ UNCHANGED <<queueVars, mtask, mslot, batch, slot_task, n_decoded,
                   httpVars>>

\* the prompt ends the task: an embedding, an empty prompt, or a prompt error; or
\* a generating slot runs out of context that may not be shifted
PromptEnds ==
    /\ mpc = "slots"
    /\ LET s == Min(batch)
       IN  /\ \E kind \in {"final", "error"} :
                 /\ kind = "final" => n_decoded[s] = 0
                 /\ Send(Result(slot_task[s], kind))
           /\ mslot' = s
    /\ mpc' = "release"
    /\ UNCHANGED <<queueVars, mtask, batch, slot_task, n_decoded, httpVars>>

ReleaseSlot ==
    /\ mpc = "release"
    /\ Release(mslot)
    /\ NextSlot(mslot)
    /\ mslot' = 1
    /\ UNCHANGED <<responseVars, mtask, httpVars>>

\* llama_decode fails for good: every busy slot, batched or not, is failed
DecodeFails ==
    /\ mpc = "slots"
    /\ batch' = Busy
    /\ mpc' = "fail"
    /\ UNCHANGED <<queueVars, responseVars, mtask, mslot, slot_task, n_decoded,
                   httpVars>>

FailSlot ==
    /\ mpc = "fail"
    /\ mslot' = Min(batch)
    /\ Send(Result(slot_task[Min(batch)], "error"))
    /\ mpc' = "fail release"
    /\ UNCHANGED <<queueVars, mtask, batch, slot_task, n_decoded, httpVars>>

ReleaseFailed ==
    /\ mpc = "fail release"
    /\ Release(mslot)
    /\ batch' = batch \ {mslot}
    /\ mpc' = IF batch = {mslot} THEN "wait" ELSE "fail"
    /\ mslot' = 1
    /\ UNCHANGED <<responseVars, mtask, httpVars>>

MainNext ==
    /\ UNCHANGED scene
    /\ \/ MainPop \/ MainDrained \/ MainWake
       \/ DeferTask \/ LaunchSlotWithTask \/ RejectTask
       \/ ProcessNextResponse \/ ProcessControl \/ ProcessSlotAction
       \/ ProcessCancel
       \/ UpdateSlots \/ SampleToken \/ HasNextToken \/ Stop \/ PromptEnds
       \/ ReleaseSlot \/ DecodeFails \/ FailSlot \/ ReleaseFailed

-----------------------------------------------------------------------------
(***************************************************************************)
(* The HTTP threads.  A thread registers the ids it waits for before it    *)
(* posts the tasks.                                                        *)
(***************************************************************************)
TasksOf(h) == [i \in 1 .. Request[h].n |-> Task(Request[h].type, <<h, i>>, NoId)]
IsControl(h) == Request[h].type \in ControlTypes
Goto(h, label) == pc' = [pc EXCEPT ![h] = label]

\* the handler of completions turns the request down before it posts anything: a
\* prompt does not fit into a slot
HttpRefuse(h) ==
    /\ pc[h] = "start" /\ Request[h].type = "COMPLETION"
    /\ Goto(h, "done")
    /\ UNCHANGED <<queueVars, responseVars, mainVars, got, todo, closed>>

HttpRegister(h) ==
    /\ pc[h] = "start"
    /\ AddWaiting(Ids(h))
    /\ Goto(h, "post")
    /\ UNCHANGED <<queueVars, mainVars, got, todo, closed>>

HttpPost(h) ==
    /\ pc[h] = "post"
    /\ Post(TasksOf(h), Request[h].type = "METRICS")
    /\ Goto(h, IF Request[h].stream THEN "stream" ELSE "recv")
    /\ UNCHANGED <<responseVars, mainVars, got, todo, closed>>

\* httplib calls the chunked content provider only if it can still write;
\* otherwise only on_complete runs
HttpStream(h) ==
    /\ pc[h] = "stream"
    /\ Goto(h, IF closed[h] THEN "remove" ELSE "recv")
    /\ UNCHANGED <<queueVars, responseVars, mainVars, got, todo, closed>>

(***************************************************************************)
(* receive_multi_results and receive_cmpl_results_stream: one result, then *)
(* the test of the connection, then what the result asks for.  A thread    *)
(* serving a control request uses recv(), which never tests the connection.*)
(***************************************************************************)
StartCancel(h) ==
    /\ Goto(h, "cancel")
    /\ todo' = [todo EXCEPT ![h] = Ids(h)]
    /\ UNCHANGED got

HttpReceive(h) ==
    /\ pc[h] = "recv"
    /\ Recv(Ids(h))
    /\ LET r == queue_results[Oldest(Ids(h))]
       IN  \/ /\ IsControl(h)
              /\ got' = [got EXCEPT ![h] = @ \cup {r.id}]
              /\ Goto(h, "remove")
              /\ UNCHANGED todo
           \/ /\ ~IsControl(h) /\ (closed[h] \/ r.kind = "error")
              /\ StartCancel(h)
           \/ /\ ~IsControl(h) /\ ~closed[h] /\ r.kind = "partial"
              /\ UNCHANGED <<pc, got, todo>>
           \/ /\ ~IsControl(h) /\ ~closed[h] /\ r.kind = "final"
              /\ got' = [got EXCEPT ![h] = @ \cup {r.id}]
              /\ Goto(h, IF got'[h] = Ids(h) THEN "remove" ELSE "recv")
              /\ UNCHANGED todo
    /\ UNCHANGED <<queueVars, mainVars, closed>>

\* recv_with_timeout times out and the connection is tested; recv() has no
\* timeout, so the threads of control requests never poll
HttpPoll(h) ==
    /\ pc[h] = "recv"
    /\ ~IsControl(h) /\ ~Available(Ids(h))
    /\ IF closed[h] THEN StartCancel(h) ELSE UNCHANGED <<pc, got, todo>>
    /\ UNCHANGED <<queueVars, responseVars, mainVars, closed>>

\* cancel_tasks: remove_waiting_task_id for each id, then post the CANCELs
HttpCancelRemove(h) ==
    /\ pc[h] = "cancel"
    /\ \E id \in todo[h] :
         /\ RemoveWaitingTaskId(id)
         /\ todo' = [todo EXCEPT ![h] = @ \ {id}]
    /\ UNCHANGED <<queueVars, mainVars, pc, got, closed>>

HttpCancelPost(h) ==
    /\ pc[h] = "cancel" /\ todo[h] = {}
    /\ Post([i \in 1 .. Request[h].n |-> Task("CANCEL", NoId, <<h, i>>)], TRUE)
    /\ Goto(h, "remove")
    /\ UNCHANGED <<responseVars, mainVars, got, todo, closed>>

\* remove_waiting_task_id for control requests, remove_waiting_task_ids else
HttpFinish(h) ==
    /\ pc[h] = "remove"
    /\ IF IsControl(h) THEN RemoveWaitingTaskId(<<h, 1>>)
                       ELSE RemoveWaitingTaskIds(Ids(h))
    /\ Goto(h, "done")
    /\ UNCHANGED <<queueVars, mainVars, got, todo, closed>>

HttpNext(h) ==
    /\ UNCHANGED scene
    /\ \/ HttpRefuse(h) \/ HttpRegister(h) \/ HttpPost(h) \/ HttpStream(h)
       \/ HttpReceive(h) \/ HttpPoll(h) \/ HttpCancelRemove(h)
       \/ HttpCancelPost(h) \/ HttpFinish(h)

\* the client goes away
Disconnect(h) ==
    /\ Request[h].mayClose /\ ~closed[h] /\ pc[h] # "done"
    /\ closed' = [closed EXCEPT ![h] = TRUE]
    /\ UNCHANGED <<queueVars, responseVars, mainVars, pc, got, todo, scene>>

\* every request is over and the main thread waits for more
Quiescent ==
    /\ mpc = "wait" /\ queue_tasks = <<>>
    /\ \A h \in Handlers : pc[h] = "done"
    /\ UNCHANGED vars

Next == MainNext \/ (\E h \in Handlers : HttpNext(h) \/ Disconnect(h)) \/ Quiescent

(***************************************************************************)
(* The main loop and every HTTP thread keep running; clients need not.     *)
(***************************************************************************)
Spec == /\ Init /\ [][Next]_vars
        /\ WF_vars(MainNext)
        /\ \A h \in Handlers : WF_vars(HttpNext(h))

-----------------------------------------------------------------------------
AllIds == UNION {Ids(h) : h \in Handlers}
Tasks == [type : InferenceTypes \cup ControlTypes, id : AllIds, target : {NoId}]
         \cup {Task("CANCEL", NoId, id) : id \in AllIds} \cup {NextResponse}

TypeOK ==
    /\ scene \in DOMAIN Scenarios
    /\ queue_tasks \in Seq(Tasks) /\ queue_tasks_deferred \in Seq(Tasks)
    /\ waiting_task_ids \subseteq AllIds
    /\ queue_results \in Seq([id : AllIds, kind : {"partial", "final", "error"}])
    /\ mpc \in {"pop", "process", "update", "slots", "stop?", "release", "fail",
                "fail release", "wait"}
    /\ mtask \in Tasks /\ mslot \in Slots /\ batch \subseteq Slots
    /\ slot_task \in [Slots -> AllIds \cup {NoId}]
    /\ n_decoded \in [Slots -> 0 .. NPredict]
    /\ pc \in [Handlers -> {"start", "post", "stream", "recv", "cancel",
                            "remove", "done"}]
    /\ \A h \in Handlers : got[h] \subseteq Ids(h) /\ todo[h] \subseteq Ids(h)
    /\ closed \in [Handlers -> BOOLEAN]

(***************************************************************************)
(* Where a task can be: queued, deferred, in the main thread's hands or in *)
(* a slot                                                                  *)
(***************************************************************************)
Homes(id) ==
    ({"queue"} \X {i \in DOMAIN queue_tasks : queue_tasks[i].id = id})
    \cup ({"deferred"} \X {i \in DOMAIN queue_tasks_deferred :
                                queue_tasks_deferred[i].id = id})
    \cup ({"main"} \X {i \in {1} : mpc = "process" /\ mtask.id = id})
    \cup ({"slot"} \X {s \in Slots : slot_task[s] = id})

(***************************************************************************)
(* No task is in two places, and a task whose client still waits is in one *)
(* or its last result is waiting to be taken: no interleaving of post,     *)
(* defer, pop_deferred_task, release and send duplicates or loses a        *)
(* request (or gives a variable a value of another type).                  *)
(***************************************************************************)
NoTaskLost ==
    /\ TypeOK
    /\ \A id \in AllIds : \A x, y \in Homes(id) : x = y
    /\ \A h \in Handlers : pc[h] \in {"stream", "recv"} =>
          \A id \in Ids(h) \ got[h] :
             \/ Homes(id) # {}
             \/ \E i \in DOMAIN queue_results :
                  queue_results[i].id = id /\ queue_results[i].kind # "partial"

(***************************************************************************)
(* Every queued result has somebody waiting for it, so the vector does not *)
(* grow with results of finished requests.  remove_waiting_task_ids does   *)
(* not clean the queue: this holds as long as whoever calls it has         *)
(* received every result first, and fails for a stream whose client goes   *)
(* before the content provider first runs.                                 *)
(***************************************************************************)
ResultsHaveWaiters ==
    \A i \in DOMAIN queue_results : queue_results[i].id \in waiting_task_ids

(***************************************************************************)
(* After the last result of a task none follows it, so a client that stops *)
(* reading at is_stop() leaves nothing behind.                             *)
(***************************************************************************)
StopIsLast ==
    \A i, j \in DOMAIN queue_results :
        (i < j /\ queue_results[i].id = queue_results[j].id)
            => queue_results[i].kind = "partial"

(***************************************************************************)
(* The main thread blocks only when there is nothing left to do: a slot    *)
(* that works keeps start_loop turning by NEXT_RESPONSE, and a deferred    *)
(* task is always due to be reconsidered, because some slot is busy and    *)
(* will be released or a task is in flight that will take a slot.          *)
(***************************************************************************)
BlocksWhenDone ==
    (mpc = "wait" /\ queue_tasks = <<>>) => Busy = {} /\ queue_tasks_deferred = <<>>

(***************************************************************************)
(* Every request is answered.                                              *)
(***************************************************************************)
Answered == \A h \in Handlers : <>(pc[h] = "done")

(***************************************************************************)
(* Once a request is over and its cancellations are processed, none of its *)
(* tasks is left to run ("if this is cancel task make sure to clean up     *)
(* pending tasks", server_queue::post).                                    *)
(***************************************************************************)
CancelPending(id) ==
    \/ \E i \in DOMAIN queue_tasks : queue_tasks[i].target = id
    \/ mpc = "process" /\ mtask.target = id

CancelledIsGone ==
    \A h \in Handlers : pc[h] = "done" =>
        \A id \in Ids(h) \ got[h] : CancelPending(id) \/ Homes(id) = {}
=============================================================================
