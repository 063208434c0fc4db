--------------------------- MODULE ServerResponse ---------------------------
(***************************************************************************)
(* server_response of tools/server/server.cpp: the results of tasks, kept  *)
(* until the HTTP thread that waits for them takes them.  Every operation  *)
(* holds mutex_results throughout.  A push notifies every waiting thread   *)
(* under the lock and the waits re-test under the lock, so a waiting       *)
(* thread is modelled by the test it waits for.                            *)
(***************************************************************************)
EXTENDS SeqOps

VARIABLES
    waiting_task_ids,   \* ids whose results somebody waits for
    queue_results       \* std::vector of results, oldest first

responseVars == <<waiting_task_ids, queue_results>>

\* server_task_result: whose it is, and "partial", "final" or "error"
Result(id, kind) == [id |-> id, kind |-> kind]

(***************************************************************************)
(* add_waiting_task_id, add_waiting_tasks                                  *)
(***************************************************************************)
AddWaiting(ids) ==
    /\ waiting_task_ids' = waiting_task_ids \cup ids
    /\ UNCHANGED queue_results

(***************************************************************************)
(* remove_waiting_task_id: also drops the results already queued           *)
(***************************************************************************)
RemoveWaitingKeepResults(id) ==
    /\ waiting_task_ids' = waiting_task_ids \ {id}
    /\ UNCHANGED queue_results

RemoveWaitingTaskId(id) ==
    /\ waiting_task_ids' = waiting_task_ids \ {id}
    /\ queue_results' = Keep(queue_results, {r \in Range(queue_results) : r.id # id})

(***************************************************************************)
(* remove_waiting_task_ids: leaves queue_results alone                     *)
(***************************************************************************)
RemoveWaitingTaskIds(ids) ==
    /\ waiting_task_ids' = waiting_task_ids \ ids
    /\ UNCHANGED queue_results

(***************************************************************************)
(* send(): a result nobody waits for is dropped                            *)
(***************************************************************************)
SendDropped(result) == UNCHANGED responseVars

Send(result) ==
    /\ queue_results' = IF result.id \in waiting_task_ids
                        THEN Append(queue_results, result)
                        ELSE queue_results
    /\ UNCHANGED waiting_task_ids

(***************************************************************************)
(* recv(), recv_with_timeout(): the oldest result of one of ids, at index  *)
(* Oldest(ids), is taken out of the vector                                 *)
(***************************************************************************)
Available(ids) == \E i \in DOMAIN queue_results : queue_results[i].id \in ids

Oldest(ids) ==
    CHOOSE i \in DOMAIN queue_results :
        /\ queue_results[i].id \in ids
        /\ \A j \in 1 .. i - 1 : queue_results[j].id \notin ids

Recv(ids) ==
    /\ Available(ids)
    /\ queue_results' = Without(queue_results, Oldest(ids))
    /\ UNCHANGED waiting_task_ids
=============================================================================
