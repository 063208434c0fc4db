---------------------------- MODULE ServerQueue ----------------------------
(***************************************************************************)
(* server_queue of tools/server/server.cpp: the queue of tasks the main    *)
(* loop works on and the queue of tasks deferred until a slot is free.     *)
(* Every operation holds mutex_tasks from its first to its last line, so   *)
(* each is one atomic update of the two queues.  The integer counter that  *)
(* numbers tasks is abstracted: a task a client waits for is identified by *)
(* its request and its index in it, every other task has no identity that  *)
(* any code compares (NoId).                                               *)
(***************************************************************************)
EXTENDS SeqOps

CONSTANT NoId       \* the identity of tasks nobody waits for

VARIABLES
    queue_tasks,            \* std::deque<server_task>, front first
    queue_tasks_deferred    \* std::deque<server_task>, front first

queueVars == <<queue_tasks, queue_tasks_deferred>>

\* server_task, reduced to the fields the control flow reads
Task(type, id, target) == [type |-> type, id |-> id, target |-> target]

(***************************************************************************)
(* cleanup_pending_task: drop the target of a cancellation from a queue    *)
(***************************************************************************)
Cleaned(queue, targets) ==
    Keep(queue, {t \in Range(queue) : t.id \notin targets})

(***************************************************************************)
(* post(): the tasks are posted in order under one lock; a cancellation    *)
(* first cleans up the pending tasks it targets.                           *)
(***************************************************************************)
Post(tasks, front) ==
    LET targets == {t.target : t \in Range(tasks)} \ {NoId}
        rest    == Cleaned(queue_tasks, targets)
    IN  /\ queue_tasks' = IF front THEN Reversed(tasks) \o rest
                                   ELSE rest \o tasks
        /\ queue_tasks_deferred' = Cleaned(queue_tasks_deferred, targets)

(***************************************************************************)
(* defer(): keep the task until a slot is released                         *)
(***************************************************************************)
DeferDropped(task) == UNCHANGED queueVars

Defer(task) ==
    /\ queue_tasks_deferred' = Append(queue_tasks_deferred, task)
    /\ UNCHANGED queue_tasks

NoPopDeferredTask == UNCHANGED queueVars

(***************************************************************************)
(* pop_deferred_task(): one deferred task moves to the front of the queue  *)
(***************************************************************************)
PopDeferredTask ==
    IF queue_tasks_deferred = <<>>
    THEN UNCHANGED queueVars
    ELSE /\ queue_tasks' = <<Head(queue_tasks_deferred)>> \o queue_tasks
         /\ queue_tasks_deferred' = Tail(queue_tasks_deferred)

(***************************************************************************)
(* start_loop takes the front task (the guard is the loop's own test)      *)
(***************************************************************************)
TakeFront ==
    /\ queue_tasks # <<>>
    /\ queue_tasks' = Tail(queue_tasks)
    /\ UNCHANGED queue_tasks_deferred
=============================================================================
