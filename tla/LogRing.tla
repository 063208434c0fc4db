------------------------------- MODULE LogRing -------------------------------
(***************************************************************************)
(* common_log of common/log.cpp: threads of the program add messages to a  *)
(* ring of entries that doubles when it is full; one worker thread takes   *)
(* them out and prints them.  Pausing puts an end mark into the ring and   *)
(* joins the worker.  What log.h calls "not thread-safe" (pause, resume,   *)
(* set_file, set_colors, the destructor) is done by one thread, the        *)
(* controller; add and set_prefix by any thread.  A step is what a thread  *)
(* does between two points where another one can see or change the state.  *)
(***************************************************************************)
EXTENDS Integers, SeqOps

CONSTANTS
    Capacity,   \* entries at the start (256)
    Files,      \* what set_file is called with
    Levels,     \* levels of messages, "debug" among them
    Prefixes,   \* what set_prefix is called with
    MaxAdds,    \* bound: messages
    MaxOps      \* bound: calls of the controller

ASSUME RingAssumption == Capacity \in Nat /\ Capacity >= 2

NoFile == "none"

VARIABLES
    entries, head, tail,    \* the ring: entries[0 .. size-1]
    running, prefix,
    file, colors,           \* read by the worker without the mutex
    worker, cur,            \* the thread: where it is, the entry it took
    op, then,               \* controller: where it is and what follows the pause
    adds, ops,              \* counters of the bounds
    accepted, printed, filed,   \* history: messages added, shown, written to a file
    overrun                 \* history: an end mark made the ring look empty

ringVars   == <<entries, head, tail>>
workerVars == <<worker, cur>>
ctlVars    == <<op, then, ops>>
historyVars == <<accepted, printed, filed, overrun>>
vars == <<ringVars, running, prefix, file, colors, workerVars, ctlVars, adds, historyVars>>

Size == Len(entries)
Slot(i) == entries[i + 1]
Incr(i) == (i + 1) % Size

Blank == [msg |-> 0, level |-> "none", prefix |-> FALSE, is_end |-> FALSE]

\* The entries between head and tail, oldest first.
Pending == [i \in 1 .. (tail - head) % Size |-> Slot((head + i - 1) % Size)]

\* The constructor, after its resume.
Init ==
    /\ entries = [i \in 1 .. Capacity |-> Blank]
    /\ head = 0 /\ tail = 0
    /\ running = TRUE /\ prefix = FALSE
    /\ file = NoFile /\ colors = FALSE
    /\ worker = "check" /\ cur = Blank
    /\ op = "idle" /\ then = "none"
    /\ adds = 0 /\ ops = 0
    /\ accepted = <<>> /\ printed = <<>> /\ filed = <<>> /\ overrun = FALSE

\* notify_one; the worker is the only one that waits.
Notify == worker' = IF worker = "sleep" THEN "check" ELSE worker

\* The message as it was logged and the settings in force then.
Logged(e) == [msg |-> e.msg, level |-> e.level, prefix |-> e.prefix,
              file |-> file, colors |-> colors]

\* Bound on the messages; the program does not use the log it destroyed.
MayLog == adds < MaxAdds /\ op # "destroyed"

-----------------------------------------------------------------------------
\* add when the worker is paused
Discard ==
    /\ MayLog /\ ~running
    /\ adds' = adds + 1
    /\ UNCHANGED <<ringVars, running, prefix, file, colors, workerVars, ctlVars, historyVars>>

\* add: write the slot at tail; when that fills the ring, move the entries in
\* order to one twice as large; wake the worker.
Put(level, full, wake) ==
    LET e     == [msg |-> adds + 1, level |-> level, prefix |-> prefix, is_end |-> FALSE]
        next  == [entries EXCEPT ![tail + 1] = e]
        moved == [i \in 1 .. 2 * Size |->
                    IF i <= Size THEN next[((head + i - 1) % Size) + 1] ELSE Blank]
    IN  /\ MayLog /\ running
        /\ adds' = adds + 1
        /\ entries' = IF full THEN moved ELSE next
        /\ head' = IF full THEN 0 ELSE head
        /\ tail' = IF full THEN Size ELSE Incr(tail)
        /\ accepted' = Append(accepted, Logged(e))
        /\ IF wake THEN Notify ELSE UNCHANGED worker
        /\ UNCHANGED <<running, prefix, file, colors, cur, ctlVars, printed, filed, overrun>>

\* Mutants: a full ring is not expanded; the worker is not woken.
AddOverwrites(level) == Put(level, FALSE, TRUE)
AddSilent(level)     == Put(level, Incr(tail) = head, FALSE)

Add(level) == Put(level, Incr(tail) = head, TRUE)

SetPrefix(on) ==
    /\ MayLog
    /\ prefix' = on
    /\ UNCHANGED <<ringVars, running, file, colors, workerVars, ctlVars, adds, historyVars>>

-----------------------------------------------------------------------------
(* The worker *)

workerKeeps == <<running, prefix, file, colors, ctlVars, adds, tail>>

Wait ==
    /\ worker = "check" /\ head = tail
    /\ worker' = "sleep"
    /\ UNCHANGED <<entries, head, cur, historyVars, workerKeeps>>

\* Of a slot that has been taken only the mark is ever looked at again.
Take ==
    /\ worker = "check" /\ head # tail
    /\ cur' = IF Slot(head).is_end THEN Blank ELSE Slot(head)
    /\ entries' = [entries EXCEPT ![head + 1] = [Blank EXCEPT !.is_end = Slot(head).is_end]]
    /\ head' = Incr(head)
    /\ worker' = IF Slot(head).is_end THEN "ended" ELSE "print"
    /\ UNCHANGED <<historyVars, workerKeeps>>

\* cur.print(): to the terminal, where debug messages are not shown
PrintEntry ==
    /\ worker = "print"
    /\ worker' = "print_file"
    /\ printed' = IF cur.level = "debug" THEN printed ELSE Append(printed, Logged(cur))
    /\ UNCHANGED <<entries, head, cur, accepted, filed, overrun, workerKeeps>>

\* if (file) cur.print(file): there all messages go
PrintFile ==
    /\ worker = "print_file"
    /\ worker' = "check"
    /\ cur' = Blank
    /\ filed' = IF file = NoFile THEN filed ELSE Append(filed, Logged(cur))
    /\ UNCHANGED <<entries, head, accepted, printed, overrun, workerKeeps>>

-----------------------------------------------------------------------------
(* The controller *)

ctlKeeps == <<prefix, cur, adds, accepted, printed, filed>>

Ops == {"pause", "resume", "destroy", "colors"} \cup Files \cup {NoFile}

\* A call of pause, set_file(path), set_colors or the destructor: the pause
\* part, up to the join.  A log that is not running has nothing to join.
Pause(o) ==
    /\ op = "idle" /\ ops < MaxOps
    /\ ops' = ops + 1
    /\ then' = o
    /\ \/ /\ ~running
          /\ op' = "joined"
          /\ UNCHANGED <<ringVars, running, worker, overrun>>
       \/ /\ running
          /\ running' = FALSE
          /\ entries' = [entries EXCEPT ![tail + 1].is_end = TRUE]
          /\ tail' = Incr(tail)
          /\ overrun' = (overrun \/ Incr(tail) = head)
          /\ Notify
          /\ op' = "join"
          /\ UNCHANGED head
    /\ UNCHANGED <<file, colors, ctlKeeps>>

\* Mutant: the worker is not joined.
JoinAtOnce ==
    /\ op = "join"
    /\ worker' = "none"
    /\ op' = "joined"
    /\ UNCHANGED <<ringVars, running, file, colors, then, ops, overrun, ctlKeeps>>

Join ==
    /\ op = "join" /\ worker = "ended"
    /\ worker' = "none"
    /\ op' = "joined"
    /\ UNCHANGED <<ringVars, running, file, colors, then, ops, overrun, ctlKeeps>>

\* Behind the pause: set_file and set_colors change what the worker reads, and
\* resume; pause and the destructor are done.
Change ==
    /\ op = "joined"
    /\ file' = IF then \in Files \cup {NoFile} THEN then
               ELSE IF then = "destroy" THEN NoFile ELSE file
    /\ colors' = IF then = "colors" THEN ~colors ELSE colors
    /\ op' = CASE then = "pause"   -> "idle"
               [] then = "destroy" -> "destroyed"
               [] OTHER            -> "resume"
    /\ then' = IF op' = "resume" THEN then ELSE "none"
    /\ UNCHANGED <<ringVars, running, worker, ops, overrun, ctlKeeps>>

\* resume, alone or behind a change: a running log keeps its thread.
Resume ==
    /\ \/ op = "resume" /\ ops' = ops
       \/ op = "idle" /\ ops < MaxOps /\ ops' = ops + 1
    /\ op' = "idle" /\ then' = "none"
    /\ running' = TRUE
    /\ worker' = IF running THEN worker ELSE "check"
    /\ UNCHANGED <<ringVars, file, colors, overrun, ctlKeeps>>

-----------------------------------------------------------------------------
WorkerStep == Wait \/ Take \/ PrintEntry \/ PrintFile

Controller ==
    \/ \E o \in Ops \ {"resume"} : Pause(o)
    \/ Join
    \/ Change
    \/ Resume

Next ==
    \/ Discard
    \/ \E level \in Levels : Add(level)
    \/ \E on \in Prefixes : SetPrefix(on)
    \/ WorkerStep
    \/ Controller

\* The worker runs, and a call the controller is in goes on when it can; nobody
\* has to log or to call.
Fairness == WF_vars(WorkerStep) /\ WF_vars(Join \/ Change \/ (op = "resume" /\ Resume))

Spec == Init /\ [][Next]_vars /\ Fairness

-----------------------------------------------------------------------------
TypeOK ==
    /\ Size >= Capacity
    /\ head \in 0 .. Size - 1 /\ tail \in 0 .. Size - 1
    /\ worker \in {"check", "sleep", "print", "print_file", "ended", "none"}
    /\ op \in {"idle", "join", "joined", "resume", "destroyed"}
    /\ running => worker \notin {"ended", "none"}

Messages(s)  == Keep(s, {e \in Range(s) : ~e.is_end})
AsLogged(s)  == [i \in 1 .. Len(s) |-> Logged(s[i])]
Shown(s)     == Keep(s, {m \in Range(s) : m.level # "debug"})
ToFile(s)    == Keep(s, {m \in Range(s) : m.file # NoFile})
InHand(at)   == IF worker \in at THEN <<cur>> ELSE <<>>

\* common_log: every message that add accepted is shown exactly once, in the
\* order of the calls, with the prefix, colours and file in force when it was
\* logged, also when the ring wraps and grows; unless a pause overran the ring.
\* The file gets the same, and the debug messages too.
PrintedInOrder ==
    ~overrun =>
        /\ Shown(accepted) = printed \o Shown(AsLogged(InHand({"print"}) \o Messages(Pending)))
        /\ ToFile(accepted) = filed \o
                ToFile(AsLogged(InHand({"print", "print_file"}) \o Messages(Pending)))

\* pause returns only when the worker has ended and has printed all there was;
\* all variables keep their types, and a log that runs has a worker.
PausedIsEmpty ==
    /\ TypeOK
    /\ ~running /\ op # "join" => head = tail /\ worker = "none"

\* A log that was not overrun gets everything out, and its pause returns.
Drained ==
    /\ []<>(overrun \/ Shown(accepted) = printed)
    /\ op = "join" ~> (overrun \/ op # "join")

\* "make sure all logs are flushed" (the interrupt handler of tools/main):
\* once pause is called, everything logged before gets out.
PauseFlushes == op = "join" ~> Shown(accepted) = printed
=============================================================================
