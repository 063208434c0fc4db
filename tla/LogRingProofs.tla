---------------------------- MODULE LogRingProofs ----------------------------
(***************************************************************************)
(* Proofs about common_log: its ring is a queue for every capacity,        *)
(* through wraps and expansions, pausing waits for the end of it, and what *)
(* is shown are the messages in their order, with their settings.          *)
(***************************************************************************)
EXTENDS LogRing, SeqOpsProofs

-----------------------------------------------------------------------------
(***************************************************************************)
(* The ring                                                                *)
(***************************************************************************)
Entry == [msg : Nat, level : Levels \cup {"none"}, prefix : Prefixes \cup {FALSE},
          is_end : BOOLEAN]

LoggedSet == [msg : Nat, level : Levels \cup {"none"}, prefix : Prefixes \cup {FALSE},
              file : Files \cup {NoFile}, colors : BOOLEAN]

\* How many entries there are between head and tail, and where the k-th is.
Count == IF head <= tail THEN tail - head ELSE tail - head + Size
At(k) == IF head + k < Size THEN head + k ELSE head + k - Size

\* The end mark is there from the pause until the worker takes it.
MarkWaits == op = "join" /\ worker # "ended" /\ ~overrun

\* The messages in the ring, and those that were taken out so far.
Waits == IF MarkWaits THEN Count - 1 ELSE Count
Taken == Len(accepted) - Waits

(***************************************************************************)
(* A step of the worker takes the message that add accepted next after the *)
(* ones taken before, with the file and the colours it was logged under.   *)
(***************************************************************************)
TakesTheNext ==
    ~overrun' => \/ Taken' = Taken
                 \/ /\ Taken' = Taken + 1 /\ worker' = "print"
                    /\ Logged(cur)' = accepted[Taken']

(***************************************************************************)
(* The inductive invariant: the types; what the states of worker and       *)
(* controller say of each other; the end mark is the last entry or none;   *)
(* and the messages in the ring are the last ones accepted.                *)
(***************************************************************************)
RingTypes ==
    /\ entries \in Seq(Entry) /\ Size >= Capacity
    /\ head \in 0 .. Size - 1 /\ tail \in 0 .. Size - 1
    /\ adds \in Nat /\ accepted \in Seq(LoggedSet)

FlagTypes ==
    /\ running \in BOOLEAN /\ overrun \in BOOLEAN /\ colors \in BOOLEAN
    /\ prefix \in Prefixes \cup {FALSE} /\ file \in Files \cup {NoFile}

ThreadTypes ==
    /\ worker \in {"check", "sleep", "print", "print_file", "ended", "none"}
    /\ op \in {"idle", "join", "joined", "resume", "destroyed"}
    /\ cur \in Entry

Phases ==
    /\ running => op = "idle" /\ worker \notin {"ended", "none"}
    /\ ~running /\ op # "join" => worker = "none" /\ head = tail
    /\ op = "join" => ~running /\ worker # "none"
    /\ worker = "ended" => op = "join" /\ head = tail
    /\ overrun => op = "join" /\ head = tail /\ worker # "ended"

Marks ==
    /\ \A k \in 0 .. Count - 1 : Slot(At(k)).is_end <=> op = "join" /\ k = Count - 1
    /\ MarkWaits => Count >= 1

Fifo ==
    ~overrun =>
        /\ Taken >= 0
        /\ \A k \in 0 .. Waits - 1 : Logged(Slot(At(k))) = accepted[Taken + k + 1]
        /\ worker \in {"print", "print_file"} =>
                Taken >= 1 /\ Logged(cur) = accepted[Taken]

IInv == RingTypes /\ FlagTypes /\ ThreadTypes /\ Phases /\ Marks /\ Fifo

-----------------------------------------------------------------------------
\* The index after i, without the remainder.
LEMMA IncrIs ==
    ASSUME RingTypes, NEW i \in 0 .. Size - 1
    PROVE  Incr(i) = IF i + 1 = Size THEN 0 ELSE i + 1
<1>1. Size \in Nat /\ Size >= 2
  BY RingAssumption DEF RingTypes, Size
<1>2. CASE i + 1 = Size
  BY <1>1, <1>2 DEF Incr
<1>3. CASE i + 1 # Size
  <2>1. i + 1 \in 0 .. Size - 1
    BY <1>1, <1>3
  <2> QED BY <1>1, <1>3, <2>1 DEF Incr
<1> QED BY <1>2, <1>3

\* The index at distance k from head is where the expansion looks for it.
LEMMA AtIs ==
    ASSUME RingTypes, NEW k \in 0 .. Size - 1
    PROVE  (head + k) % Size = At(k) /\ At(k) \in 0 .. Size - 1
<1>1. Size \in Nat /\ Size >= 2 /\ head \in 0 .. Size - 1
  BY RingAssumption DEF RingTypes, Size
<1>2. CASE head + k < Size
  <2>1. head + k \in 0 .. Size - 1
    BY <1>1, <1>2
  <2> QED BY <1>1, <1>2, <2>1 DEF At
<1>3. CASE head + k >= Size
  <2>1. head + k - Size \in 0 .. Size - 1
    BY <1>1, <1>3
  <2>2. (head + k) % Size = (head + k - Size) % Size
    BY <1>1, <2>1
  <2> QED BY <1>1, <1>3, <2>1, <2>2 DEF At
<1> QED BY <1>1, <1>2, <1>3

\* A new log is an empty queue.
LEMMA InitIInv == Init => IInv
<1> SUFFICES ASSUME Init PROVE IInv
  OBVIOUS
<1> USE DEF Init, Size
<1>1. Len(entries) = Capacity /\ entries \in Seq(Entry)
  BY RingAssumption DEF Entry, Blank
<1>2. FlagTypes
  BY Zenon DEF FlagTypes
<1>3. ThreadTypes
  BY DEF ThreadTypes, Entry, Blank
<1>4. RingTypes
  BY <1>1, RingAssumption DEF RingTypes
<1>5. Count = 0 /\ ~MarkWaits /\ Waits = 0 /\ Taken = 0
  BY SMTT(20) DEF Count, MarkWaits, Waits, Taken
<1> QED BY <1>2, <1>3, <1>4, <1>5, SMTT(20) DEF IInv, Phases, Marks, Fifo

\* The entries between head and tail are Count different ones, in front of tail.
LEMMA Positions ==
    ASSUME RingTypes
    PROVE  /\ Size \in Nat /\ Size >= 2 /\ Count \in 0 .. Size - 1
           /\ \A k \in 0 .. Size - 1 : At(k) \in 0 .. Size - 1
           /\ \A j, k \in 0 .. Size - 1 : At(j) = At(k) => j = k
           /\ At(Count) = tail /\ At(0) = head
           /\ head = tail <=> Count = 0
           /\ Incr(tail) = head <=> Count = Size - 1
<1>1. /\ Size \in Nat /\ Size >= 2
      /\ head \in 0 .. Size - 1 /\ tail \in 0 .. Size - 1
  BY RingAssumption DEF RingTypes, Size
<1>2. Incr(tail) = IF tail + 1 = Size THEN 0 ELSE tail + 1
  BY <1>1, IncrIs
<1> HIDE DEF Size
<1> QED BY <1>1, <1>2 DEF Count, At
\* A step that leaves the ring and the controller alone, and does not end the
\* worker, keeps what is said of the entries.
LEMMA RingKept ==
    ASSUME IInv, UNCHANGED <<ringVars, accepted, file, colors, overrun, op>>,
           (worker' = "ended") = (worker = "ended")
    PROVE  /\ Marks' /\ Waits' = Waits /\ Taken' = Taken
           /\ ~overrun => \A k \in 0 .. Waits' - 1 :
                             Logged(Slot(At(k)))' = accepted'[Taken' + k + 1]
<1>1. /\ Size' = Size /\ Count' = Count /\ MarkWaits' = MarkWaits
      /\ \A k \in 0 .. Count - 1 : At(k)' = At(k) /\ Slot(At(k))' = Slot(At(k))
  BY DEF ringVars, Size, Count, At, Slot, MarkWaits
<1>2. Waits' = Waits /\ Taken' = Taken
  BY <1>1 DEF Waits, Taken
<1>3. Marks'
  BY <1>1 DEF IInv, Marks
<1>4. ASSUME ~overrun, NEW k \in 0 .. Waits - 1
      PROVE  Logged(Slot(At(k)))' = accepted[Taken + k + 1]
  <2>1. Logged(Slot(At(k))) = accepted[Taken + k + 1]
    BY <1>4, Zenon DEF IInv, Fifo
  <2>2. Logged(Slot(At(k)))' = Logged(Slot(At(k)))
    BY DEF ringVars, Size, At, Slot, Logged
  <2> QED BY <2>1, <2>2
<1> QED BY <1>2, <1>3, <1>4, Zenon

\* Messages to a paused log, and new prefixes, touch nothing of this.
LEMMA OutsideSteps ==
    ASSUME IInv, Discard \/ \E on \in Prefixes : SetPrefix(on)
    PROVE  IInv' /\ Taken' = Taken
<1>1. /\ UNCHANGED <<ringVars, accepted, file, colors, overrun, op, worker, cur, running>>
      /\ adds' \in {adds, adds + 1} /\ (prefix' = prefix \/ prefix' \in Prefixes)
  BY Zenon DEF Discard, SetPrefix, workerVars, ctlVars, historyVars
<1>2. RingTypes' /\ ThreadTypes' /\ Phases'
  BY <1>1 DEF IInv, RingTypes, ThreadTypes, Phases, Size, ringVars
<1>3. FlagTypes'
  BY <1>1, Zenon DEF IInv, FlagTypes
<1>4. Logged(cur)' = Logged(cur)
  BY <1>1, Zenon DEF Logged
<1>5. Marks' /\ Fifo' /\ Taken' = Taken
  BY <1>1, <1>4, RingKept DEF IInv, Fifo
<1> QED BY <1>2, <1>3, <1>5, Zenon DEF IInv

\* The worker goes to sleep, or prints what it took.
LEMMA PrintSteps ==
    ASSUME IInv, Wait \/ PrintEntry \/ PrintFile
    PROVE  IInv' /\ Taken' = Taken
<1>1. /\ UNCHANGED <<ringVars, accepted, file, colors, overrun, op, running, prefix, adds>>
      /\ worker \in {"check", "print", "print_file"}
      /\ worker' \in {"sleep", "print_file", "check"}
      /\ cur' = cur \/ cur' = Blank
      /\ worker' = "print_file" => worker = "print" /\ cur' = cur
  BY Zenon DEF Wait, PrintEntry, PrintFile, workerKeeps, ctlVars, historyVars, ringVars
<1>2. RingTypes' /\ ThreadTypes' /\ Phases'
  <2>1. Blank \in Entry
    BY DEF Blank, Entry
  <2> QED BY <1>1, <2>1 DEF IInv, RingTypes, ThreadTypes, Phases, Size, ringVars
<1>3. FlagTypes'
  BY <1>1, Zenon DEF IInv, FlagTypes
<1>4. Logged(cur)' = Logged(cur) \/ worker' # "print_file"
  BY <1>1, Zenon DEF Logged
<1>5. Marks' /\ Fifo' /\ Taken' = Taken
  BY <1>1, <1>4, RingKept, Zenon DEF IInv, Fifo
<1> QED BY <1>2, <1>3, <1>5, Zenon DEF IInv
\* With an empty ring and nothing in the worker's hand there is nothing to say.
LEMMA NothingWaits ==
    ASSUME IInv, RingTypes', UNCHANGED <<ringVars, accepted>>, head = tail, ~MarkWaits,
           ~MarkWaits', worker' \notin {"print", "print_file"}
    PROVE  Marks' /\ Fifo' /\ Taken' = Taken
<1>1. Count = 0 /\ Count' = 0
  BY Positions DEF IInv, RingTypes, ringVars, Count
<1>2. Waits' = 0 /\ Taken = Len(accepted) /\ Taken' = Taken /\ Len(accepted) \in Nat
  BY <1>1 DEF Waits, Taken, IInv, RingTypes
<1> QED BY <1>1, <1>2, SMTT(20) DEF Marks, Fifo

\* The controller while nobody works: the join, the change of the settings, a
\* pause of a log that does not run, and the start of a worker.
LEMMA IdleSteps ==
    ASSUME IInv, \/ Join
                 \/ Change
                 \/ ~running /\ \E o \in Ops : Pause(o)
                 \/ ~running /\ Resume
    PROVE  IInv' /\ Taken' = Taken
<1>1. /\ UNCHANGED <<ringVars, accepted, overrun, prefix, adds, cur>>
      /\ op' \in {"idle", "joined", "resume", "destroyed"}
  BY DEF Join, Change, Pause, Resume, ctlKeeps
<1>2. head = tail /\ ~running /\ ~overrun /\ ~MarkWaits
  BY DEF IInv, Phases, ThreadTypes, MarkWaits, Join, Change, Pause, Resume
<1>3. \/ running' = running /\ worker' = "none"
      \/ running' = TRUE /\ op' = "idle" /\ worker' = "check"
  BY DEF IInv, Phases, Join, Change, Pause, Resume
<1>4. RingTypes' /\ ThreadTypes'
  BY <1>1, <1>3 DEF IInv, RingTypes, ThreadTypes, Size, ringVars
<1>5. FlagTypes'
  <2>1. file' \in Files \cup {NoFile} /\ colors' \in BOOLEAN
    <3>1. CASE Change
      BY <3>1, Zenon DEF Change, IInv, FlagTypes
    <3>2. CASE ~Change
      BY <3>2, Zenon DEF Join, Pause, Resume, IInv, FlagTypes
    <3> QED BY <3>1, <3>2
  <2> QED BY <1>1, <1>3, <2>1, Zenon DEF IInv, FlagTypes
<1>6. Phases'
  BY <1>1, <1>2, <1>3, SMTT(20) DEF Phases, ringVars
<1>7. Marks' /\ Fifo' /\ Taken' = Taken
  BY <1>1, <1>2, <1>3, <1>4, NothingWaits, Zenon DEF MarkWaits
<1> QED BY <1>4, <1>5, <1>6, <1>7 DEF IInv

\* A log that runs and is resumed goes on as it is.
LEMMA ResumeAgain ==
    ASSUME IInv, running, Resume
    PROVE  IInv' /\ Taken' = Taken
<1>1. /\ UNCHANGED <<ringVars, accepted, file, colors, overrun, prefix, adds, cur, worker>>
      /\ op = "idle" /\ op' = "idle" /\ running' = TRUE
  BY DEF Resume, ctlKeeps, IInv, Phases
<1>2. RingTypes' /\ ThreadTypes' /\ Phases'
  BY <1>1 DEF IInv, RingTypes, ThreadTypes, Phases, Size, ringVars
<1>3. FlagTypes'
  BY <1>1, Zenon DEF IInv, FlagTypes
<1>4. Logged(cur)' = Logged(cur)
  BY <1>1, Zenon DEF Logged
<1>5. Marks' /\ Fifo' /\ Taken' = Taken
  BY <1>1, <1>4, RingKept DEF IInv, Fifo
<1> QED BY <1>2, <1>3, <1>5, Zenon DEF IInv
\* Pausing a log that runs puts the mark behind the last message; in a full ring
\* that makes it look empty.
LEMMA PauseRunning ==
    ASSUME IInv, running, NEW o \in Ops, Pause(o)
    PROVE  IInv' /\ (~overrun' => Taken' = Taken)
<1>1. /\ UNCHANGED <<head, accepted, file, colors, prefix, adds, cur>>
      /\ op = "idle" /\ op' = "join" /\ ~running' /\ ~overrun
      /\ overrun' <=> Incr(tail) = head
      /\ tail' = Incr(tail)
      /\ entries' = [entries EXCEPT ![tail + 1].is_end = TRUE]
      /\ worker' = IF worker = "sleep" THEN "check" ELSE worker
      /\ worker \notin {"ended", "none"}
  BY Zenon DEF Pause, Notify, ctlKeeps, IInv, Phases
<1>2. /\ Size \in Nat /\ Size >= 2 /\ entries \in Seq(Entry) /\ Size = Len(entries)
      /\ head \in 0 .. Size - 1 /\ tail \in 0 .. Size - 1 /\ tail + 1 \in 1 .. Size
  BY Positions DEF IInv, RingTypes, Size
<1>3. Incr(tail) = IF tail + 1 = Size THEN 0 ELSE tail + 1
  BY <1>2, IncrIs DEF IInv
<1>4. PICK e \in Entry : /\ e.is_end /\ Logged(e) = Logged(entries[tail + 1])
                         /\ entries' = [entries EXCEPT ![tail + 1] = e]
  <2> DEFINE f == [entries[tail + 1] EXCEPT !.is_end = TRUE]
  <2>1. entries[tail + 1] \in Entry
    BY <1>2
  <2>2. f \in Entry /\ f.is_end /\ Logged(f) = Logged(entries[tail + 1])
    BY <2>1, Zenon DEF Entry, Logged
  <2>3. entries' = [entries EXCEPT ![tail + 1] = f]
    BY <1>1
  <2> QED BY <2>2, <2>3, Zenon
<1>5. /\ entries' \in Seq(Entry) /\ Size' = Size
      /\ \A i \in 0 .. Size - 1 : i # tail => Slot(i)' = Slot(i)
      /\ entries'[tail + 1] = e
  BY <1>2, <1>4 DEF Size, Slot
<1>6. RingTypes'
  BY <1>1, <1>2, <1>3, <1>5 DEF IInv, RingTypes
<1>7. ThreadTypes'
  BY <1>1 DEF IInv, ThreadTypes
<1>8. FlagTypes'
  BY Zenon DEF Pause, ctlKeeps, IInv, FlagTypes
<1>9. Phases'
  BY <1>1 DEF Phases
<1>10. Waits = Count /\ Count \in 0 .. Size - 1 /\ Taken = Len(accepted) - Count
  BY <1>1, Positions, Zenon DEF Waits, MarkWaits, Taken, IInv
<1>11. CASE Incr(tail) = head
  <2>1. Count' = 0 /\ ~MarkWaits' /\ overrun'
    BY <1>1, <1>2, <1>5, <1>11, SMTT(20) DEF Count, MarkWaits
  <2> QED BY <1>6, <1>7, <1>8, <1>9, <2>1 DEF IInv, Marks, Fifo
<1>12. CASE Incr(tail) # head
  <2>1. Count' = Count + 1 /\ Count + 1 <= Size - 1
    <3>1. head' = head /\ tail' = Incr(tail) /\ Size' = Size
      BY <1>1, <1>5
    <3> QED BY <3>1, <1>2, <1>3, <1>12 DEF Count
  <2>2. MarkWaits' /\ Waits' = Count /\ Taken' = Taken /\ ~overrun'
    BY <1>1, <1>2, <1>10, <1>12, <2>1, SMTT(20) DEF MarkWaits, Waits, Taken
  <2>3. \A k \in 0 .. Size - 1 : At(k)' = At(k)
    BY <1>1, <1>5, Zenon DEF At
  <2>4. ASSUME NEW k \in 0 .. Size - 1, k = Count
        PROVE  Slot(At(k))'.is_end
    <3>1. At(k)' = tail
      BY <2>3, <2>4, Positions, Zenon DEF IInv
    <3> QED BY <3>1, <1>4, <1>5 DEF Slot
  <2>5. \A k \in 0 .. Count - 1 : Slot(At(k))' = Slot(At(k))
    <3> SUFFICES ASSUME NEW k \in 0 .. Count - 1 PROVE Slot(At(k))' = Slot(At(k))
      OBVIOUS
    <3>1. k \in 0 .. Size - 1 /\ k # Count
      BY <1>2, <1>10, SMTT(20)
    <3>2. At(k) \in 0 .. Size - 1 /\ At(k) # tail
      BY <1>10, <3>1, Positions DEF IInv
    <3> QED BY <3>1, <3>2, <2>3, <1>5, SMTT(20) DEF Slot
  <2>6. Marks'
    BY <1>1, <1>10, <2>1, <2>2, <2>3, <2>4, <2>5, SMTT(20) DEF IInv, Marks, MarkWaits
  <2>7. Fifo'
    BY <1>1, <1>10, <2>2, <2>5, Zenon DEF IInv, Fifo, Logged
  <2> QED BY <1>6, <1>7, <1>8, <1>9, <2>2, <2>6, <2>7, Zenon DEF IInv
<1> QED BY <1>11, <1>12
\* The worker takes the oldest entry: a message, or the mark when nothing else
\* is left.
LEMMA TakeStep ==
    ASSUME IInv, Take
    PROVE  IInv' /\ TakesTheNext /\ (worker' = "print" => Taken' = Taken + 1)
<1>1. /\ UNCHANGED <<tail, accepted, file, colors, prefix, adds, op, running, overrun>>
      /\ worker = "check" /\ head # tail /\ head' = Incr(head) /\ ~overrun
  BY DEF Take, workerKeeps, historyVars, ctlVars, IInv, Phases
<1>2. /\ Size \in Nat /\ Size >= 2 /\ entries \in Seq(Entry) /\ Size = Len(entries)
      /\ head \in 0 .. Size - 1 /\ tail \in 0 .. Size - 1 /\ head + 1 \in 1 .. Size
      /\ Slot(head) \in Entry
  BY Positions DEF IInv, RingTypes, Size, Slot
<1>3. Incr(head) = IF head + 1 = Size THEN 0 ELSE head + 1
  BY <1>2, IncrIs DEF IInv
<1>4. PICK e \in Entry : entries' = [entries EXCEPT ![head + 1] = e]
  <2> DEFINE f == [Blank EXCEPT !.is_end = Slot(head).is_end]
  <2>1. f \in Entry
    BY <1>2, Zenon DEF Entry, Blank
  <2> QED BY <2>1, Zenon DEF Take
<1>5. /\ entries' \in Seq(Entry) /\ Size' = Size
      /\ \A i \in 0 .. Size - 1 : i # head => Slot(i)' = Slot(i)
  BY <1>2, <1>4 DEF Size, Slot
<1>6. RingTypes'
  BY <1>1, <1>2, <1>3, <1>5 DEF IInv, RingTypes
<1>7. FlagTypes'
  BY <1>1, Zenon DEF IInv, FlagTypes
<1>8. /\ Count \in 1 .. Size - 1 /\ Count' = Count - 1
      /\ \A k \in 0 .. Size - 2 : At(k)' = At(k + 1)
  <2>1. Count \in 1 .. Size - 1
    BY <1>1, Positions, SMTT(20) DEF IInv
  <2>2. head' = Incr(head) /\ tail' = tail /\ Size' = Size
    BY <1>1, <1>5, Zenon
  <2> QED BY <2>1, <2>2, <1>1, <1>2, <1>3, SMTT(20) DEF Count, At
<1>9. \A k \in 0 .. Count - 2 : Slot(At(k))' = Slot(At(k + 1))
  <2> SUFFICES ASSUME NEW k \in 0 .. Count - 2 PROVE Slot(At(k))' = Slot(At(k + 1))
    OBVIOUS
  <2>1. k \in 0 .. Size - 2 /\ k + 1 \in 0 .. Size - 1 /\ k + 1 # 0 /\ 0 \in 0 .. Size - 1
    BY <1>2, <1>8, SMTT(20)
  <2>2. At(k + 1) \in 0 .. Size - 1 /\ At(k + 1) # head
    BY <2>1, Positions DEF IInv
  <2> QED BY <2>1, <2>2, <1>5, <1>8, SMTT(20) DEF Slot
<1>10. At(0) = head
  BY Positions DEF IInv
<1>11. Slot(head).is_end <=> op = "join" /\ Count = 1
  BY <1>8, <1>10 DEF IInv, Marks
<1>12. CASE Slot(head).is_end
  <2>1. op = "join" /\ Count = 1 /\ Count' = 0 /\ MarkWaits
    BY <1>1, <1>8, <1>11, <1>12, SMTT(20) DEF MarkWaits
  <2>2. worker' = "ended" /\ cur' = Blank /\ ~MarkWaits' /\ head' = tail'
    <3>1. worker' = "ended" /\ cur' = Blank
      BY <1>12, Zenon DEF Take
    <3>2. head' = tail'
      BY <1>1, <1>2, <1>3, <2>1, SMTT(20) DEF Count
    <3> QED BY <3>1, <3>2 DEF MarkWaits
  <2>3. ThreadTypes'
    <3>1. Blank \in Entry
      BY Zenon DEF Blank, Entry
    <3> QED BY <1>1, <2>2, <3>1, Zenon DEF IInv, ThreadTypes
  <2>4. Phases'
    BY <1>1, <2>1, <2>2, Zenon DEF IInv, Phases
  <2>5. Waits = 0 /\ Waits' = 0 /\ Taken' = Taken
    BY <1>1, <2>1, <2>2, SMTT(20) DEF Waits, Taken
  <2>6. Marks' /\ Fifo'
    BY <1>1, <2>1, <2>2, <2>5, SMTT(20) DEF IInv, Marks, Fifo
  <2>7. IInv'
    BY <1>6, <1>7, <2>3, <2>4, <2>6, Zenon DEF IInv
  <2> QED BY <2>2, <2>5, <2>7, Zenon DEF TakesTheNext
<1>13. CASE ~Slot(head).is_end
  <2>1. worker' = "print" /\ cur' = Slot(head)
    BY <1>13, Zenon DEF Take
  <2>2. ThreadTypes' /\ Phases'
    BY <1>1, <1>2, <2>1, Zenon DEF IInv, ThreadTypes, Phases
  <2>3. /\ MarkWaits' <=> MarkWaits
        /\ MarkWaits => Count >= 2
        /\ MarkWaits <=> op = "join"
    BY <1>1, <1>8, <1>11, <1>13, <2>1, SMTT(20) DEF MarkWaits
  <2>4. Waits >= 1 /\ Waits \in Int /\ Waits' = Waits - 1
    BY <1>8, <2>3, SMTT(20) DEF Waits
  <2>5. Taken \in Nat /\ Taken' = Taken + 1
    BY <1>1, <2>4, SMTT(20) DEF Taken, IInv, Fifo, RingTypes
  <2>6. Marks'
    BY <1>1, <1>8, <1>9, <2>3, SMTT(20) DEF IInv, Marks
  <2>7. \A k \in 0 .. Waits - 1 : Logged(Slot(At(k))) = accepted[Taken + k + 1]
    BY <1>1, Zenon DEF IInv, Fifo
  <2>8. Logged(cur)' = accepted'[Taken']
    <3>1. 0 \in 0 .. Waits - 1 /\ Taken + 0 + 1 = Taken'
      BY <2>4, <2>5
    <3>2. Logged(Slot(head)) = accepted[Taken']
      BY <1>10, <2>7, <3>1, Zenon
    <3>3. Logged(cur)' = Logged(Slot(head)) /\ accepted' = accepted
      BY <1>1, <2>1, Zenon DEF Logged
    <3> QED BY <3>2, <3>3, Zenon
  <2>9. ASSUME NEW k \in 0 .. Waits' - 1
        PROVE  Logged(Slot(At(k)))' = accepted'[Taken' + k + 1]
    <3>1. k \in 0 .. Count - 2 /\ k + 1 \in 0 .. Waits - 1
      BY <1>8, <2>3, <2>4 DEF Waits
    <3>2. Logged(Slot(At(k + 1))) = accepted[Taken + (k + 1) + 1]
      BY <2>7, <3>1, ZenonT(30)
    <3>3. Logged(Slot(At(k)))' = Logged(Slot(At(k + 1)))
      BY <1>1, <1>9, <3>1 DEF Logged
    <3>4. Taken + (k + 1) + 1 = Taken' + k + 1
      BY <2>5
    <3> QED BY <1>1, <3>2, <3>3, <3>4
  <2>10. Fifo'
    BY <2>5, <2>8, <2>9, SMTT(20) DEF Fifo
  <2> QED BY <1>1, <1>6, <1>7, <2>1, <2>2, <2>5, <2>6, <2>8, <2>10, Zenon DEF IInv, TakesTheNext
<1> QED BY <1>12, <1>13
\* A message goes behind the others, into the ring as it is or into one twice
\* as large.
LEMMA AddStep ==
    ASSUME IInv, NEW level \in Levels, Add(level)
    PROVE  IInv' /\ Taken' = Taken
<1> DEFINE e     == [msg |-> adds + 1, level |-> level, prefix |-> prefix, is_end |-> FALSE]
           next  == [entries EXCEPT ![tail + 1] = e]
           moved == [i \in 1 .. 2 * Size |->
                       IF i <= Size THEN next[((head + i - 1) % Size) + 1] ELSE Blank]
           full  == Incr(tail) = head
<1>1. /\ UNCHANGED <<file, colors, prefix, op, cur, running, overrun>>
      /\ running /\ op = "idle" /\ ~overrun /\ worker \notin {"ended", "none"}
      /\ worker' = IF worker = "sleep" THEN "check" ELSE worker
      /\ adds' = adds + 1 /\ accepted' = Append(accepted, Logged(e))
      /\ entries' = IF full THEN moved ELSE next
      /\ head' = IF full THEN 0 ELSE head
      /\ tail' = IF full THEN Size ELSE Incr(tail)
  BY DEF Add, Put, Notify, ctlVars, IInv, Phases
<1>2. /\ Size \in Nat /\ Size >= 2 /\ entries \in Seq(Entry) /\ Size = Len(entries)
      /\ head \in 0 .. Size - 1 /\ tail \in 0 .. Size - 1 /\ tail + 1 \in 1 .. Size
      /\ adds \in Nat /\ accepted \in Seq(LoggedSet) /\ Size >= Capacity
  BY Positions DEF IInv, RingTypes, Size
<1>3. Incr(tail) = IF tail + 1 = Size THEN 0 ELSE tail + 1
  BY <1>2, IncrIs, Zenon DEF IInv
<1>4. e \in Entry /\ Blank \in Entry /\ Logged(e) \in LoggedSet /\ ~e.is_end
  <2>1. prefix \in Prefixes \cup {FALSE} /\ file \in Files \cup {NoFile} /\ colors \in BOOLEAN
    BY Zenon DEF IInv, FlagTypes
  <2>2. adds + 1 \in Nat
    BY <1>2, SMTT(20)
  <2>3. e \in Entry /\ Blank \in Entry /\ ~e.is_end
    BY <2>1, <2>2, Zenon DEF Entry, Blank
  <2>4. Logged(e) \in LoggedSet
    BY <2>1, <2>2, Zenon DEF Logged, LoggedSet
  <2> QED BY <2>3, <2>4
<1> HIDE DEF e
<1>5. /\ next \in Seq(Entry) /\ Len(next) = Size /\ next[tail + 1] = e
      /\ \A i \in 0 .. Size - 1 : next[i + 1] \in Entry /\ (i # tail => next[i + 1] = Slot(i))
  BY <1>2, <1>4 DEF Slot
<1> HIDE DEF next
<1>6. /\ adds' \in Nat /\ accepted' \in Seq(LoggedSet) /\ Len(accepted') = Len(accepted) + 1
      /\ Len(accepted) \in Nat /\ accepted'[Len(accepted) + 1] = Logged(e)
      /\ \A i \in 1 .. Len(accepted) : accepted'[i] = accepted[i]
  BY <1>1, <1>2, <1>4
<1>7. ThreadTypes' /\ FlagTypes' /\ Phases'
  <2>1. ThreadTypes' /\ Phases'
    BY <1>1 DEF IInv, ThreadTypes, Phases
  <2>2. FlagTypes'
    BY <1>1, Zenon DEF IInv, FlagTypes
  <2> QED BY <2>1, <2>2, Zenon
<1>8. /\ ~MarkWaits /\ ~MarkWaits' /\ Waits = Count /\ Waits' = Count'
      /\ Count \in 0 .. Size - 1 /\ Taken = Len(accepted) - Count /\ Taken \in Nat
  <2>1. ~MarkWaits /\ ~MarkWaits'
    BY <1>1, Zenon DEF MarkWaits
  <2>2. Waits = Count /\ Waits' = Count'
    BY <2>1, Zenon DEF Waits
  <2>3. Count \in 0 .. Size - 1 /\ Taken = Len(accepted) - Count
    BY <2>2, Positions, Zenon DEF IInv, Taken
  <2>4. Taken >= 0
    BY <1>1, Zenon DEF IInv, Fifo
  <2>5. Taken \in Nat
    BY <1>2, <1>6, <2>3, <2>4
  <2> QED BY <2>1, <2>2, <2>3, <2>5, Zenon
\* In both cases the entries stay where they were in the order, and e is last.
<1>9. /\ RingTypes' /\ Count' = Count + 1
      /\ \A k \in 0 .. Count : Slot(At(k))' = IF k = Count THEN e ELSE Slot(At(k))
  <2>1. \A k \in 0 .. Count :
           next[At(k) + 1] = IF k = Count THEN e ELSE Slot(At(k))
    <3> SUFFICES ASSUME NEW k \in 0 .. Count
                 PROVE  next[At(k) + 1] = IF k = Count THEN e ELSE Slot(At(k))
      OBVIOUS
    <3>1. CASE k = Count
      BY <3>1, <1>5, Positions, Zenon DEF IInv
    <3>2. CASE k # Count
      <4>1. At(k) \in 0 .. Size - 1 /\ At(k) # tail
        BY <3>2, <1>8, Positions, SMTT(20) DEF IInv
      <4> QED BY <4>1, <3>2, <1>5, Zenon
    <3> QED BY <3>1, <3>2
  <2>2. CASE ~full
    <3>1. entries' = next /\ head' = head /\ tail' = Incr(tail)
      BY <1>1, <2>2
    <3>2. Size' = Size
      BY <1>5, <3>1, Zenon DEF Size
    <3>3. RingTypes'
      BY <1>2, <1>3, <1>5, <1>6, <3>1, <3>2, SMTT(20) DEF RingTypes
    <3>4. Count' = Count + 1
      BY <1>2, <1>3, <2>2, <3>1, <3>2, SMTT(20) DEF Count
    <3>5. \A k \in 0 .. Count : Slot(At(k))' = next[At(k) + 1]
      BY <3>1, <3>2, Zenon DEF Slot, At
    <3> QED BY <2>1, <3>3, <3>4, <3>5, Zenon
  <2>3. CASE full
    <3>1. entries' = moved /\ head' = 0 /\ tail' = Size /\ Count = Size - 1
      BY <1>1, <2>3, Positions, Zenon DEF IInv
    <3>2. \A k \in 0 .. Size - 1 : moved[k + 1] = next[At(k) + 1] /\ moved[k + 1] \in Entry
      <4> SUFFICES ASSUME NEW k \in 0 .. Size - 1
                   PROVE  moved[k + 1] = next[At(k) + 1] /\ moved[k + 1] \in Entry
        OBVIOUS
      <4>1. (head + k) % Size = At(k) /\ At(k) \in 0 .. Size - 1
        BY AtIs DEF IInv
      <4>2. k + 1 \in 1 .. 2 * Size /\ k + 1 <= Size /\ head + (k + 1) - 1 = head + k
        BY <1>2
      <4> QED BY <4>1, <4>2, <1>5, Zenon
    <3>3. moved \in Seq(Entry) /\ Len(moved) = 2 * Size
      <4>1. \A i \in 1 .. 2 * Size : moved[i] \in Entry
        <5> SUFFICES ASSUME NEW i \in 1 .. 2 * Size PROVE moved[i] \in Entry
          OBVIOUS
        <5>1. CASE i <= Size
          <6>1. i - 1 \in 0 .. Size - 1 /\ (i - 1) + 1 = i
            BY <1>2, <5>1
          <6> QED BY <6>1, <3>2, Zenon
        <5>2. CASE ~(i <= Size)
          BY <5>2, <1>4
        <5> QED BY <5>1, <5>2, Zenon
      <4>2. 2 * Size \in Nat
        BY <1>2
      <4> QED BY <4>1, <4>2, SMTT(20)
    <3>4. Size' = 2 * Size
      BY <3>1, <3>3, Zenon DEF Size
    <3>5. RingTypes'
      <4>1. entries' \in Seq(Entry)
        BY <3>1, <3>3, Zenon
      <4> HIDE DEF moved
      <4> QED BY <4>1, <1>2, <1>6, <3>1, <3>4, RingAssumption, SMTT(20) DEF RingTypes
    <3>6. Count' = Count + 1
      BY <1>2, <3>1, <3>4, SMTT(20) DEF Count
    <3>7. \A k \in 0 .. Count : Slot(At(k))' = next[At(k) + 1]
      <4> SUFFICES ASSUME NEW k \in 0 .. Count PROVE Slot(At(k))' = next[At(k) + 1]
        OBVIOUS
      <4>1. k \in 0 .. Size - 1 /\ At(k)' = k
        BY <1>2, <3>1, <3>4, SMTT(20) DEF At
      <4> QED BY <4>1, <3>1, <3>2 DEF Slot
    <3> QED BY <2>1, <3>5, <3>6, <3>7
  <2> QED BY <2>2, <2>3
<1>10. Taken' = Taken
  BY <1>6, <1>8, <1>9, SMTT(20) DEF Taken
<1>11. Marks'
  BY <1>1, <1>4, <1>8, <1>9, SMTT(20) DEF IInv, Marks
<1>12. Fifo'
  <2>1. ASSUME NEW k \in 0 .. Waits' - 1
        PROVE  Logged(Slot(At(k)))' = accepted'[Taken' + k + 1]
    <3>1. k \in 0 .. Count
      BY <1>8, <1>9, SMTT(20)
    <3>2. CASE k = Count
      <4>1. Logged(Slot(At(k)))' = Logged(e)
        BY <1>1, <1>9, <3>1, <3>2, ZenonT(30) DEF Logged
      <4>2. Taken' + k + 1 = Len(accepted) + 1
        BY <1>6, <1>8, <1>10, <3>2, SMTT(20)
      <4> QED BY <4>1, <4>2, <1>6, Zenon
    <3>3. CASE k # Count
      <4>1. k \in 0 .. Waits - 1
        BY <1>8, <3>1, <3>3, SMTT(20)
      <4>2. Logged(Slot(At(k)))' = Logged(Slot(At(k)))
        BY <1>1, <1>9, <3>1, <3>3, Zenon DEF Logged
      <4>3. Logged(Slot(At(k))) = accepted[Taken + k + 1]
        BY <1>1, <4>1, Zenon DEF IInv, Fifo
      <4>4. Taken + k + 1 \in 1 .. Len(accepted) /\ Taken' = Taken
        BY <1>6, <1>8, <1>10, <4>1, SMTT(20)
      <4> QED BY <4>2, <4>3, <4>4, <1>6, Zenon
    <3> QED BY <3>2, <3>3
  <2>2. worker' \in {"print", "print_file"} => Taken' >= 1 /\ Logged(cur)' = accepted'[Taken']
    <3> SUFFICES ASSUME worker' \in {"print", "print_file"}
                 PROVE  Taken' >= 1 /\ Logged(cur)' = accepted'[Taken']
      BY Zenon
    <3>1. Taken >= 1 /\ Logged(cur) = accepted[Taken]
      BY <1>1, Zenon DEF IInv, Fifo
    <3>2. Taken \in 1 .. Len(accepted)
      BY <1>6, <1>8, <3>1, SMTT(20)
    <3>3. Logged(cur)' = Logged(cur)
      BY <1>1 DEF Logged
    <3> QED BY <3>1, <3>2, <3>3, <1>6, <1>10, Zenon
  <2> QED BY <1>8, <1>10, <2>1, <2>2, SMTT(20) DEF Fifo
<1> QED BY <1>7, <1>9, <1>10, <1>11, <1>12, ZenonT(30) DEF IInv
\* Every step keeps the invariant.
LEMMA StepIInv ==
    ASSUME IInv, [Next]_vars
    PROVE  IInv'
<1>1. CASE Discard \/ \E on \in Prefixes : SetPrefix(on)
  BY <1>1, OutsideSteps
<1>2. CASE \E level \in Levels : Add(level)
  BY <1>2, AddStep
<1>3. CASE Wait \/ PrintEntry \/ PrintFile
  BY <1>3, PrintSteps
<1>4. CASE Take
  BY <1>4, TakeStep
<1>5. CASE Join \/ Change
  BY <1>5, IdleSteps
<1>6. CASE \E o \in Ops \ {"resume"} : Pause(o)
  BY <1>6, IdleSteps, PauseRunning
<1>7. CASE Resume
  BY <1>7, IdleSteps, ResumeAgain
<1>8. CASE UNCHANGED vars
  <2>1. UNCHANGED <<ringVars, accepted, file, colors, overrun, op, worker, cur, running,
                    prefix, adds>>
    BY <1>8, Zenon DEF vars, workerVars, ctlVars, historyVars
  <2>2. RingTypes' /\ ThreadTypes' /\ Phases'
    BY <2>1 DEF IInv, RingTypes, ThreadTypes, Phases, Size, ringVars
  <2>3. FlagTypes'
    BY <2>1, Zenon DEF IInv, FlagTypes
  <2>4. Logged(cur)' = Logged(cur)
    BY <2>1, ZenonT(30) DEF Logged
  <2>5. Marks' /\ Fifo'
    BY <2>1, <2>4, RingKept DEF IInv, Fifo
  <2> QED BY <2>2, <2>3, <2>5, Zenon DEF IInv
<1> QED BY <1>1, <1>2, <1>3, <1>4, <1>5, <1>6, <1>7, <1>8, Zenon DEF Next, WorkerStep, Controller

(***************************************************************************)
(* For every capacity of the ring: the entries between head and tail are   *)
(* the messages accepted last, in order, and the end mark only behind all  *)
(* of them; what the worker has in its hand is the one before those.       *)
(***************************************************************************)
THEOREM RingIsQueue == Spec => []IInv
<1>1. IInv /\ [Next]_vars => IInv'
  BY StepIInv, Zenon
<1> QED BY InitIInv, <1>1, PTL DEF Spec

(***************************************************************************)
(* pause, set_file, set_colors and the destructor go on only when the      *)
(* worker has ended and the ring is empty, whatever the capacity.          *)
(***************************************************************************)
THEOREM PausedStaysEmpty == Spec => []PausedIsEmpty
<1>1. IInv => PausedIsEmpty
  BY DEF IInv, RingTypes, ThreadTypes, Phases, PausedIsEmpty, TypeOK
<1> QED BY <1>1, RingIsQueue, PTL

(***************************************************************************)
(* The worker takes the messages one by one in the order in which add      *)
(* accepted them, with the file and the colours they were logged under: a  *)
(* step takes none or the next one.  A ring overrun by a pause excepted.   *)
(***************************************************************************)
THEOREM TakenInTurn == Spec => [][TakesTheNext]_vars
<1>1. IInv /\ [Next]_vars => [TakesTheNext]_vars
  <2> SUFFICES ASSUME IInv, Next PROVE TakesTheNext
    OBVIOUS
  <2>1. CASE Discard \/ \E on \in Prefixes : SetPrefix(on)
    BY <2>1, OutsideSteps DEF TakesTheNext
  <2>2. CASE \E level \in Levels : Add(level)
    BY <2>2, AddStep DEF TakesTheNext
  <2>3. CASE Wait \/ PrintEntry \/ PrintFile
    BY <2>3, PrintSteps DEF TakesTheNext
  <2>4. CASE Take
    BY <2>4, TakeStep
  <2>5. CASE Join \/ Change
    BY <2>5, IdleSteps, Zenon DEF TakesTheNext
  <2>6. CASE \E o \in Ops \ {"resume"} : Pause(o)
    BY <2>6, IdleSteps, PauseRunning DEF TakesTheNext
  <2>7. CASE Resume
    BY <2>7, IdleSteps, ResumeAgain, Zenon DEF TakesTheNext
  <2> QED
    BY <2>1, <2>2, <2>3, <2>4, <2>5, <2>6, <2>7, Zenon DEF Next, WorkerStep, Controller
<1> QED BY <1>1, RingIsQueue, PTL DEF Spec


-----------------------------------------------------------------------------
\* How many of the accepted messages are on the terminal, and past the file.
OnTerminal == IF worker = "print" THEN Taken - 1 ELSE Taken
PastFile   == IF worker \in {"print", "print_file"} THEN Taken - 1 ELSE Taken

\* What is printed so far are those, without the debug messages, and the file
\* has what was logged while it was set.
PrintInv ==
    ~overrun => /\ printed = Shown(SubSeq(accepted, 1, OnTerminal))
                /\ filed = ToFile(SubSeq(accepted, 1, PastFile))


\* The messages that go to the terminal, and those that go to a file.
Loud  == {m \in LoggedSet : m.level # "debug"}
Filed == {m \in LoggedSet : m.file # NoFile}

LEMMA ShownIs ==
    \A s \in Seq(LoggedSet) : Shown(s) = Keep(s, Loud) /\ ToFile(s) = Keep(s, Filed)
<1> TAKE s \in Seq(LoggedSet)
<1> DEFINE S == {m \in Range(s) : m.level # "debug"}
           F == {m \in Range(s) : m.file # NoFile}
<1>1. \A i \in 1 .. Len(s) : s[i] \in LoggedSet /\ s[i] \in Range(s)
  BY SMTT(20) DEF Range
<1>2. \A i \in 1 .. Len(s) : (s[i] \in S <=> s[i] \in Loud) /\ (s[i] \in F <=> s[i] \in Filed)
  BY <1>1 DEF Loud, Filed
<1> HIDE DEF S, F
<1>3. Keep(s, S) = Keep(s, Loud) /\ Keep(s, F) = Keep(s, Filed)
  BY <1>2, KeepSame, Zenon
<1> QED BY <1>3 DEF S, F, Shown, ToFile

\* One message more, on the terminal and in the file.
LEMMA OneMore ==
    ASSUME NEW s \in Seq(LoggedSet)
    PROVE  /\ Shown(SubSeq(s, 1, 0)) = <<>> /\ ToFile(SubSeq(s, 1, 0)) = <<>>
           /\ \A n \in 1 .. Len(s) :
                 /\ Shown(SubSeq(s, 1, n)) =
                       IF s[n].level = "debug" THEN Shown(SubSeq(s, 1, n - 1))
                       ELSE Append(Shown(SubSeq(s, 1, n - 1)), s[n])
                 /\ ToFile(SubSeq(s, 1, n)) =
                       IF s[n].file = NoFile THEN ToFile(SubSeq(s, 1, n - 1))
                       ELSE Append(ToFile(SubSeq(s, 1, n - 1)), s[n])
<1>1. \A n \in 0 .. Len(s) : SubSeq(s, 1, n) \in Seq(LoggedSet)
  OBVIOUS
<1>2. \A n \in 0 .. Len(s) : /\ Shown(SubSeq(s, 1, n)) = Keep(SubSeq(s, 1, n), Loud)
                             /\ ToFile(SubSeq(s, 1, n)) = Keep(SubSeq(s, 1, n), Filed)
  BY <1>1, ShownIs, Zenon
<1>3. /\ Keep(SubSeq(s, 1, 0), Loud) = <<>>
      /\ \A n \in 0 .. Len(s) - 1 :
            Keep(SubSeq(s, 1, n + 1), Loud) =
               IF s[n + 1] \in Loud THEN Append(Keep(SubSeq(s, 1, n), Loud), s[n + 1])
                                    ELSE Keep(SubSeq(s, 1, n), Loud)
  BY KeepNext, ZenonT(30)
<1>4. /\ Keep(SubSeq(s, 1, 0), Filed) = <<>>
      /\ \A n \in 0 .. Len(s) - 1 :
            Keep(SubSeq(s, 1, n + 1), Filed) =
               IF s[n + 1] \in Filed THEN Append(Keep(SubSeq(s, 1, n), Filed), s[n + 1])
                                     ELSE Keep(SubSeq(s, 1, n), Filed)
  BY KeepNext
<1>5. ASSUME NEW n \in 1 .. Len(s)
      PROVE  /\ Shown(SubSeq(s, 1, n)) =
                   IF s[n].level = "debug" THEN Shown(SubSeq(s, 1, n - 1))
                   ELSE Append(Shown(SubSeq(s, 1, n - 1)), s[n])
             /\ ToFile(SubSeq(s, 1, n)) =
                   IF s[n].file = NoFile THEN ToFile(SubSeq(s, 1, n - 1))
                   ELSE Append(ToFile(SubSeq(s, 1, n - 1)), s[n])
  <2>1. n - 1 \in 0 .. Len(s) - 1 /\ (n - 1) + 1 = n /\ n \in 0 .. Len(s)
        /\ n - 1 \in 0 .. Len(s)
    OBVIOUS
  <2>2. (s[n] \in Loud <=> s[n].level # "debug") /\ (s[n] \in Filed <=> s[n].file # NoFile)
    BY SMTT(20) DEF Loud, Filed
  <2>3. Keep(SubSeq(s, 1, n), Loud) =
            IF s[n] \in Loud THEN Append(Keep(SubSeq(s, 1, n - 1), Loud), s[n])
                             ELSE Keep(SubSeq(s, 1, n - 1), Loud)
    BY <1>3, <2>1, Zenon
  <2>4. Keep(SubSeq(s, 1, n), Filed) =
            IF s[n] \in Filed THEN Append(Keep(SubSeq(s, 1, n - 1), Filed), s[n])
                              ELSE Keep(SubSeq(s, 1, n - 1), Filed)
    BY <1>4, <2>1
  <2> QED BY <1>2, <2>1, <2>2, <2>3, <2>4, Zenon
<1>6. 0 \in 0 .. Len(s)
  OBVIOUS
<1> QED BY <1>2, <1>3, <1>4, <1>5, <1>6, Zenon

\* The messages taken are among those accepted.
LEMMA TakenBounds ==
    ASSUME IInv, ~overrun
    PROVE  /\ accepted \in Seq(LoggedSet) /\ Taken \in 0 .. Len(accepted)
           /\ Waits \in 0 .. Size - 1 /\ Taken = Len(accepted) - Waits
           /\ OnTerminal \in 0 .. Len(accepted) /\ PastFile \in 0 .. Len(accepted)
<1>1. /\ Count \in 0 .. Size - 1 /\ Size \in Nat /\ accepted \in Seq(LoggedSet)
      /\ Len(accepted) \in Nat
  BY Positions DEF IInv, RingTypes
<1>2. Waits \in 0 .. Size - 1
  BY <1>1 DEF IInv, Marks, Waits
<1>3. Taken = Len(accepted) - Waits /\ Taken >= 0
  BY DEF IInv, Fifo, Taken
<1>4. worker \in {"print", "print_file"} => Taken >= 1
  BY DEF IInv, Fifo
<1> HIDE DEF Waits, Taken
<1> QED BY <1>1, <1>2, <1>3, <1>4, SMTT(20) DEF OnTerminal, PastFile


\* Steps that print nothing: what was printed stays the front of what was accepted.
LEMMA NothingPrinted ==
    ASSUME IInv, PrintInv, IInv', UNCHANGED <<printed, filed>>, overrun => overrun',
           ~overrun' => OnTerminal' = OnTerminal /\ PastFile' = PastFile,
           \/ accepted' = accepted
           \/ \E m \in LoggedSet : accepted' = Append(accepted, m)
    PROVE  PrintInv'
<1> SUFFICES ASSUME ~overrun'
             PROVE  /\ printed' = Shown(SubSeq(accepted, 1, OnTerminal))'
                    /\ filed' = ToFile(SubSeq(accepted, 1, PastFile))'
  BY DEF PrintInv
<1>1. OnTerminal \in 0 .. Len(accepted) /\ PastFile \in 0 .. Len(accepted)
      /\ accepted \in Seq(LoggedSet)
  BY TakenBounds
<1>2. \A n \in 0 .. Len(accepted) : SubSeq(accepted', 1, n) = SubSeq(accepted, 1, n)
  <2>1. CASE accepted' = accepted
    BY <2>1
  <2>2. CASE \E m \in LoggedSet : accepted' = Append(accepted, m)
    <3>1. PICK m \in LoggedSet : accepted' = Append(accepted, m)
      BY <2>2
    <3> TAKE n \in 0 .. Len(accepted)
    <3> DEFINE u == SubSeq(accepted', 1, n)
               v == SubSeq(accepted, 1, n)
    <3>2. /\ accepted' \in Seq(LoggedSet) /\ Len(accepted') = Len(accepted) + 1
          /\ \A i \in 1 .. Len(accepted) : accepted'[i] = accepted[i]
      BY <1>1, <3>1
    <3>3. u \in Seq(LoggedSet) /\ v \in Seq(LoggedSet) /\ Len(u) = n /\ Len(v) = n
      BY <1>1, <3>2, SMTT(20)
    <3>4. \A i \in 1 .. n : u[i] = v[i]
      BY <1>1, <3>2
    <3> HIDE DEF u, v
    <3>5. u = v
      BY <3>3, <3>4
    <3> QED BY <3>5 DEF u, v
  <2> QED BY <2>1, <2>2
<1>3. /\ printed = Shown(SubSeq(accepted, 1, OnTerminal))
      /\ filed = ToFile(SubSeq(accepted, 1, PastFile))
  BY DEF PrintInv
<1>4. /\ SubSeq(accepted, 1, OnTerminal)' = SubSeq(accepted, 1, OnTerminal)
      /\ SubSeq(accepted, 1, PastFile)' = SubSeq(accepted, 1, PastFile)
  BY <1>1, <1>2
<1> QED BY <1>3, <1>4, Zenon DEF Shown, ToFile

\* The worker prints the message in its hand, which is the one taken last.
LEMMA Printing ==
    ASSUME IInv, PrintInv, PrintEntry \/ PrintFile
    PROVE  PrintInv'
<1>1. /\ UNCHANGED <<accepted, file, colors, overrun>> /\ Taken' = Taken
  BY PrintSteps DEF PrintEntry, PrintFile, workerKeeps
<1> SUFFICES ASSUME ~overrun PROVE PrintInv'
  BY <1>1 DEF PrintInv
<1>2. worker \in {"print", "print_file"}
  BY DEF PrintEntry, PrintFile
<1>3. /\ accepted \in Seq(LoggedSet) /\ Taken \in 1 .. Len(accepted)
      /\ Logged(cur) = accepted[Taken]
  BY <1>2, TakenBounds, SMTT(20) DEF IInv, Fifo
<1>4. accepted[Taken].level = cur.level /\ accepted[Taken].file = file
  BY <1>3, SMTT(20) DEF Logged
<1>5. /\ Shown(SubSeq(accepted, 1, Taken)) =
            IF cur.level = "debug" THEN Shown(SubSeq(accepted, 1, Taken - 1))
            ELSE Append(Shown(SubSeq(accepted, 1, Taken - 1)), Logged(cur))
      /\ ToFile(SubSeq(accepted, 1, Taken)) =
            IF file = NoFile THEN ToFile(SubSeq(accepted, 1, Taken - 1))
            ELSE Append(ToFile(SubSeq(accepted, 1, Taken - 1)), Logged(cur))
  BY <1>3, <1>4, OneMore, Zenon
<1>6. CASE PrintEntry
  <2>1. /\ OnTerminal = Taken - 1 /\ OnTerminal' = Taken
        /\ PastFile = Taken - 1 /\ PastFile' = Taken - 1
    BY <1>1, <1>6 DEF PrintEntry, OnTerminal, PastFile
  <2>2. /\ printed' = IF cur.level = "debug" THEN printed ELSE Append(printed, Logged(cur))
        /\ filed' = filed
    BY <1>6 DEF PrintEntry
  <2>3. /\ Shown(SubSeq(accepted, 1, OnTerminal))' = Shown(SubSeq(accepted, 1, Taken))
        /\ ToFile(SubSeq(accepted, 1, PastFile))' = ToFile(SubSeq(accepted, 1, Taken - 1))
    BY <1>1, <2>1, Zenon DEF Shown, ToFile
  <2> QED BY <1>5, <2>1, <2>2, <2>3, ZenonT(30) DEF PrintInv
<1>7. CASE PrintFile
  <2>1. /\ OnTerminal = Taken /\ OnTerminal' = Taken
        /\ PastFile = Taken - 1 /\ PastFile' = Taken
    BY <1>1, <1>7, Zenon DEF PrintFile, OnTerminal, PastFile
  <2>2. /\ filed' = IF file = NoFile THEN filed ELSE Append(filed, Logged(cur))
        /\ printed' = printed
    BY <1>7, Zenon DEF PrintFile
  <2>3. /\ Shown(SubSeq(accepted, 1, OnTerminal))' = Shown(SubSeq(accepted, 1, Taken))
        /\ ToFile(SubSeq(accepted, 1, PastFile))' = ToFile(SubSeq(accepted, 1, Taken))
    BY <1>1, <2>1 DEF Shown, ToFile
  <2> QED BY <1>5, <2>1, <2>2, <2>3, Zenon DEF PrintInv
<1> QED BY <1>6, <1>7, ZenonT(30)

\* Every step keeps what is printed the front of what was accepted.
LEMMA StepPrintInv ==
    ASSUME IInv, PrintInv, [Next]_vars
    PROVE  PrintInv'
<1>1. IInv'
  BY StepIInv
<1> DEFINE Quiet ==
        /\ UNCHANGED <<printed, filed>>
        /\ overrun => overrun'
        /\ ~overrun' => OnTerminal' = OnTerminal /\ PastFile' = PastFile
        /\ \/ accepted' = accepted
           \/ \E m \in LoggedSet : accepted' = Append(accepted, m)
<1>2. ASSUME Quiet PROVE PrintInv'
  BY <1>1, <1>2, NothingPrinted, Zenon
<1>3. ASSUME UNCHANGED <<printed, filed, accepted>>, overrun => overrun',
             ~overrun' => Taken' = Taken,
             \/ worker' = worker
             \/ worker \notin {"print", "print_file"} /\ worker' \notin {"print", "print_file"}
      PROVE  PrintInv'
  BY <1>2, <1>3, Zenon DEF OnTerminal, PastFile
<1>4. CASE Discard \/ \E on \in Prefixes : SetPrefix(on)
  <2>1. Taken' = Taken
    BY <1>4, OutsideSteps, Zenon
  <2>2. UNCHANGED <<printed, filed, accepted, overrun, worker>>
    BY <1>4, Zenon DEF Discard, SetPrefix, workerVars, historyVars
  <2> QED BY <1>3, <2>1, <2>2
<1>5. CASE \E level \in Levels : Add(level)
  <2>1. PICK level \in Levels : Add(level)
    BY <1>5, ZenonT(30)
  <2> DEFINE e == [msg |-> adds + 1, level |-> level, prefix |-> prefix, is_end |-> FALSE]
  <2>2. /\ UNCHANGED <<printed, filed, overrun>> /\ accepted' = Append(accepted, Logged(e))
        /\ worker' = IF worker = "sleep" THEN "check" ELSE worker
    BY <2>1 DEF Add, Put, Notify
  <2>3. Taken' = Taken
    BY <2>1, AddStep, Zenon
  <2>4. Logged(e) \in LoggedSet
    <3>1. prefix \in Prefixes \cup {FALSE} /\ file \in Files \cup {NoFile} /\ colors \in BOOLEAN
      BY Zenon DEF IInv, FlagTypes
    <3>2. adds + 1 \in Nat
      BY DEF IInv, RingTypes
    <3> QED BY <3>1, <3>2, Zenon DEF Logged, LoggedSet
  <2> HIDE DEF e
  <2> QED BY <1>2, <2>2, <2>3, <2>4 DEF OnTerminal, PastFile
<1>6. CASE Wait
  <2>1. Taken' = Taken
    BY <1>6, PrintSteps, Zenon
  <2>2. UNCHANGED <<printed, filed, accepted, overrun>> /\ worker = "check" /\ worker' = "sleep"
    BY <1>6 DEF Wait, historyVars
  <2> QED BY <1>3, <2>1, <2>2
<1>7. CASE PrintEntry \/ PrintFile
  BY <1>7, Printing, Zenon
<1>8. CASE Take
  <2>1. UNCHANGED <<printed, filed, accepted, overrun>> /\ worker = "check"
        /\ worker' \in {"print", "ended"}
    BY <1>8 DEF Take, historyVars
  <2>2. ~overrun' => \/ Taken' = Taken /\ worker' = "ended"
                     \/ Taken' = Taken + 1 /\ worker' = "print"
    BY <1>8, <2>1, TakeStep DEF TakesTheNext
  <2>3. ~overrun => Taken \in Int
    BY TakenBounds
  <2> QED BY <1>2, <2>1, <2>2, <2>3 DEF OnTerminal, PastFile
<1>9. CASE Join \/ Change
  <2>1. Taken' = Taken
    BY <1>9, IdleSteps
  <2>2. UNCHANGED <<printed, filed, accepted, overrun>>
    BY <1>9 DEF Join, Change, ctlKeeps
  <2>3. worker' = worker \/ (worker = "ended" /\ worker' = "none")
    BY <1>9, Zenon DEF Join, Change
  <2> QED BY <1>3, <2>1, <2>2, <2>3
<1>10. CASE \E o \in Ops \ {"resume"} : Pause(o)
  <2>1. PICK o \in Ops : Pause(o)
    BY <1>10
  <2>2. ~overrun' => Taken' = Taken
    BY <2>1, IdleSteps, PauseRunning
  <2>3. UNCHANGED <<printed, filed, accepted>>
    BY <2>1 DEF Pause, ctlKeeps
  <2>4. overrun => overrun'
    BY <2>1, Zenon DEF Pause
  <2>5. worker' = worker \/ (worker = "sleep" /\ worker' = "check")
    BY <2>1 DEF Pause, Notify
  <2> QED BY <1>3, <2>2, <2>3, <2>4, <2>5, Zenon
<1>11. CASE Resume
  <2>1. Taken' = Taken
    BY <1>11, IdleSteps, ResumeAgain, Zenon
  <2>2. UNCHANGED <<printed, filed, accepted, overrun>>
    BY <1>11, Zenon DEF Resume, ctlKeeps
  <2>3. worker' = worker \/ (worker = "none" /\ worker' = "check")
    BY <1>11, Zenon DEF Resume, IInv, Phases
  <2> QED BY <1>3, <2>1, <2>2, <2>3, Zenon
<1>12. CASE UNCHANGED vars
  <2>1. UNCHANGED <<printed, filed, accepted, overrun, worker, op, ringVars>>
    BY <1>12, Zenon DEF vars, workerVars, ctlVars, historyVars
  <2>2. Taken' = Taken
    BY <2>1, Zenon DEF Taken, Waits, MarkWaits, Count, Size, ringVars
  <2> QED BY <1>3, <2>1, <2>2, Zenon
<1> QED BY <1>4, <1>5, <1>6, <1>7, <1>8, <1>9, <1>10, <1>11, <1>12, Zenon
        DEF Next, WorkerStep, Controller


\* Pending is what the invariant says of the ring, as a sequence.
LEMMA PendingIs ==
    ASSUME IInv
    PROVE  /\ Pending \in Seq(Entry) /\ Len(Pending) = Count /\ Count \in Nat
           /\ \A k \in 0 .. Count - 1 : Pending[k + 1] = Slot(At(k))
<1>1. /\ Size \in Nat /\ Size >= 2 /\ entries \in Seq(Entry) /\ Size = Len(entries)
      /\ head \in 0 .. Size - 1 /\ tail \in 0 .. Size - 1 /\ Count \in 0 .. Size - 1
  BY Positions DEF IInv, RingTypes, Size
<1>2. (tail - head) % Size = Count
  <2>1. CASE head <= tail
    <3>1. tail - head \in 0 .. Size - 1 /\ Count = tail - head
      BY <1>1, <2>1, Zenon DEF Count
    <3> QED BY <1>1, <3>1, SMTT(20)
  <2>2. CASE head > tail
    <3>1. tail - head + Size \in 0 .. Size - 1 /\ Count = tail - head + Size
      BY <1>1, <2>2 DEF Count
    <3>2. (tail - head) % Size = (tail - head + Size) % Size
      BY <1>1, <2>2, SMTT(20)
    <3> QED BY <1>1, <3>1, <3>2, SMTT(20)
  <2> QED BY <1>1, <2>1, <2>2, SMTT(20)
<1>3. ASSUME NEW k \in 0 .. Count - 1
      PROVE  Slot((head + (k + 1) - 1) % Size) = Slot(At(k)) /\ Slot(At(k)) \in Entry
  <2>1. k \in 0 .. Size - 1 /\ head + (k + 1) - 1 = head + k
    BY <1>1
  <2>2. (head + k) % Size = At(k) /\ At(k) \in 0 .. Size - 1
    BY <2>1, AtIs, Zenon DEF IInv
  <2>3. Slot(At(k)) \in Entry
    BY <1>1, <2>2 DEF Slot
  <2> QED BY <2>1, <2>2, <2>3, Zenon
<1>4. Pending = [i \in 1 .. Count |-> Slot((head + i - 1) % Size)]
  BY <1>2 DEF Pending
<1> HIDE DEF Pending
<1>5. \A i \in 1 .. Count : Slot((head + i - 1) % Size) \in Entry
  <2> TAKE i \in 1 .. Count
  <2>1. i - 1 \in 0 .. Count - 1 /\ (i - 1) + 1 = i
    BY <1>1
  <2> QED BY <1>3, <2>1
<1>6. Pending \in Seq(Entry) /\ Len(Pending) = Count
  BY <1>1, <1>4, <1>5, SMTT(20)
<1>7. \A k \in 0 .. Count - 1 : Pending[k + 1] = Slot(At(k))
  BY <1>1, <1>3, <1>4, SMTT(20)
<1> QED BY <1>1, <1>6, <1>7, SMTT(20)

\* Without the mark they are the messages accepted after the ones taken.
LEMMA MessagesWait ==
    ASSUME IInv, ~overrun
    PROVE  /\ Messages(Pending) \in Seq(Entry) /\ Len(Messages(Pending)) = Waits
           /\ \A k \in 0 .. Waits - 1 :
                 Logged(Messages(Pending)[k + 1]) = accepted[Taken + k + 1]
<1> DEFINE P == Pending
           E == {e \in Range(P) : ~e.is_end}
           front == SubSeq(P, 1, Waits)
<1>1. /\ P \in Seq(Entry) /\ Len(P) = Count /\ Count \in Nat
      /\ \A k \in 0 .. Count - 1 : P[k + 1] = Slot(At(k))
  BY PendingIs
<1> HIDE DEF P
<1>2. MarkWaits => Count >= 1
  BY DEF IInv, Marks
<1>3. Waits \in 0 .. Count /\ (MarkWaits => Waits = Count - 1) /\ (~MarkWaits => Waits = Count)
  BY <1>1, <1>2 DEF Waits
<1>4. \A k \in 0 .. Count - 1 : P[k + 1].is_end <=> k >= Waits
  <2>1. \A k \in 0 .. Count - 1 : Slot(At(k)).is_end <=> op = "join" /\ k = Count - 1
    BY DEF IInv, Marks
  <2> TAKE k \in 0 .. Count - 1
  <2>2. P[k + 1].is_end <=> op = "join" /\ k = Count - 1
    BY <1>1, <2>1, Zenon
  <2>3. CASE MarkWaits
    <3>1. op = "join" /\ (k = Count - 1 <=> k >= Waits)
      BY <1>1, <1>3, <2>3 DEF MarkWaits
    <3> QED BY <2>2, <3>1, Zenon
  <2>4. CASE ~MarkWaits
    <3>1. op = "join" => Count = 0
      BY <2>4, Positions, Zenon DEF MarkWaits, IInv, Phases
    <3>2. op # "join" /\ ~(k >= Waits)
      BY <1>1, <1>3, <2>4, <3>1, SMTT(20)
    <3> QED BY <2>2, <3>2, Zenon
  <2> QED BY <2>3, <2>4
<1>5. \A i \in 1 .. Count : P[i] \in E <=> i <= Waits
  <2> TAKE i \in 1 .. Count
  <2>1. i - 1 \in 0 .. Count - 1 /\ (i - 1) + 1 = i /\ (i - 1 >= Waits <=> ~(i <= Waits))
    BY <1>1, <1>3, SMTT(20)
  <2>2. P[i] \in Range(P)
    BY <1>1, SMTT(20) DEF Range
  <2> QED BY <1>4, <2>1, <2>2, Zenon
<1> HIDE DEF E
<1>6. /\ front \in Seq(Entry) /\ Len(front) = Waits
      /\ \A i \in 1 .. Waits : front[i] = P[i]
  BY <1>1, <1>3, SMTT(20)
<1>7. Keep(front, E) = front
  <2>1. \A i \in 1 .. Len(front) : front[i] \in E
    BY <1>1, <1>3, <1>5, <1>6, SMTT(20)
  <2> HIDE DEF front
  <2> QED BY <1>6, <2>1, KeepAll, Zenon
<1>8. Keep(P, E) = front
  <2>1. SubSeq(P, 1, Count) = P
    BY <1>1
  <2>2. CASE Waits = Count
    BY <1>7, <2>1, <2>2, Zenon
  <2>3. CASE MarkWaits
    <3>1. Waits \in 0 .. Len(P) - 1 /\ Waits + 1 = Count /\ Count \in 1 .. Count
      BY <1>1, <1>2, <1>3, <2>3
    <3>2. P[Waits + 1] \notin E
      BY <1>3, <1>5, <3>1, SMTT(20)
    <3>3. \A n \in 0 .. Len(P) - 1 :
             Keep(SubSeq(P, 1, n + 1), E) =
                IF P[n + 1] \in E THEN Append(Keep(SubSeq(P, 1, n), E), P[n + 1])
                                  ELSE Keep(SubSeq(P, 1, n), E)
      BY <1>1, KeepNext, Zenon
    <3>4. Keep(SubSeq(P, 1, Waits + 1), E) = Keep(SubSeq(P, 1, Waits), E)
      BY <3>1, <3>2, <3>3
    <3> QED BY <1>7, <2>1, <3>1, <3>4, Zenon
  <2> QED BY <1>3, <2>2, <2>3, Zenon
<1>9. Messages(Pending) = front
  BY <1>8 DEF Messages, P, E
<1>10. ASSUME NEW k \in 0 .. Waits - 1
       PROVE  Logged(front[k + 1]) = accepted[Taken + k + 1]
  <2>1. k \in 0 .. Count - 1 /\ k + 1 \in 1 .. Waits
    BY <1>1, <1>3
  <2>2. front[k + 1] = Slot(At(k))
    BY <1>1, <1>6, <2>1
  <2>3. Logged(Slot(At(k))) = accepted[Taken + k + 1]
    BY Zenon DEF IInv, Fifo
  <2> QED BY <2>2, <2>3, Zenon
<1> HIDE DEF front
<1> QED BY <1>6, <1>9, <1>10, Zenon

\* Two sequences of entries that were logged one after the other.
LEMMA LoggedInOrder ==
    ASSUME NEW h \in Seq(Entry), NEW M \in Seq(Entry), NEW s \in Seq(LoggedSet),
           NEW d \in 0 .. Len(s), Len(h) + Len(M) = Len(s) - d,
           \A i \in 1 .. Len(h) : Logged(h[i]) = s[d + i],
           \A i \in 1 .. Len(M) : Logged(M[i]) = s[d + Len(h) + i]
    PROVE  AsLogged(h \o M) = SubSeq(s, d + 1, Len(s))
<1> DEFINE t == h \o M
           n == Len(s) - d
           rest == SubSeq(s, d + 1, Len(s))
<1>1. Len(t) = n /\ n \in Nat
  BY SMTT(20)
<1>2. ASSUME NEW i \in 1 .. n PROVE Logged(t[i]) = s[d + i]
  <2>1. CASE i <= Len(h)
    <3>1. t[i] = h[i] /\ i \in 1 .. Len(h)
      BY <2>1, SMTT(20)
    <3> HIDE DEF t
    <3> QED BY <3>1, Zenon
  <2>2. CASE i > Len(h)
    <3> DEFINE j == i - Len(h)
    <3>1. j \in 1 .. Len(M) /\ t[i] = M[j] /\ d + Len(h) + j = d + i
      BY <2>2, SMTT(20)
    <3> HIDE DEF j, t
    <3>2. Logged(M[j]) = s[d + Len(h) + j]
      BY <3>1, Zenon
    <3> QED BY <3>1, <3>2, Zenon
  <2> QED BY <2>1, <2>2, SMTT(20)
<1>3. /\ rest \in Seq(LoggedSet) /\ Len(rest) = n
      /\ \A i \in 1 .. n : rest[i] = s[d + i]
  BY SMTT(20)
<1>4. AsLogged(t) = [i \in 1 .. n |-> Logged(t[i])]
  BY <1>1, Zenon DEF AsLogged
<1> HIDE DEF n, t, rest
<1>5. rest = [i \in 1 .. n |-> rest[i]]
  BY <1>1, <1>3, SMTT(20)
<1>6. [i \in 1 .. n |-> rest[i]] = [i \in 1 .. n |-> Logged(t[i])]
  BY <1>2, <1>3, Zenon
<1> QED BY <1>4, <1>5, <1>6, Zenon DEF t, rest

\* What is still to be printed is the rest of what was accepted.
LEMMA RestIs ==
    ASSUME IInv, ~overrun, NEW at, at \subseteq {"print", "print_file"},
           NEW done, done = IF worker \in at THEN Taken - 1 ELSE Taken
    PROVE  AsLogged(InHand(at) \o Messages(Pending)) =
               SubSeq(accepted, done + 1, Len(accepted))
<1> DEFINE M == Messages(Pending)
           h == InHand(at)
<1>1. /\ M \in Seq(Entry) /\ Len(M) = Waits
      /\ \A k \in 0 .. Waits - 1 : Logged(M[k + 1]) = accepted[Taken + k + 1]
  BY MessagesWait, Zenon
<1>2. /\ accepted \in Seq(LoggedSet) /\ Taken \in 0 .. Len(accepted)
      /\ Waits \in Nat /\ Taken = Len(accepted) - Waits
  BY TakenBounds, SMTT(20) DEF IInv, RingTypes
<1>3. worker \in {"print", "print_file"} => Taken >= 1 /\ Logged(cur) = accepted[Taken]
  BY DEF IInv, Fifo
<1>4. cur \in Entry
  BY Zenon DEF IInv, ThreadTypes
<1> HIDE DEF M
<1>5. /\ h \in Seq(Entry) /\ Len(h) = Taken - done /\ done \in 0 .. Len(accepted)
      /\ Len(h) \in {0, 1}
      /\ Len(h) = 1 => h[1] = cur /\ worker \in {"print", "print_file"}
  <2>1. CASE worker \in at
    <3>1. h = <<cur>> /\ done = Taken - 1 /\ worker \in {"print", "print_file"}
      BY <2>1, Zenon DEF InHand
    <3>2. Taken >= 1 /\ Taken - done = 1 /\ done \in 0 .. Len(accepted)
      BY <1>2, <1>3, <3>1, SMTT(20)
    <3>3. <<cur>> \in Seq(Entry) /\ Len(<<cur>>) = 1 /\ <<cur>>[1] = cur
      BY <1>4
    <3> QED BY <3>1, <3>2, <3>3, Zenon
  <2>2. CASE worker \notin at
    <3>1. h = <<>> /\ done = Taken
      BY <2>2, Zenon DEF InHand
    <3> QED BY <1>2, <3>1
  <2> QED BY <2>1, <2>2, Zenon
<1> HIDE DEF h
<1>6. \A i \in 1 .. Len(h) : Logged(h[i]) = accepted[done + i]
  BY <1>2, <1>3, <1>5, SMTT(20)
<1> DEFINE w == Waits
           k == Taken
           a == Len(accepted)
           l == Len(h)
<1>10. /\ w \in Nat /\ k \in Nat /\ a \in Nat /\ l \in Nat /\ done \in Nat
       /\ k = a - w /\ l = k - done /\ Len(M) = w
  <2>1. a \in Nat /\ l \in Nat
    BY <1>2, <1>5, SMTT(20)
  <2>2. w \in Nat /\ k \in 0 .. a /\ k = a - w
    BY <1>2
  <2>3. done \in 0 .. a
    BY <1>5
  <2>4. l = k - done
    BY <1>5
  <2>5. Len(M) = w
    BY <1>1, Zenon
  <2> HIDE DEF w, k, a, l
  <2> QED BY <2>1, <2>2, <2>3, <2>4, <2>5, SMTT(20)
<1> HIDE DEF w, k, a, l
<1>7. \A i \in 1 .. Len(M) : Logged(M[i]) = accepted[done + Len(h) + i]
  <2> TAKE i \in 1 .. Len(M)
  <2>1. i - 1 \in 0 .. w - 1 /\ (i - 1) + 1 = i /\ k + (i - 1) + 1 = done + l + i
    BY <1>10
  <2> QED BY <1>1, <2>1, Zenon DEF w, k, l
<1>8. l + Len(M) = a - done
  BY <1>10, SMTT(20)
<1>9. AsLogged(h \o M) = SubSeq(accepted, done + 1, Len(accepted))
  BY <1>1, <1>2, <1>5, <1>6, <1>7, <1>8, LoggedInOrder, Zenon DEF l, a
<1> QED BY <1>9, Zenon DEF h, M

(***************************************************************************)
(* common_log: for every capacity, any number of messages, threads' order  *)
(* of calls and changes of file, colours and prefix, each message accepted *)
(* by add is shown exactly once, in order, with the settings in force when *)
(* it was logged, and the file gets the same and the debug messages; what  *)
(* is not out yet is in the worker's hand or in the ring.  A ring overrun  *)
(* by a pause excepted.                                                    *)
(***************************************************************************)
THEOREM PrintedInOrderHolds == Spec => []PrintedInOrder
<1>1. Init => PrintInv
  <2> SUFFICES ASSUME Init PROVE PrintInv
    OBVIOUS
  <2>1. IInv /\ ~overrun
    BY InitIInv DEF Init
  <2>2. accepted = <<>> /\ printed = <<>> /\ filed = <<>> /\ worker = "check"
    BY DEF Init
  <2>3. OnTerminal = 0 /\ PastFile = 0
    BY <2>1, <2>2, TakenBounds
  <2>4. <<>> \in Seq(LoggedSet)
    OBVIOUS
  <2> QED BY <2>2, <2>3, <2>4, OneMore, Zenon DEF PrintInv
<1>2. IInv /\ PrintInv /\ [Next]_vars => PrintInv'
  BY StepPrintInv, Zenon
<1>3. IInv /\ PrintInv => PrintedInOrder
  <2> SUFFICES ASSUME IInv, PrintInv, ~overrun
               PROVE  /\ Shown(accepted) = printed \o
                            Shown(AsLogged(InHand({"print"}) \o Messages(Pending)))
                      /\ ToFile(accepted) = filed \o
                            ToFile(AsLogged(InHand({"print", "print_file"}) \o Messages(Pending)))
    BY DEF PrintedInOrder
  <2> DEFINE s == accepted
             n == OnTerminal
             m == PastFile
  <2>1. s \in Seq(LoggedSet) /\ n \in 0 .. Len(s) /\ m \in 0 .. Len(s)
    BY TakenBounds
  <2>2. printed = Shown(SubSeq(s, 1, n)) /\ filed = ToFile(SubSeq(s, 1, m))
    BY DEF PrintInv
  <2>3. AsLogged(InHand({"print"}) \o Messages(Pending)) = SubSeq(s, n + 1, Len(s))
    <3>1. n = IF worker \in {"print"} THEN Taken - 1 ELSE Taken
      BY DEF OnTerminal
    <3> HIDE DEF n
    <3> QED BY <3>1, RestIs
  <2>4. AsLogged(InHand({"print", "print_file"}) \o Messages(Pending)) =
           SubSeq(s, m + 1, Len(s))
    <3>1. m = IF worker \in {"print", "print_file"} THEN Taken - 1 ELSE Taken
      BY DEF PastFile
    <3> HIDE DEF m
    <3> QED BY <3>1, RestIs
  <2> HIDE DEF s, n, m
  <2>5. /\ SubSeq(s, 1, n) \in Seq(LoggedSet) /\ SubSeq(s, n + 1, Len(s)) \in Seq(LoggedSet)
        /\ SubSeq(s, 1, m) \in Seq(LoggedSet) /\ SubSeq(s, m + 1, Len(s)) \in Seq(LoggedSet)
    BY <2>1
  <2>6. Keep(s, Loud) = Keep(SubSeq(s, 1, n), Loud) \o Keep(SubSeq(s, n + 1, Len(s)), Loud)
    BY <2>1, KeepSplit, Zenon
  <2>7. Keep(s, Filed) = Keep(SubSeq(s, 1, m), Filed) \o Keep(SubSeq(s, m + 1, Len(s)), Filed)
    BY <2>1, KeepSplit, Zenon
  <2>8. Shown(s) = Shown(SubSeq(s, 1, n)) \o Shown(SubSeq(s, n + 1, Len(s)))
    BY <2>1, <2>5, <2>6, ShownIs, Zenon
  <2>9. ToFile(s) = ToFile(SubSeq(s, 1, m)) \o ToFile(SubSeq(s, m + 1, Len(s)))
    BY <2>1, <2>5, <2>7, ShownIs, Zenon
  <2> QED BY <2>2, <2>3, <2>4, <2>8, <2>9, Zenon DEF s
<1> QED BY <1>1, <1>2, <1>3, RingIsQueue, PTL DEF Spec
=============================================================================
