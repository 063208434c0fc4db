---------------------------- MODULE ServerProofs ----------------------------
(***************************************************************************)
(* Proofs about Server, for any number of slots, HTTP threads and requests.*)
(* The invariants build on each other: types and the main thread's control *)
(* state, the one place a task is in, what a cancellation leaves behind,   *)
(* and the results, from which it follows that nothing comes after a last  *)
(* result.  On them rests what clients can count on: no task is lost, no   *)
(* result is left without a reader, and the main thread blocks only when   *)
(* nothing is left to do.  The first holds for all requests, the other two *)
(* for the requests each names.                                            *)
(***************************************************************************)
EXTENDS Server, SeqOpsProofs

-----------------------------------------------------------------------------
(***************************************************************************)
(* Sequences of tasks or results, seen by id                               *)
(***************************************************************************)
Held(s, id) == \E i \in DOMAIN s : s[i].id = id
Once(s, id) == \A i, j \in DOMAIN s : s[i].id = id /\ s[j].id = id => i = j

\* the first element and the rest
LEMMA TailIds ==
    ASSUME NEW X, NEW s \in Seq(X), s # <<>>
    PROVE  /\ Tail(s) \in Seq(X) /\ Head(s) \in X
           /\ Range(Tail(s)) \subseteq Range(s) /\ Head(s) \in Range(s)
           /\ \A id : Held(s, id) <=> Head(s).id = id \/ Held(Tail(s), id)
           /\ \A id : Once(s, id) => /\ Once(Tail(s), id)
                                     /\ ~(Head(s).id = id /\ Held(Tail(s), id))
<1> DEFINE t == Tail(s)
<1>1. /\ t \in Seq(X) /\ Head(s) = s[1] /\ Len(s) \in Nat /\ Len(s) > 0
      /\ Len(t) = Len(s) - 1 /\ DOMAIN s = 1 .. Len(s) /\ DOMAIN t = 1 .. Len(s) - 1
      /\ \A i \in DOMAIN t : t[i] = s[i + 1] /\ i + 1 \in DOMAIN s
  OBVIOUS
<1> HIDE DEF t
<1>2. \A i \in DOMAIN s : i = 1 \/ (i - 1 \in DOMAIN t /\ t[i - 1] = s[i])
  BY <1>1
<1>3. Range(t) \subseteq Range(s) /\ Head(s) \in Range(s)
  BY <1>1 DEF Range
<1>4. \A id : Held(s, id) <=> Head(s).id = id \/ Held(t, id)
  BY <1>1, <1>2 DEF Held
<1>5. ASSUME NEW id, Once(s, id) PROVE Once(t, id) /\ ~(Head(s).id = id /\ Held(t, id))
  <2>1. Once(t, id)
    BY <1>1, <1>5 DEF Once
  <2>2. ~(Head(s).id = id /\ Held(t, id))
    BY <1>1, <1>5 DEF Once, Held
  <2> QED BY <2>1, <2>2
<1>6. Head(s) \in X
  BY <1>1
<1> QED BY <1>1, <1>3, <1>4, <1>5, <1>6 DEF t

\* one sequence after another
LEMMA ConcatIds ==
    ASSUME NEW X, NEW s \in Seq(X), NEW t \in Seq(X)
    PROVE  /\ s \o t \in Seq(X)
           /\ Range(s \o t) = Range(s) \cup Range(t)
           /\ \A id : Held(s \o t, id) <=> Held(s, id) \/ Held(t, id)
           /\ \A id : Once(s, id) /\ Once(t, id) /\ ~(Held(s, id) /\ Held(t, id))
                         => Once(s \o t, id)
<1> DEFINE u == s \o t
<1>1. /\ u \in Seq(X) /\ Len(s) \in Nat /\ Len(t) \in Nat /\ Len(u) = Len(s) + Len(t)
      /\ DOMAIN s = 1 .. Len(s) /\ DOMAIN t = 1 .. Len(t)
      /\ DOMAIN u = 1 .. Len(s) + Len(t)
  OBVIOUS
<1>2. /\ \A i \in DOMAIN s : i \in DOMAIN u /\ u[i] = s[i]
      /\ \A i \in DOMAIN t : i + Len(s) \in DOMAIN u /\ u[i + Len(s)] = t[i]
      /\ \A i \in DOMAIN u : \/ i \in DOMAIN s /\ u[i] = s[i]
                             \/ i - Len(s) \in DOMAIN t /\ u[i] = t[i - Len(s)]
  <2>1. \A i \in DOMAIN s : i \in DOMAIN u /\ u[i] = s[i]
    BY <1>1
  <2>2. \A i \in DOMAIN t : i + Len(s) \in DOMAIN u /\ u[i + Len(s)] = t[i]
    BY <1>1
  <2>3. ASSUME NEW i \in DOMAIN u
        PROVE  \/ i \in DOMAIN s /\ u[i] = s[i]
               \/ i - Len(s) \in DOMAIN t /\ u[i] = t[i - Len(s)]
    <3>1. CASE i <= Len(s)
      BY <1>1, <2>1, <3>1
    <3>2. CASE i > Len(s)
      BY <1>1, <3>2
    <3> QED BY <1>1, <3>1, <3>2
  <2> QED BY <2>1, <2>2, <2>3
<1> HIDE DEF u
<1>3. Range(u) = Range(s) \cup Range(t)
  <2>1. Range(u) \subseteq Range(s) \cup Range(t)
    BY <1>2 DEF Range
  <2>2. Range(s) \subseteq Range(u)
    BY <1>2 DEF Range
  <2>3. Range(t) \subseteq Range(u)
    BY <1>2 DEF Range
  <2> QED BY <2>1, <2>2, <2>3
<1>4. \A id : Held(u, id) <=> Held(s, id) \/ Held(t, id)
  BY <1>2 DEF Held
<1>5. ASSUME NEW id, Once(s, id), Once(t, id), ~(Held(s, id) /\ Held(t, id))
      PROVE  Once(u, id)
  <2> SUFFICES ASSUME NEW i \in DOMAIN u, NEW j \in DOMAIN u, u[i].id = id, u[j].id = id
               PROVE  i = j
    BY DEF Once
  <2>1. \/ i \in DOMAIN s /\ s[i].id = id
        \/ i - Len(s) \in DOMAIN t /\ t[i - Len(s)].id = id
    BY <1>2
  <2>2. \/ j \in DOMAIN s /\ s[j].id = id
        \/ j - Len(s) \in DOMAIN t /\ t[j - Len(s)].id = id
    BY <1>2
  <2>3. \/ i \in DOMAIN s /\ s[i].id = id /\ j \in DOMAIN s /\ s[j].id = id
        \/ /\ i - Len(s) \in DOMAIN t /\ t[i - Len(s)].id = id
           /\ j - Len(s) \in DOMAIN t /\ t[j - Len(s)].id = id
    BY <1>5, <2>1, <2>2 DEF Held
  <2>4. i = j \/ i - Len(s) = j - Len(s)
    BY <1>5, <2>3 DEF Once
  <2> QED BY <1>1, <2>4
<1> QED BY <1>1, <1>3, <1>4, <1>5 DEF u

\* a single element as a sequence, to use ConcatIds for push_front and push_back
LEMMA OneIds ==
    ASSUME NEW X, NEW e \in X
    PROVE  /\ <<e>> \in Seq(X) /\ Range(<<e>>) = {e}
           /\ \A id : Held(<<e>>, id) <=> e.id = id
           /\ \A id : Once(<<e>>, id)
<1>1. DOMAIN <<e>> = {1} /\ <<e>>[1] = e
  OBVIOUS
<1>2. Range(<<e>>) = {e}
  BY <1>1 DEF Range
<1> QED BY <1>1, <1>2 DEF Held, Once

\* push_back is concatenation with the one-element sequence
LEMMA AppendIsConcat ==
    ASSUME NEW X, NEW s \in Seq(X), NEW e \in X
    PROVE  Append(s, e) = s \o <<e>>
OBVIOUS

\* tasks pushed to the front one by one
LEMMA ReverseIds ==
    ASSUME NEW X, NEW s \in Seq(X)
    PROVE  /\ Reversed(s) \in Seq(X)
           /\ Range(Reversed(s)) = Range(s)
           /\ \A id : Held(Reversed(s), id) <=> Held(s, id)
           /\ \A id : Once(s, id) => Once(Reversed(s), id)
<1> DEFINE r == Reversed(s)
<1>1. Len(s) \in Nat /\ DOMAIN s = 1 .. Len(s)
  OBVIOUS
<1>2. r \in Seq(X) /\ DOMAIN r = 1 .. Len(s)
      /\ \A i \in DOMAIN r : r[i] = s[(Len(s) - i) + 1]
  BY DEF Reversed
<1> HIDE DEF r
<1>3. /\ \A i \in DOMAIN r : (Len(s) - i) + 1 \in DOMAIN s /\ r[i] = s[(Len(s) - i) + 1]
      /\ \A i \in DOMAIN s : (Len(s) - i) + 1 \in DOMAIN r /\ s[i] = r[(Len(s) - i) + 1]
  <2>1. \A i \in DOMAIN s : (Len(s) - i) + 1 \in DOMAIN r
                            /\ (Len(s) - ((Len(s) - i) + 1)) + 1 = i
    BY <1>1, <1>2
  <2>2. \A i \in DOMAIN r : (Len(s) - i) + 1 \in DOMAIN s
    BY <1>1, <1>2
  <2> QED BY <1>2, <2>1, <2>2
<1>4. Range(r) = Range(s)
  <2>1. Range(r) \subseteq Range(s)
    BY <1>3 DEF Range
  <2>2. Range(s) \subseteq Range(r)
    BY <1>3 DEF Range
  <2> QED BY <2>1, <2>2, Zenon
<1>5. \A id : Held(r, id) <=> Held(s, id)
  BY <1>3 DEF Held
<1>6. ASSUME NEW id, Once(s, id) PROVE Once(r, id)
  <2> SUFFICES ASSUME NEW i \in DOMAIN r, NEW j \in DOMAIN r, r[i].id = id, r[j].id = id
               PROVE  i = j
    BY DEF Once
  <2>1. (Len(s) - i) + 1 = (Len(s) - j) + 1
    BY <1>3, <1>6 DEF Once
  <2> QED BY <1>1, <1>2, <2>1
<1> QED BY <1>2, <1>4, <1>5, <1>6 DEF r

\* cleanup_pending_task keeps the order and drops exactly the targets
LEMMA CleanedIds ==
    ASSUME NEW X, NEW s \in Seq(X), NEW targets
    PROVE  /\ Cleaned(s, targets) \in Seq(X)
           /\ Range(Cleaned(s, targets)) \subseteq Range(s)
           /\ \A id : Held(Cleaned(s, targets), id) <=> Held(s, id) /\ id \notin targets
           /\ \A id : Once(s, id) => Once(Cleaned(s, targets), id)
           /\ \A e \in Range(s) : e.id \notin targets => e \in Range(Cleaned(s, targets))
<1> DEFINE S == {t \in Range(s) : t.id \notin targets}
<1> DEFINE k == Cleaned(s, targets)
<1>1. k \in Seq(X) /\ \E f : Places(f, k, s, S, Len(s))
  BY KeepPlaces, Zenon DEF Cleaned
<1>2. PICK f : Places(f, k, s, S, Len(s))
  BY <1>1, Zenon
<1> HIDE DEF k
<1>3. DOMAIN k = 1 .. Len(k) /\ Len(k) \in Nat /\ DOMAIN s = 1 .. Len(s)
  BY <1>1
<1>4. \A i \in DOMAIN s : s[i] \in S <=> s[i].id \notin targets
  BY DEF Range
<1> HIDE DEF S
<1>5. /\ \A i \in DOMAIN k : f[i] \in DOMAIN s /\ k[i] = s[f[i]] /\ k[i].id \notin targets
      /\ \A j \in DOMAIN s : s[j].id \notin targets =>
             \E i \in DOMAIN k : f[i] = j /\ k[i] = s[j]
  <2>1. \A i \in DOMAIN k : f[i] \in DOMAIN s /\ k[i] = s[f[i]] /\ s[f[i]] \in S
    BY <1>2, <1>3 DEF Places
  <2>2. \A j \in DOMAIN s : s[j] \in S => \E i \in DOMAIN k : f[i] = j
    BY <1>2, <1>3, Zenon DEF Places
  <2> QED BY <2>1, <2>2, <1>4
<1>6. Range(k) \subseteq Range(s)
  BY <1>5 DEF Range
<1>7. \A id : Held(k, id) <=> Held(s, id) /\ id \notin targets
  BY <1>5 DEF Held
<1>8. ASSUME NEW id, Once(s, id) PROVE Once(k, id)
  <2> SUFFICES ASSUME NEW i \in DOMAIN k, NEW j \in DOMAIN k, k[i].id = id, k[j].id = id
               PROVE  i = j
    BY DEF Once
  <2>1. f[i] = f[j]
    BY <1>5, <1>8 DEF Once
  <2>2. f[i] \in Int /\ f[j] \in Int /\ (i < j => f[i] < f[j]) /\ (j < i => f[j] < f[i])
    BY <1>2, <1>3 DEF Places
  <2> QED BY <1>3, <2>1, <2>2
<1>9. \A e \in Range(s) : e.id \notin targets => e \in Range(k)
  BY <1>5 DEF Range
<1> QED BY <1>1, <1>6, <1>7, <1>8, <1>9 DEF k

-----------------------------------------------------------------------------
(***************************************************************************)
(* The inductive invariants                                                *)
(***************************************************************************)
Releasing == mpc \in {"release", "fail release"}
Advancing == mpc \in {"slots", "stop?", "fail"} \/ Releasing

\* the main thread's local state fits the slots it works on
MainInv ==
    /\ mpc \in {"slots", "fail"} => batch # {}
    /\ Advancing => batch \subseteq Busy
    /\ mpc = "stop?" \/ Releasing => mslot \in batch
    /\ \A s \in Slots : n_decoded[s] = NPredict =>
                          s = mslot /\ mpc \in {"stop?", "release"}

Results == [id : AllIds, kind : {"partial", "final", "error"}]

QueueType ==
    /\ queue_tasks \in Seq(Tasks) /\ queue_tasks_deferred \in Seq(Tasks)
    /\ mtask \in Tasks

ResponseType ==
    /\ waiting_task_ids \subseteq AllIds
    /\ queue_results \in Seq(Results)

MainType ==
    /\ mpc \in {"pop", "process", "update", "slots", "stop?", "release", "fail",
                "fail release", "wait"}
    /\ mslot \in Slots /\ batch \subseteq Slots
    /\ slot_task \in [Slots -> AllIds \cup {NoId}]
    /\ n_decoded \in [Slots -> 0 .. NPredict]

HttpType ==
    /\ pc \in [Handlers -> {"start", "post", "stream", "recv", "cancel",
                            "remove", "done"}]
    /\ got \in [Handlers -> SUBSET AllIds] /\ todo \in [Handlers -> SUBSET AllIds]
    /\ \A h \in Handlers : got[h] \subseteq Ids(h) /\ todo[h] \subseteq Ids(h)
    /\ closed \in [Handlers -> BOOLEAN]

\* TypeOK by component, with got and todo as functions, and MainInv
TypeInv ==
    /\ scene \in DOMAIN Scenarios
    /\ QueueType /\ ResponseType /\ MainType /\ MainInv /\ HttpType

\* the places of a task, one by one
InHands(id) == mpc = "process" /\ mtask.id = id
InSlot(id) == \E s \in Slots : slot_task[s] = id
NoHome(id) == /\ ~Held(queue_tasks, id) /\ ~Held(queue_tasks_deferred, id)
              /\ ~InHands(id) /\ ~InSlot(id)

Single(id) ==
    /\ Once(queue_tasks, id) /\ Once(queue_tasks_deferred, id)
    /\ ~(Held(queue_tasks, id) /\ Held(queue_tasks_deferred, id))
    /\ InHands(id) => ~Held(queue_tasks, id) /\ ~Held(queue_tasks_deferred, id)
    /\ InSlot(id) => /\ ~Held(queue_tasks, id) /\ ~Held(queue_tasks_deferred, id)
                     /\ ~InHands(id)
    /\ \A s, t \in Slots : slot_task[s] = id /\ slot_task[t] = id => s = t

\* a task is in at most one place, and in none before it is posted
HomeInv ==
    /\ \A id \in AllIds : Single(id)
    /\ \A h \in Handlers : pc[h] \in {"start", "post"} =>
          \A id \in Ids(h) : NoHome(id)

\* a task that can still produce results: it is in a place, and not in the slot
\* whose last result has been sent
Live(id) ==
    \/ Held(queue_tasks, id) \/ Held(queue_tasks_deferred, id) \/ InHands(id)
    \/ \E s \in Slots : slot_task[s] = id /\ ~(Releasing /\ s = mslot)

Final(id) == \E i \in DOMAIN queue_results :
                queue_results[i].id = id /\ queue_results[i].kind # "partial"

\* a task with a final result is not live, so nothing follows that result
ResultInv ==
    /\ StopIsLast
    /\ \A id \in AllIds : Final(id) => ~Live(id)
    /\ \A h \in Handlers : pc[h] \in {"start", "post"} =>
          \A id \in Ids(h) : ~Held(queue_results, id)

\* the target of a cancellation has a client that no longer reads
CancelInv ==
    \A h \in Handlers :
        \A t \in Range(queue_tasks) \cup Range(queue_tasks_deferred) \cup {mtask} :
            t.target \in Ids(h) => pc[h] \in {"remove", "done"}

\* a client that reads is registered, and each of its tasks is live or finished
ServedInv ==
    /\ \A h \in Handlers : pc[h] \in {"post", "stream", "recv"} =>
          Ids(h) \subseteq waiting_task_ids
    /\ \A h \in Handlers : pc[h] \in {"stream", "recv"} =>
          \A id \in Ids(h) \ got[h] : Live(id) \/ Final(id)

-----------------------------------------------------------------------------
(***************************************************************************)
(* Identities, and the operations of the two queues                        *)
(***************************************************************************)
\* a task id belongs to exactly one request, and is not NoId
LEMMA IdFacts ==
    ASSUME scene \in DOMAIN Scenarios
    PROVE  /\ NSlots \in Nat \ {0} /\ NPredict \in Nat \ {0}
           /\ NoId \notin AllIds
           /\ \A h \in Handlers : /\ Ids(h) \subseteq AllIds
                                  /\ Request[h].n \in Nat \ {0}
                                  /\ Request[h].type \in InferenceTypes \cup ControlTypes
                                  /\ IsControl(h) => Ids(h) = {<<h, 1>>}
           /\ \A id \in AllIds : \E h \in Handlers : id \in Ids(h)
           /\ \A h, g \in Handlers : \A id \in Ids(h) : id \in Ids(g) => g = h
<1>1. NSlots \in Nat \ {0} /\ NPredict \in Nat \ {0}
  BY RequestAssumption
<1>2. \A h \in Handlers : /\ Request[h].n \in Nat \ {0}
                          /\ Request[h].type \in InferenceTypes \cup ControlTypes
                          /\ Request[h].type \in ControlTypes => Request[h].n = 1
                          /\ \A i \in 1 .. Request[h].n : <<h, i>> # NoId
  BY RequestAssumption DEF Request
<1>3. \A h \in Handlers : NoId \notin Ids(h)
  BY <1>2 DEF Ids
<1>4. \A h \in Handlers : Request[h].n = 1 => Ids(h) = {<<h, 1>>}
  BY DEF Ids
<1>5. \A h, g \in Handlers : \A id \in Ids(h) : id \in Ids(g) => g = h
  BY DEF Ids
<1> QED BY <1>1, <1>2, <1>3, <1>4, <1>5 DEF AllIds, IsControl

\* the ids are those of the scenario, which never changes
LEMMA IdsFixed ==
    ASSUME scene' = scene
    PROVE  /\ AllIds' = AllIds /\ Tasks' = Tasks /\ Results' = Results
           /\ \A h \in Handlers : Ids(h)' = Ids(h)
           /\ \A h \in Handlers : IsControl(h)' <=> IsControl(h)
<1>1. Request' = Request
  BY DEF Request
<1>2. \A h \in Handlers : Ids(h)' = Ids(h)
  BY <1>1 DEF Ids
<1>3. AllIds' = AllIds
  BY <1>1 DEF AllIds, Ids
<1>4. Tasks' = Tasks
  BY <1>3 DEF Tasks, NextResponse
<1> QED BY <1>1, <1>2, <1>3, <1>4 DEF Results, IsControl

\* Min is an element of a non-empty set of slots
LEMMA MinSlot ==
    ASSUME NEW S, S \subseteq Slots, S # {}
    PROVE  Min(S) \in S /\ \A s \in S : Min(S) <= s
<1>1. S \subseteq Nat
  BY RequestAssumption DEF Slots
<1>2. \E x \in S : \A y \in S : x <= y
  BY <1>1, SmallestExists, Zenon
<1> QED BY <1>2 DEF Min

\* what is a task: an id of a request, a cancellation, or NEXT_RESPONSE
LEMMA TaskFacts ==
    ASSUME NEW t \in Tasks
    PROVE  /\ t.type \in InferenceTypes \cup ControlTypes => t.id \in AllIds /\ t.target = NoId
           /\ t.type \in {"CANCEL", "NEXT_RESPONSE"} => t.id = NoId
           /\ t.type = "CANCEL" => t.target \in AllIds
           /\ t.type # "CANCEL" => t.target = NoId
           /\ t.type \in InferenceTypes \cup ControlTypes \cup {"CANCEL", "NEXT_RESPONSE"}
BY DEF Tasks, Task, NextResponse, InferenceTypes, ControlTypes

\* NEXT_RESPONSE has no id and no target
LEMMA NextResponseFacts ==
    NextResponse \in Tasks /\ NextResponse.id = NoId /\ NextResponse.target = NoId
    /\ NextResponse.type = "NEXT_RESPONSE"
BY DEF Tasks, Task, NextResponse

\* the tasks a request posts: one for each of its ids, none a cancellation
LEMMA TasksOfFacts ==
    ASSUME scene \in DOMAIN Scenarios, NEW h \in Handlers
    PROVE  /\ TasksOf(h) \in Seq(Tasks)
           /\ \A id : Held(TasksOf(h), id) <=> id \in Ids(h)
           /\ \A id : Once(TasksOf(h), id)
           /\ \A t \in Range(TasksOf(h)) : t.type = Request[h].type /\ t.target = NoId
                                           /\ t.id \in Ids(h)
<1>1. Request[h].n \in Nat /\ Request[h].type \in InferenceTypes \cup ControlTypes
      /\ Ids(h) \subseteq AllIds
  BY IdFacts
<1> DEFINE n == Request[h].n
<1> DEFINE type == Request[h].type
<1>2. \A i \in 1 .. n : <<h, i>> \in Ids(h)
  BY DEF Ids
<1>3. \A i \in 1 .. n : [type |-> type, id |-> <<h, i>>, target |-> NoId] \in Tasks
  BY <1>1, <1>2 DEF Tasks
<1>4. TasksOf(h) = [i \in 1 .. n |-> [type |-> type, id |-> <<h, i>>, target |-> NoId]]
  BY DEF TasksOf, Task
<1> HIDE DEF n, type
<1> DEFINE s == TasksOf(h)
<1>5. s \in Seq(Tasks) /\ DOMAIN s = 1 .. n
  <2>1. PICK m \in Nat : m = n
    BY <1>1 DEF n
  <2>2. \A f \in [1 .. m -> Tasks] : f \in Seq(Tasks) /\ DOMAIN f = 1 .. m
    OBVIOUS
  <2>3. s \in [1 .. m -> Tasks]
    BY <1>3, <1>4, <2>1
  <2> QED BY <2>1, <2>2, <2>3, Zenon
<1>6. \A i \in DOMAIN s : s[i].type = type /\ s[i].id = <<h, i>> /\ s[i].target = NoId
  BY <1>4
<1> HIDE DEF s
<1>7. \A id : Held(s, id) <=> id \in Ids(h)
  BY <1>5, <1>6, Zenon DEF Held, Ids, n
<1>8. \A id : Once(s, id)
  BY <1>5, <1>6 DEF Once
<1>9. \A t \in Range(s) : t.type = type /\ t.target = NoId /\ t.id \in Ids(h)
  BY <1>2, <1>5, <1>6, Zenon DEF Range
<1> QED BY <1>5, <1>7, <1>8, <1>9 DEF s, type

\* the cancellations a request posts: one for each of its ids
CancelsOf(h) == [i \in 1 .. Request[h].n |-> Task("CANCEL", NoId, <<h, i>>)]

\* their targets are the ids of the request, and they have no id of their own
LEMMA CancelsOfFacts ==
    ASSUME scene \in DOMAIN Scenarios, NEW h \in Handlers
    PROVE  /\ CancelsOf(h) \in Seq(Tasks)
           /\ \A id \in AllIds : ~Held(CancelsOf(h), id)
           /\ \A t \in Range(CancelsOf(h)) : t.target \in Ids(h) /\ t.type = "CANCEL"
           /\ {t.target : t \in Range(CancelsOf(h))} \ {NoId} = Ids(h)
<1>1. Request[h].n \in Nat /\ Ids(h) \subseteq AllIds /\ NoId \notin AllIds
  BY IdFacts
<1> DEFINE n == Request[h].n
<1>2. \A i \in 1 .. n : <<h, i>> \in Ids(h)
  BY DEF Ids
<1>3. \A i \in 1 .. n : [type |-> "CANCEL", id |-> NoId, target |-> <<h, i>>] \in Tasks
  BY <1>1, <1>2 DEF Tasks, Task
<1>4. CancelsOf(h) = [i \in 1 .. n |-> [type |-> "CANCEL", id |-> NoId, target |-> <<h, i>>]]
  BY DEF CancelsOf, Task
<1> HIDE DEF n
<1> DEFINE s == CancelsOf(h)
<1>5. s \in Seq(Tasks) /\ DOMAIN s = 1 .. n
  <2>1. PICK m \in Nat : m = n
    BY <1>1 DEF n
  <2>2. \A f \in [1 .. m -> Tasks] : f \in Seq(Tasks) /\ DOMAIN f = 1 .. m
    OBVIOUS
  <2>3. s \in [1 .. m -> Tasks]
    BY <1>3, <1>4, <2>1
  <2> QED BY <2>1, <2>2, <2>3, Zenon
<1>6. \A i \in DOMAIN s : s[i].type = "CANCEL" /\ s[i].id = NoId /\ s[i].target = <<h, i>>
  BY <1>4
<1> HIDE DEF s
<1>7. \A id \in AllIds : ~Held(s, id)
  BY <1>1, <1>6 DEF Held
<1>8. \A t \in Range(s) : t.target \in Ids(h) /\ t.type = "CANCEL"
  BY <1>2, <1>5, <1>6, Zenon DEF Range
<1>9. ASSUME NEW id \in Ids(h) PROVE id \in {t.target : t \in Range(s)}
  BY <1>5, <1>6 DEF Ids, Range, n
<1> QED BY <1>1, <1>5, <1>7, <1>8, <1>9 DEF s

\* post(): what it does to each queue, seen by id and as sets of tasks
LEMMA PostIds ==
    ASSUME queue_tasks \in Seq(Tasks), queue_tasks_deferred \in Seq(Tasks),
           NEW tasks \in Seq(Tasks), NEW front, Post(tasks, front),
           NEW targets, targets = {t.target : t \in Range(tasks)} \ {NoId}
    PROVE  /\ queue_tasks' \in Seq(Tasks) /\ queue_tasks_deferred' \in Seq(Tasks)
           /\ Range(queue_tasks') \subseteq Range(queue_tasks) \cup Range(tasks)
           /\ Range(tasks) \subseteq Range(queue_tasks')
           /\ \A e \in Range(queue_tasks) : e.id \notin targets => e \in Range(queue_tasks')
           /\ Range(queue_tasks_deferred') \subseteq Range(queue_tasks_deferred)
           /\ \A id : Held(queue_tasks', id) <=>
                         (Held(queue_tasks, id) /\ id \notin targets) \/ Held(tasks, id)
           /\ \A id : Held(queue_tasks_deferred', id) <=>
                         Held(queue_tasks_deferred, id) /\ id \notin targets
           /\ \A id : Once(queue_tasks, id) /\ Once(tasks, id)
                      /\ ~(Held(queue_tasks, id) /\ Held(tasks, id)) => Once(queue_tasks', id)
           /\ \A id : Once(queue_tasks_deferred, id) => Once(queue_tasks_deferred', id)
<1> DEFINE rest == Cleaned(queue_tasks, targets)
<1> DEFINE kept == Cleaned(queue_tasks_deferred, targets)
<1> DEFINE rev == Reversed(tasks)
<1>1. /\ rest \in Seq(Tasks) /\ Range(rest) \subseteq Range(queue_tasks)
      /\ \A e \in Range(queue_tasks) : e.id \notin targets => e \in Range(rest)
      /\ \A id : Held(rest, id) <=> Held(queue_tasks, id) /\ id \notin targets
      /\ \A id : Once(queue_tasks, id) => Once(rest, id)
  BY CleanedIds
<1>2. /\ kept \in Seq(Tasks) /\ Range(kept) \subseteq Range(queue_tasks_deferred)
      /\ \A id : Held(kept, id) <=> Held(queue_tasks_deferred, id) /\ id \notin targets
      /\ \A id : Once(queue_tasks_deferred, id) => Once(kept, id)
  BY CleanedIds
<1>3. /\ rev \in Seq(Tasks) /\ Range(rev) = Range(tasks)
      /\ \A id : Held(rev, id) <=> Held(tasks, id)
      /\ \A id : Once(tasks, id) => Once(rev, id)
  BY ReverseIds
<1>4. /\ queue_tasks' = IF front THEN rev \o rest ELSE rest \o tasks
      /\ queue_tasks_deferred' = kept
  BY DEF Post
<1> HIDE DEF rest, kept, rev
<1> DEFINE Joined(q) ==
        /\ q \in Seq(Tasks) /\ Range(q) = Range(rest) \cup Range(tasks)
        /\ \A id : Held(q, id) <=> Held(rest, id) \/ Held(tasks, id)
        /\ \A id : Once(rest, id) /\ Once(tasks, id) /\ ~(Held(rest, id) /\ Held(tasks, id))
                      => Once(q, id)
<1>5. Joined(rev \o rest)
  <2>1. rev \o rest \in Seq(Tasks) /\ Range(rev \o rest) = Range(rev) \cup Range(rest)
    BY <1>1, <1>3, ConcatIds, Zenon
  <2>2. /\ \A id : Held(rev \o rest, id) <=> Held(rev, id) \/ Held(rest, id)
        /\ \A id : Once(rev, id) /\ Once(rest, id) /\ ~(Held(rev, id) /\ Held(rest, id))
                      => Once(rev \o rest, id)
    BY <1>1, <1>3, ConcatIds, Zenon
  <2>3. \A id : Held(rev \o rest, id) <=> Held(rest, id) \/ Held(tasks, id)
    BY <2>2, <1>3
  <2>4. \A id : Once(rest, id) /\ Once(tasks, id) /\ ~(Held(rest, id) /\ Held(tasks, id))
                      => Once(rev \o rest, id)
    BY <2>2, <1>3, Zenon
  <2> QED BY <2>1, <2>3, <2>4, <1>3, Zenon
<1>6. Joined(rest \o tasks)
  BY <1>1, ConcatIds
<1>7. Joined(queue_tasks')
  <2>1. queue_tasks' = rev \o rest \/ queue_tasks' = rest \o tasks
    BY <1>4
  <2> HIDE DEF Joined
  <2> QED BY <2>1, <1>5, <1>6, Zenon
<1>8. \A id : Once(queue_tasks, id) /\ Once(tasks, id)
              /\ ~(Held(queue_tasks, id) /\ Held(tasks, id)) => Once(queue_tasks', id)
  BY <1>1, <1>7
<1>9. \A id : Held(queue_tasks', id) <=>
                 (Held(queue_tasks, id) /\ id \notin targets) \/ Held(tasks, id)
  BY <1>1, <1>7
<1>10. /\ queue_tasks' \in Seq(Tasks)
       /\ Range(queue_tasks') \subseteq Range(queue_tasks) \cup Range(tasks)
       /\ Range(tasks) \subseteq Range(queue_tasks')
       /\ \A e \in Range(queue_tasks) : e.id \notin targets => e \in Range(queue_tasks')
  BY <1>1, <1>7
<1>11. /\ queue_tasks_deferred' \in Seq(Tasks)
       /\ Range(queue_tasks_deferred') \subseteq Range(queue_tasks_deferred)
       /\ \A id : Held(queue_tasks_deferred', id) <=>
                     Held(queue_tasks_deferred, id) /\ id \notin targets
       /\ \A id : Once(queue_tasks_deferred, id) => Once(queue_tasks_deferred', id)
  BY <1>2, <1>4
<1> QED BY <1>8, <1>9, <1>10, <1>11

\* pop_deferred_task(): the first deferred task, if any, moves to the queue
LEMMA PopIds ==
    ASSUME queue_tasks \in Seq(Tasks), queue_tasks_deferred \in Seq(Tasks),
           PopDeferredTask
    PROVE  /\ queue_tasks' \in Seq(Tasks) /\ queue_tasks_deferred' \in Seq(Tasks)
           /\ Range(queue_tasks) \subseteq Range(queue_tasks')
           /\ Range(queue_tasks') \subseteq Range(queue_tasks) \cup Range(queue_tasks_deferred)
           /\ Range(queue_tasks_deferred') \subseteq Range(queue_tasks_deferred)
           /\ queue_tasks_deferred # <<>> =>
                 \E e \in Range(queue_tasks_deferred) : e \in Range(queue_tasks')
           /\ \A id : (Held(queue_tasks', id) \/ Held(queue_tasks_deferred', id)) <=>
                         (Held(queue_tasks, id) \/ Held(queue_tasks_deferred, id))
           /\ \A id : /\ Once(queue_tasks, id) /\ Once(queue_tasks_deferred, id)
                      /\ ~(Held(queue_tasks, id) /\ Held(queue_tasks_deferred, id))
                => /\ Once(queue_tasks', id) /\ Once(queue_tasks_deferred', id)
                   /\ ~(Held(queue_tasks', id) /\ Held(queue_tasks_deferred', id))
<1>1. CASE queue_tasks_deferred = <<>>
  <2>1. queue_tasks' = queue_tasks /\ queue_tasks_deferred' = queue_tasks_deferred
    BY <1>1, Zenon DEF PopDeferredTask, queueVars
  <2> QED BY <2>1, <1>1
<1>2. CASE queue_tasks_deferred # <<>>
  <2> DEFINE d == queue_tasks_deferred
  <2> DEFINE one == <<Head(d)>>
  <2>1. queue_tasks' = one \o queue_tasks /\ queue_tasks_deferred' = Tail(d)
    BY <1>2 DEF PopDeferredTask
  <2>2. /\ Tail(d) \in Seq(Tasks) /\ Head(d) \in Tasks
        /\ Range(Tail(d)) \subseteq Range(d) /\ Head(d) \in Range(d)
        /\ \A id : Held(d, id) <=> Head(d).id = id \/ Held(Tail(d), id)
        /\ \A id : Once(d, id) => Once(Tail(d), id) /\ ~(Head(d).id = id /\ Held(Tail(d), id))
    BY <1>2, TailIds
  <2>3. /\ one \in Seq(Tasks) /\ Range(one) = {Head(d)}
        /\ \A id : Held(one, id) <=> Head(d).id = id
        /\ \A id : Once(one, id)
    BY <2>2, OneIds
  <2> HIDE DEF one
  <2> DEFINE q == one \o queue_tasks
  <2>4. /\ q \in Seq(Tasks) /\ Range(q) = Range(one) \cup Range(queue_tasks)
        /\ \A id : Held(q, id) <=> Held(one, id) \/ Held(queue_tasks, id)
        /\ \A id : Once(one, id) /\ Once(queue_tasks, id)
                   /\ ~(Held(one, id) /\ Held(queue_tasks, id)) => Once(q, id)
    BY <2>3, ConcatIds
  <2> HIDE DEF q, d
  <2>5. \A id : /\ Once(queue_tasks, id) /\ Once(d, id)
                /\ ~(Held(queue_tasks, id) /\ Held(d, id))
                => /\ Once(q, id) /\ Once(Tail(d), id)
                   /\ ~(Held(q, id) /\ Held(Tail(d), id))
    BY <2>2, <2>3, <2>4, Zenon
  <2>6. \A id : (Held(q, id) \/ Held(Tail(d), id)) <=> (Held(queue_tasks, id) \/ Held(d, id))
    BY <2>2, <2>3, <2>4, Zenon
  <2>7. Head(d) \in Range(q) /\ Range(queue_tasks) \subseteq Range(q)
        /\ Range(q) \subseteq Range(queue_tasks) \cup Range(d)
    BY <2>2, <2>3, <2>4
  <2> QED BY <2>1, <2>2, <2>4, <2>5, <2>6, <2>7 DEF q, d
<1> QED BY <1>1, <1>2

-----------------------------------------------------------------------------
(***************************************************************************)
(* The operations of server_response                                       *)
(***************************************************************************)
\* r is s without the elements at the positions D, in the same order
Thinned(r, s, D) ==
    \E f : /\ f \in [1 .. Len(r) -> (1 .. Len(s)) \ D]
           /\ \A i \in 1 .. Len(r) : r[i] = s[f[i]]
           /\ \A i, j \in 1 .. Len(r) : i < j => f[i] < f[j]
           /\ \A j \in (1 .. Len(s)) \ D : \E i \in 1 .. Len(r) : f[i] = j

Stops(s) == \A i, j \in DOMAIN s :
                (i < j /\ s[i].id = s[j].id) => s[i].kind = "partial"

\* a thinned sequence has the other elements, and a last result stays the last
LEMMA ThinnedFacts ==
    ASSUME NEW X, NEW s \in Seq(X), NEW r \in Seq(X), NEW D, Thinned(r, s, D)
    PROVE  /\ \A i \in DOMAIN r : \E j \in DOMAIN s \ D : r[i] = s[j]
           /\ \A j \in DOMAIN s \ D : \E i \in DOMAIN r : r[i] = s[j]
           /\ Stops(s) => Stops(r)
<1>1. PICK f : /\ f \in [1 .. Len(r) -> (1 .. Len(s)) \ D]
               /\ \A i \in 1 .. Len(r) : r[i] = s[f[i]]
               /\ \A i, j \in 1 .. Len(r) : i < j => f[i] < f[j]
               /\ \A j \in (1 .. Len(s)) \ D : \E i \in 1 .. Len(r) : f[i] = j
  BY Zenon DEF Thinned
<1>2. DOMAIN r = 1 .. Len(r) /\ DOMAIN s = 1 .. Len(s)
  OBVIOUS
<1>3. \A i \in DOMAIN r : f[i] \in DOMAIN s \ D /\ r[i] = s[f[i]]
  BY <1>1, <1>2
<1>4. \A j \in DOMAIN s \ D : \E i \in DOMAIN r : r[i] = s[j]
  <2> TAKE j \in DOMAIN s \ D
  <2>1. j \in (1 .. Len(s)) \ D
    BY <1>2
  <2>2. PICK i \in 1 .. Len(r) : f[i] = j
    BY <1>1, <2>1, Zenon
  <2> QED BY <1>2, <1>3, <2>2, Zenon
<1>5. Stops(s) => Stops(r)
  BY <1>1, <1>2, <1>3 DEF Stops
<1> QED BY <1>3, <1>4, <1>5

\* erase(begin() + n)
LEMMA RemoveAtThins ==
    ASSUME NEW X, NEW s \in Seq(X), NEW n \in DOMAIN s
    PROVE  Without(s, n) \in Seq(X) /\ Thinned(Without(s, n), s, {n})
<1> DEFINE r == Without(s, n)
<1>1. n \in 1 .. Len(s) /\ Len(s) \in Nat
  OBVIOUS
<1>5. /\ r \in Seq(X) /\ Len(r) = Len(s) - 1
      /\ \A j \in 1 .. n - 1 : r[j] = s[j]
      /\ \A j \in n .. Len(s) - 1 : r[j] = s[j + 1]
  BY <1>1, WithoutIs, Zenon
<1> HIDE DEF r
<1>6. \A i \in 1 .. Len(r) : r[i] = IF i < n THEN s[i] ELSE s[i + 1]
  <2> TAKE i \in 1 .. Len(r)
  <2>1. CASE i < n
    BY <2>1, <1>1, <1>5
  <2>2. CASE ~(i < n)
    BY <2>2, <1>1, <1>5
  <2> QED BY <2>1, <2>2
<1> DEFINE f == [i \in 1 .. Len(r) |-> IF i < n THEN i ELSE i + 1]
<1>7. f \in [1 .. Len(r) -> (1 .. Len(s)) \ {n}]
  BY <1>1, <1>5
<1>8. \A i \in 1 .. Len(r) : r[i] = s[f[i]]
  BY <1>6
<1>9. \A i, j \in 1 .. Len(r) : i < j => f[i] < f[j]
  BY <1>1, <1>5
<1>10. \A j \in (1 .. Len(s)) \ {n} : \E i \in 1 .. Len(r) : f[i] = j
  <2> TAKE j \in (1 .. Len(s)) \ {n}
  <2> DEFINE i == IF j < n THEN j ELSE j - 1
  <2>1. i \in 1 .. Len(r) /\ f[i] = j
    BY <1>1, <1>5
  <2> HIDE DEF i
  <2> QED BY <2>1
<1>11. Thinned(r, s, {n})
  <2> HIDE DEF f
  <2> QED BY <1>7, <1>8, <1>9, <1>10 DEF Thinned
<1> QED BY <1>5, <1>11 DEF r

\* recv(): the position it takes is that of the oldest result of one of ids
LEMMA OldestFacts ==
    ASSUME NEW ids, queue_results \in Seq(Results), Available(ids)
    PROVE  /\ Oldest(ids) \in DOMAIN queue_results
           /\ queue_results[Oldest(ids)].id \in ids
           /\ \A j \in 1 .. Oldest(ids) - 1 : queue_results[j].id \notin ids
<1> DEFINE T == {i \in DOMAIN queue_results : queue_results[i].id \in ids}
<1>1. T \subseteq Nat /\ T # {}
  BY DEF Available
<1>2. PICK x \in T : \A y \in T : x <= y
  <2>1. T \subseteq Nat /\ T # {}
    BY <1>1
  <2> HIDE DEF T
  <2> QED BY <2>1, SmallestExists, Zenon
<1>3. \A j \in 1 .. x - 1 : j \in DOMAIN queue_results /\ j \notin T
  BY <1>2
<1>4. \A j \in 1 .. x - 1 : queue_results[j].id \notin ids
  BY <1>3
<1> QED BY <1>2, <1>4, Zenon DEF Oldest

\* recv() takes out exactly that result
LEMMA RecvThins ==
    ASSUME NEW ids, queue_results \in Seq(Results), Recv(ids)
    PROVE  /\ queue_results' \in Seq(Results)
           /\ Thinned(queue_results', queue_results, {Oldest(ids)})
BY OldestFacts, RemoveAtThins DEF Recv

\* remove_waiting_task_id takes out exactly the results of id
LEMMA RemoveWaitingThins ==
    ASSUME NEW id, queue_results \in Seq(Results), RemoveWaitingTaskId(id)
    PROVE  /\ queue_results' \in Seq(Results)
           /\ Thinned(queue_results', queue_results,
                      {i \in DOMAIN queue_results : queue_results[i].id = id})
<1> DEFINE s == queue_results
<1> DEFINE S == {r \in Range(s) : r.id # id}
<1> DEFINE D == {i \in DOMAIN s : s[i].id = id}
<1> DEFINE k == Keep(s, S)
<1>1. queue_results' = k
  BY DEF RemoveWaitingTaskId
<1>2. k \in Seq(Results) /\ \E f : Places(f, k, s, S, Len(s))
  <2>1. s \in Seq(Results)
    OBVIOUS
  <2> HIDE DEF S, s
  <2> QED BY <2>1, KeepPlaces
<1> HIDE DEF k
<1>3. PICK f : Places(f, k, s, S, Len(s))
  BY <1>2, Zenon
<1>4. \A j \in 1 .. Len(s) : s[j] \in S <=> j \notin D
  BY DEF Range
<1> HIDE DEF S, D
<1>5. f \in [1 .. Len(k) -> (1 .. Len(s)) \ D]
  BY <1>3, <1>4 DEF Places
<1>6. Thinned(k, s, D)
  BY <1>3, <1>4, <1>5 DEF Places, Thinned
<1> QED BY <1>1, <1>2, <1>6 DEF D

-----------------------------------------------------------------------------
(***************************************************************************)
(* Types and the main thread's control state                               *)
(***************************************************************************)
\* TypeInv says what TypeOK says, and more
LEMMA TypeInvTypeOK == TypeInv => TypeOK
BY Zenon DEF TypeInv, TypeOK, QueueType, ResponseType, MainType, HttpType, Results

\* the initial state has the types
LEMMA TypeInit == Init => TypeInv
<1> SUFFICES ASSUME Init PROVE TypeInv
  OBVIOUS
<1>1. scene \in DOMAIN Scenarios /\ NSlots \in Nat \ {0} /\ NPredict \in Nat \ {0}
  BY RequestAssumption DEF Init
<1>2. QueueType
  BY NextResponseFacts DEF Init, QueueType
<1>3. ResponseType
  BY DEF Init, ResponseType
<1>4. MainType /\ MainInv
  BY <1>1 DEF Init, MainType, MainInv, Slots, Advancing, Releasing
<1>5. HttpType
  BY DEF Init, HttpType
<1> QED BY <1>1, <1>2, <1>3, <1>4, <1>5 DEF TypeInv

\* no step gives the queues or the task in hand another type
LEMMA QueueTypeStep ==
    ASSUME TypeInv, Next PROVE QueueType'
<1>0. /\ scene \in DOMAIN Scenarios /\ scene' = scene /\ Tasks' = Tasks
      /\ queue_tasks \in Seq(Tasks) /\ queue_tasks_deferred \in Seq(Tasks)
      /\ mtask \in Tasks /\ NextResponse \in Tasks
  BY IdsFixed, NextResponseFacts
     DEF Next, MainNext, HttpNext, Disconnect, Quiescent, vars, TypeInv, QueueType
<1> SUFFICES /\ queue_tasks' \in Seq(Tasks) /\ queue_tasks_deferred' \in Seq(Tasks)
             /\ mtask' \in Tasks
  BY <1>0 DEF QueueType
<1>1. ASSUME PopDeferredTask
      PROVE  queue_tasks' \in Seq(Tasks) /\ queue_tasks_deferred' \in Seq(Tasks)
  BY <1>0, <1>1, PopIds
<1>2. ASSUME NEW tasks \in Seq(Tasks), NEW front, Post(tasks, front)
      PROVE  queue_tasks' \in Seq(Tasks) /\ queue_tasks_deferred' \in Seq(Tasks)
  BY <1>0, <1>2, PostIds, Zenon
<1>3. ASSUME Defer(mtask)
      PROVE  queue_tasks' \in Seq(Tasks) /\ queue_tasks_deferred' \in Seq(Tasks)
  BY <1>0, <1>3 DEF Defer
<1>4. CASE MainPop
  BY <1>0, <1>4, TailIds DEF MainPop, TakeFront
<1>5. CASE MainDrained \/ MainWake \/ LaunchSlotWithTask \/ RejectTask
           \/ ProcessNextResponse \/ ProcessControl \/ SampleToken
           \/ HasNextToken \/ Stop \/ PromptEnds \/ DecodeFails \/ FailSlot
  BY <1>0, <1>5, Zenon DEF MainDrained, MainWake, LaunchSlotWithTask, RejectTask,
     ProcessNextResponse, ProcessControl, SampleToken, HasNextToken, Stop, PromptEnds,
     DecodeFails, FailSlot, queueVars, BackToLoop
<1>6. CASE DeferTask
  BY <1>0, <1>3, <1>6 DEF DeferTask, BackToLoop
<1>7. CASE ProcessSlotAction
  BY <1>0, <1>3, <1>7 DEF ProcessSlotAction, BackToLoop, queueVars
<1>8. CASE ProcessCancel
  BY <1>0, <1>1, <1>8 DEF ProcessCancel, BackToLoop, queueVars, Release
<1>9. CASE ReleaseSlot \/ ReleaseFailed
  BY <1>0, <1>1, <1>9, Zenon DEF ReleaseSlot, ReleaseFailed, Release
<1>10. CASE UpdateSlots
  <2>1. <<NextResponse>> \in Seq(Tasks)
    BY <1>0
  <2> QED BY <1>0, <1>2, <1>10, <2>1, Zenon DEF UpdateSlots, queueVars
<1>11. ASSUME NEW h \in Handlers, HttpPost(h)
       PROVE  queue_tasks' \in Seq(Tasks) /\ queue_tasks_deferred' \in Seq(Tasks) /\ mtask' \in Tasks
  BY <1>0, <1>2, <1>11, TasksOfFacts DEF HttpPost, mainVars
<1>12. ASSUME NEW h \in Handlers, HttpCancelPost(h)
       PROVE  queue_tasks' \in Seq(Tasks) /\ queue_tasks_deferred' \in Seq(Tasks) /\ mtask' \in Tasks
  BY <1>0, <1>2, <1>12, CancelsOfFacts, Zenon DEF HttpCancelPost, mainVars, CancelsOf
<1>13. ASSUME NEW h \in Handlers,
              HttpRefuse(h) \/ HttpRegister(h) \/ HttpStream(h) \/ HttpReceive(h)
              \/ HttpPoll(h) \/ HttpCancelRemove(h) \/ HttpFinish(h) \/ Disconnect(h)
       PROVE  queue_tasks' \in Seq(Tasks) /\ queue_tasks_deferred' \in Seq(Tasks) /\ mtask' \in Tasks
  BY <1>0, <1>13, Zenon
     DEF HttpRefuse, HttpRegister, HttpStream, HttpReceive, HttpPoll, HttpCancelRemove,
     HttpFinish, Disconnect, mainVars, queueVars
<1>14. CASE Quiescent
  BY <1>0, <1>14 DEF Quiescent, vars, queueVars, mainVars
<1> QED BY <1>4, <1>5, <1>6, <1>7, <1>8, <1>9, <1>10, <1>11, <1>12, <1>13, <1>14, ZenonT(30)
        DEF Next, MainNext, HttpNext

\* whoever sends a result sends it for a task of a request
LEMMA WhoSends ==
    ASSUME TypeInv
    PROVE  /\ mpc \in {"slots", "fail"} => /\ Min(batch) \in batch /\ Min(batch) \in Slots
                                           /\ slot_task[Min(batch)] \in AllIds
           /\ mpc = "stop?" \/ Releasing => /\ mslot \in batch /\ mslot \in Slots
                                            /\ slot_task[mslot] \in AllIds
           /\ mtask.type \in InferenceTypes \cup ControlTypes => mtask.id \in AllIds
           /\ \A s \in Busy : s \in Slots /\ slot_task[s] \in AllIds
<1>1. \A s \in Busy : s \in Slots /\ slot_task[s] \in AllIds
  BY Zenon DEF Busy, TypeInv, MainType
<1>2. ASSUME mpc \in {"slots", "fail"} PROVE Min(batch) \in batch /\ batch \subseteq Busy
  BY <1>2, MinSlot, Zenon DEF TypeInv, MainInv, MainType, Advancing
<1>3. ASSUME mpc = "stop?" \/ Releasing PROVE mslot \in batch /\ batch \subseteq Busy
  BY <1>3, Zenon DEF TypeInv, MainInv, Advancing
<1>4. mtask.type \in InferenceTypes \cup ControlTypes => mtask.id \in AllIds
  BY TaskFacts DEF TypeInv, QueueType
<1> QED BY <1>1, <1>2, <1>3, <1>4

\* no step gives the results or the waiting ids another type
LEMMA ResponseTypeStep ==
    ASSUME TypeInv, Next PROVE ResponseType'
<1>0. /\ scene \in DOMAIN Scenarios /\ scene' = scene
      /\ AllIds' = AllIds /\ Results' = Results
      /\ waiting_task_ids \subseteq AllIds /\ queue_results \in Seq(Results)
      /\ \A h \in Handlers : Ids(h) \subseteq AllIds
  BY IdsFixed, IdFacts
     DEF Next, MainNext, HttpNext, Disconnect, Quiescent, vars, TypeInv, ResponseType
<1> DEFINE Goal == waiting_task_ids' \subseteq AllIds /\ queue_results' \in Seq(Results)
<1> SUFFICES Goal
  BY <1>0 DEF ResponseType
<1>1. ASSUME NEW id \in AllIds, NEW kind \in {"partial", "final", "error"},
             Send(Result(id, kind))
      PROVE  Goal
  <2>1. Result(id, kind) \in Results
    BY DEF Result, Results
  <2> QED BY <1>0, <1>1, <2>1 DEF Send
<1>2. ASSUME UNCHANGED responseVars PROVE Goal
  BY <1>0, <1>2, Zenon DEF responseVars
<1>3. ASSUME NEW id, RemoveWaitingTaskId(id) PROVE Goal
  BY <1>0, <1>3, RemoveWaitingThins, Zenon DEF RemoveWaitingTaskId
<1>4. ASSUME NEW ids, Recv(ids) PROVE Goal
  BY <1>0, <1>4, RecvThins, Zenon DEF Recv
<1>5. ASSUME NEW ids \in SUBSET AllIds, AddWaiting(ids) \/ RemoveWaitingTaskIds(ids) PROVE Goal
  BY <1>0, <1>5 DEF AddWaiting, RemoveWaitingTaskIds
<1> HIDE DEF Goal
<1>6. CASE MainPop \/ MainDrained \/ MainWake \/ DeferTask \/ LaunchSlotWithTask
           \/ ProcessNextResponse \/ ProcessCancel \/ UpdateSlots \/ HasNextToken
           \/ ReleaseSlot \/ DecodeFails \/ ReleaseFailed
  BY <1>2, <1>6, Zenon DEF MainPop, MainDrained, MainWake, DeferTask, LaunchSlotWithTask,
     ProcessNextResponse, ProcessCancel, UpdateSlots, HasNextToken, ReleaseSlot,
     DecodeFails, ReleaseFailed
<1>7. CASE RejectTask \/ ProcessControl \/ ProcessSlotAction
  <2>1. mtask.id \in AllIds
    BY <1>7, WhoSends DEF RejectTask, ProcessControl, ProcessSlotAction, Processing,
       InferenceTypes, ControlTypes
  <2> QED BY <1>1, <1>2, <1>7, <2>1, ZenonT(30)
             DEF RejectTask, ProcessControl, ProcessSlotAction
<1>8. CASE SampleToken \/ PromptEnds
  <2>1. slot_task[Min(batch)] \in AllIds
    BY <1>8, WhoSends DEF SampleToken, PromptEnds
  <2> QED BY <1>1, <1>2, <1>8, <2>1, Zenon DEF SampleToken, PromptEnds
<1>9. CASE Stop
  <2>1. slot_task[mslot] \in AllIds
    BY <1>9, WhoSends DEF Stop
  <2> QED BY <1>1, <1>9, <2>1 DEF Stop
<1>10. CASE FailSlot
  <2>1. slot_task[Min(batch)] \in AllIds
    BY <1>10, WhoSends, Zenon DEF FailSlot
  <2> QED BY <1>1, <1>10, <2>1, Zenon DEF FailSlot
<1>11. ASSUME NEW h \in Handlers,
              HttpRegister(h) \/ HttpFinish(h)
       PROVE  Goal
  BY <1>0, <1>3, <1>5, <1>11, Zenon DEF HttpRegister, HttpFinish
<1>12. ASSUME NEW h \in Handlers, HttpReceive(h) \/ HttpCancelRemove(h) PROVE Goal
  BY <1>3, <1>4, <1>12, Zenon DEF HttpReceive, HttpCancelRemove
<1>13. ASSUME NEW h \in Handlers,
              HttpRefuse(h) \/ HttpPost(h) \/ HttpStream(h) \/ HttpPoll(h) \/ HttpCancelPost(h)
              \/ Disconnect(h)
       PROVE  Goal
  BY <1>2, <1>13, Zenon
     DEF HttpRefuse, HttpPost, HttpStream, HttpPoll, HttpCancelPost, Disconnect
<1>14. CASE Quiescent
  BY <1>2, <1>14 DEF Quiescent, vars
<1> QED BY <1>6, <1>7, <1>8, <1>9, <1>10, <1>11, <1>12, <1>13, <1>14, ZenonT(30)
        DEF Next, MainNext, HttpNext

\* no step gives the state of the HTTP threads another type
LEMMA HttpTypeStep ==
    ASSUME TypeInv, Next PROVE HttpType'
<1>0. /\ scene \in DOMAIN Scenarios /\ scene' = scene
      /\ AllIds' = AllIds /\ \A h \in Handlers : Ids(h)' = Ids(h)
      /\ \A h \in Handlers : Ids(h) \subseteq AllIds
  BY IdsFixed, IdFacts, Zenon
     DEF Next, MainNext, HttpNext, Disconnect, Quiescent, vars, TypeInv
<1>1. CASE UNCHANGED httpVars
  BY <1>0, <1>1 DEF httpVars, TypeInv, HttpType
<1>2. CASE MainNext \/ Quiescent
  <2>1. UNCHANGED httpVars
    BY <1>2, Zenon DEF MainNext, Quiescent, vars, MainPop, MainDrained, MainWake, DeferTask,
       LaunchSlotWithTask, RejectTask, ProcessNextResponse, ProcessControl,
       ProcessSlotAction, ProcessCancel, UpdateSlots, SampleToken, HasNextToken, Stop,
       PromptEnds, ReleaseSlot, DecodeFails, FailSlot, ReleaseFailed
  <2> QED BY <1>1, <2>1, Zenon
<1>3. ASSUME NEW h \in Handlers, HttpReceive(h) PROVE HttpType'
  <2>1. queue_results[Oldest(Ids(h))].id \in Ids(h)
    BY <1>3, OldestFacts, Zenon DEF HttpReceive, Recv, TypeInv, ResponseType
  <2> DEFINE id == queue_results[Oldest(Ids(h))].id
  <2>2. UNCHANGED closed
    BY <1>3, Zenon DEF HttpReceive
  <2>3. /\ got' = got \/ got' = [got EXCEPT ![h] = @ \cup {id}]
        /\ todo' = todo \/ todo' = [todo EXCEPT ![h] = Ids(h)]
        /\ \/ pc' = pc \/ pc' = [pc EXCEPT ![h] = "remove"]
           \/ pc' = [pc EXCEPT ![h] = "cancel"] \/ pc' = [pc EXCEPT ![h] = "recv"]
    BY <1>3 DEF HttpReceive, StartCancel, Goto
  <2>4. id \in Ids(h)
    BY <2>1
  <2> HIDE DEF id
  <2> QED BY <1>0, <2>2, <2>3, <2>4, SMTT(20) DEF TypeInv, HttpType
<1>4. ASSUME NEW h \in Handlers,
             HttpRefuse(h) \/ HttpRegister(h) \/ HttpPost(h) \/ HttpStream(h) \/ HttpPoll(h)
             \/ HttpCancelRemove(h) \/ HttpCancelPost(h) \/ HttpFinish(h)
      PROVE  HttpType'
  <2>1. /\ UNCHANGED <<closed, got>>
        /\ \/ todo' = todo \/ todo' = [todo EXCEPT ![h] = Ids(h)]
           \/ \E id : todo' = [todo EXCEPT ![h] = @ \ {id}]
        /\ \/ pc' = pc
           \/ \E l \in {"start", "post", "stream", "recv", "cancel", "remove", "done"} :
                 pc' = [pc EXCEPT ![h] = l]
    BY <1>4, Zenon
       DEF HttpRefuse, HttpRegister, HttpPost, HttpStream, HttpPoll, HttpCancelRemove,
       HttpCancelPost, HttpFinish, StartCancel, Goto
  <2> QED BY <1>0, <2>1, SMTT(20) DEF TypeInv, HttpType
<1>5. ASSUME NEW h \in Handlers, Disconnect(h) PROVE HttpType'
  BY <1>0, <1>5 DEF Disconnect, TypeInv, HttpType
<1> QED BY <1>2, <1>3, <1>4, <1>5, Zenon DEF Next, HttpNext

\* no step gives the main thread's state another type or leaves it with a slot
\* to advance that is not busy
LEMMA MainTypeStep ==
    ASSUME TypeInv, Next PROVE MainType' /\ MainInv'
<1>0. /\ scene \in DOMAIN Scenarios /\ scene' = scene /\ AllIds' = AllIds
      /\ NSlots \in Nat \ {0} /\ NPredict \in Nat \ {0}
      /\ Slots = 1 .. NSlots /\ NoId \notin AllIds
      /\ MainType /\ MainInv
  BY IdsFixed, IdFacts, Zenon
     DEF Next, MainNext, HttpNext, Disconnect, Quiescent, vars, TypeInv, Slots
<1>1. CASE UNCHANGED mainVars
  BY <1>0, <1>1, Zenon DEF mainVars, MainType, MainInv, Advancing, Releasing, Busy
<1>2. ASSUME mpc \notin {"stop?", "release"}
      PROVE  \A s \in Slots : n_decoded[s] \in 0 .. NPredict - 1
  <2> TAKE s \in Slots
  <2>1. n_decoded[s] # NPredict
    BY <1>0, <1>2 DEF MainInv
  <2>2. n_decoded[s] \in 0 .. NPredict
    BY <1>0, Zenon DEF MainType
  <2> QED BY <1>0, <2>1, <2>2
<1>3. CASE MainPop \/ MainDrained \/ MainWake \/ DeferTask \/ RejectTask
           \/ ProcessNextResponse \/ ProcessControl \/ ProcessSlotAction
  <2>1. /\ UNCHANGED <<mslot, batch, slot_task, n_decoded>>
        /\ mpc \in {"pop", "wait", "process"} /\ mpc' \in {"process", "update", "pop"}
    BY <1>3, Zenon DEF MainPop, MainDrained, MainWake, DeferTask, RejectTask,
       ProcessNextResponse, ProcessControl, ProcessSlotAction, Processing, BackToLoop
  <2> QED BY <1>0, <2>1, Zenon DEF MainType, MainInv, Advancing, Releasing
<1>4. CASE LaunchSlotWithTask
  <2>1. mtask.id \in AllIds
    BY <1>4, WhoSends DEF LaunchSlotWithTask, Processing
  <2>2. /\ UNCHANGED <<mslot, batch, n_decoded>> /\ mpc = "process" /\ mpc' = "pop"
        /\ \E s \in Slots : slot_task' = [slot_task EXCEPT ![s] = mtask.id]
    BY <1>4, Zenon DEF LaunchSlotWithTask, Processing, BackToLoop, Idle
  <2> QED BY <1>0, <2>1, <2>2, Zenon DEF MainType, MainInv, Advancing, Releasing
<1>5. CASE ProcessCancel
  <2>1. /\ UNCHANGED <<mslot, batch>> /\ mpc = "process" /\ mpc' = "pop"
        /\ \/ UNCHANGED <<slot_task, n_decoded>>
           \/ \E s : /\ slot_task' = [slot_task EXCEPT ![s] = NoId]
                     /\ n_decoded' = [n_decoded EXCEPT ![s] = 0]
    BY <1>5 DEF ProcessCancel, Processing, BackToLoop, Release
  <2>2. \A s \in Slots : n_decoded[s] \in 0 .. NPredict - 1
    BY <1>2, <2>1
  <2>3. slot_task' \in [Slots -> AllIds \cup {NoId}] /\ n_decoded' \in [Slots -> 0 .. NPredict]
    <3>1. 0 \in 0 .. NPredict
      BY <1>0
    <3>2. slot_task' \in [Slots -> AllIds \cup {NoId}]
      BY <1>0, <2>1 DEF MainType
    <3>3. n_decoded' \in [Slots -> 0 .. NPredict]
      BY <1>0, <2>1, <3>1, Zenon DEF MainType
    <3> QED BY <3>2, <3>3
  <2>4. \A s \in Slots : n_decoded'[s] # NPredict
    BY <1>0, <2>1, <2>2, SMTT(20) DEF MainType
  <2> QED BY <1>0, <2>1, <2>3, <2>4 DEF MainType, MainInv, Advancing, Releasing
<1>6. CASE UpdateSlots
  <2>1. /\ UNCHANGED <<mslot, slot_task, n_decoded>> /\ mpc = "update"
        /\ \/ mpc' = "wait" /\ batch' = batch
           \/ mpc' = "slots" /\ batch' \subseteq Batched /\ batch' # {}
    BY <1>6, Zenon DEF UpdateSlots
  <2>2. Batched \subseteq Busy /\ Busy' = Busy /\ Busy \subseteq Slots
    BY <2>1 DEF Batched, Busy
  <2>3. batch' \subseteq Busy' \/ batch' = batch
    BY <2>1, <2>2, Zenon
  <2> QED BY <1>0, <1>2, <2>1, <2>2, <2>3, Zenon DEF MainType, MainInv, Advancing, Releasing
<1>7. CASE SampleToken
  <2> DEFINE s == Min(batch)
  <2>1. /\ mpc = "slots" /\ mpc' = "stop?" /\ UNCHANGED <<batch, slot_task>>
        /\ n_decoded' = [n_decoded EXCEPT ![s] = @ + 1] /\ mslot' = s
    BY <1>7 DEF SampleToken
  <2>2. s \in batch /\ s \in Slots
    BY <2>1, WhoSends
  <2>3. Busy' = Busy /\ batch \subseteq Busy
    BY <1>0, <2>1 DEF Busy, MainInv, Advancing
  <2> HIDE DEF s
  <2>4. \A t \in Slots : n_decoded[t] \in 0 .. NPredict - 1
    BY <1>2, <2>1
  <2>5. /\ n_decoded' \in [Slots -> 0 .. NPredict]
        /\ \A t \in Slots : t # s => n_decoded'[t] # NPredict
    BY <1>0, <2>1, <2>2, <2>4, SMTT(20) DEF MainType
  <2> QED BY <1>0, <2>1, <2>2, <2>3, <2>5, Zenon DEF MainType, MainInv, Advancing, Releasing
<1>8. CASE HasNextToken
  <2>1. /\ mpc = "stop?" /\ UNCHANGED <<slot_task, n_decoded>> /\ mslot' = 1
        /\ batch' = batch \ {mslot} /\ mpc' = IF batch = {mslot} THEN "wait" ELSE "slots"
        /\ n_decoded[mslot] < NPredict
    BY <1>8 DEF HasNextToken, NextSlot
  <2>2. Busy' = Busy /\ batch \subseteq Busy /\ mslot \in batch
    BY <1>0, <2>1 DEF Busy, MainInv, Advancing
  <2>3. \A t \in Slots : n_decoded[t] # NPredict
    BY <1>0, <2>1 DEF MainInv, MainType
  <2>4. mpc' = "slots" => batch' # {}
    BY <2>1, <2>2
  <2> QED BY <1>0, <2>1, <2>2, <2>3, <2>4, SMTT(20) DEF MainType, MainInv, Advancing, Releasing
<1>9. CASE Stop
  <2>1. /\ mpc = "stop?" /\ mpc' = "release"
        /\ UNCHANGED <<slot_task, n_decoded, batch, mslot>>
    BY <1>9 DEF Stop
  <2>2. Busy' = Busy
    BY <2>1 DEF Busy
  <2> QED BY <1>0, <2>1, <2>2 DEF MainType, MainInv, Advancing, Releasing
<1>10. CASE PromptEnds \/ FailSlot
  <2>1. /\ mpc \in {"slots", "fail"} /\ mpc' \in {"release", "fail release"}
        /\ UNCHANGED <<slot_task, n_decoded, batch>> /\ mslot' = Min(batch)
    BY <1>10, Zenon DEF PromptEnds, FailSlot
  <2>2. Busy' = Busy /\ batch \subseteq Busy /\ Min(batch) \in batch
    BY <1>0, <2>1, WhoSends, Zenon DEF Busy, MainInv, Advancing
  <2> QED BY <1>0, <1>2, <2>1, <2>2, Zenon DEF MainType, MainInv, Advancing, Releasing
<1>11. CASE ReleaseSlot \/ ReleaseFailed
  <2>1. /\ mpc \in {"release", "fail release"} /\ mslot' = 1
        /\ slot_task' = [slot_task EXCEPT ![mslot] = NoId]
        /\ n_decoded' = [n_decoded EXCEPT ![mslot] = 0]
        /\ batch' = batch \ {mslot}
        /\ mpc' \in {"wait", "slots", "fail"} /\ (batch = {mslot} => mpc' = "wait")
    BY <1>11, Zenon DEF ReleaseSlot, ReleaseFailed, Release, NextSlot
  <2>2. batch \subseteq Busy /\ mslot \in batch
    BY <1>0, <2>1, Zenon DEF MainInv, Advancing, Releasing
  <2>3. batch' \subseteq Busy'
    BY <1>0, <2>1, <2>2, Zenon DEF Busy, MainType
  <2>4. slot_task' \in [Slots -> AllIds \cup {NoId}] /\ n_decoded' \in [Slots -> 0 .. NPredict]
    <3>1. 0 \in 0 .. NPredict
      BY <1>0
    <3>2. slot_task' \in [Slots -> AllIds \cup {NoId}]
      BY <1>0, <2>1, Zenon DEF MainType
    <3>3. n_decoded' \in [Slots -> 0 .. NPredict]
      BY <1>0, <2>1, <3>1, Zenon DEF MainType
    <3> QED BY <3>2, <3>3
  <2>5. \A t \in Slots : n_decoded'[t] # NPredict
    <3> TAKE t \in Slots
    <3>1. CASE t = mslot
      BY <1>0, <2>1, <3>1, Zenon DEF MainType
    <3>2. CASE t # mslot
      BY <1>0, <2>1, <3>2, Zenon DEF MainType, MainInv
    <3> QED BY <3>1, <3>2
  <2>6. mpc' \in {"slots", "fail"} => batch' # {}
    BY <2>1, <2>2, Zenon
  <2>7. MainType'
    <3>1. NSlots \in Nat \ {0} /\ Slots = 1 .. NSlots
      BY <1>0
    <3>2. 1 \in Slots
      BY <3>1
    <3>3. batch \subseteq Slots
      BY <1>0, Zenon DEF MainType
    <3>4. mslot' \in Slots /\ batch' \subseteq Slots
      BY <2>1, <3>2, <3>3, Zenon
    <3> QED BY <1>0, <2>1, <2>4, <3>4, Zenon DEF MainType
  <2> QED BY <2>1, <2>3, <2>5, <2>6, <2>7, Zenon DEF MainInv, Advancing, Releasing
<1>12. CASE DecodeFails
  <2>1. /\ mpc = "slots" /\ mpc' = "fail" /\ batch' = Busy
        /\ UNCHANGED <<slot_task, n_decoded, mslot>>
    BY <1>12 DEF DecodeFails
  <2>2. Busy' = Busy /\ batch # {} /\ batch \subseteq Busy /\ Busy \subseteq Slots
    BY <1>0, <2>1 DEF Busy, MainInv, Advancing
  <2> QED BY <1>0, <1>2, <2>1, <2>2, Zenon DEF MainType, MainInv, Advancing, Releasing
<1>13. ASSUME NEW h \in Handlers, HttpNext(h) \/ Disconnect(h) PROVE UNCHANGED mainVars
  BY <1>13, Zenon
     DEF HttpNext, HttpRefuse, HttpRegister, HttpPost, HttpStream, HttpReceive, HttpPoll,
     HttpCancelRemove, HttpCancelPost, HttpFinish, Disconnect
<1>14. CASE Quiescent
  BY <1>1, <1>14 DEF Quiescent, vars
<1> QED BY <1>1, <1>3, <1>4, <1>5, <1>6, <1>7, <1>8, <1>9, <1>10, <1>11, <1>12, <1>13, <1>14, Zenon
        DEF Next, MainNext

\* Every variable keeps its type and the main thread's control state fits the slots
THEOREM TypeInvariance == Spec => []TypeInv
<1>1. TypeInv /\ [Next]_vars => TypeInv'
  <2> SUFFICES ASSUME TypeInv, [Next]_vars PROVE TypeInv'
    OBVIOUS
  <2>1. CASE Next
    <3>1. (scene \in DOMAIN Scenarios)'
      BY <2>1, Zenon DEF Next, MainNext, HttpNext, Disconnect, Quiescent, vars, TypeInv
    <3> QED BY <2>1, <3>1, QueueTypeStep, ResponseTypeStep, MainTypeStep, HttpTypeStep, Zenon
            DEF TypeInv
  <2>2. CASE UNCHANGED vars
    BY <2>2, IdsFixed, ZenonT(30)
       DEF vars, queueVars, responseVars, mainVars, httpVars, TypeInv, QueueType,
       ResponseType, MainType, MainInv, HttpType, Advancing, Releasing, Busy
  <2> QED BY <2>1, <2>2
<1> QED BY TypeInit, <1>1, PTL DEF Spec

-----------------------------------------------------------------------------
(***************************************************************************)
(* A task is in one place                                                  *)
(***************************************************************************)
\* no thread goes back to before its post
LEMMA PcForward ==
    ASSUME TypeInv, Next, NEW h \in Handlers
    PROVE  /\ pc'[h] = "start" => pc[h] = "start"
           /\ pc'[h] = "post" => pc[h] \in {"start", "post"}
           /\ HttpPost(h) => pc[h] = "post" /\ pc'[h] \in {"stream", "recv"}
<1>0. pc \in [Handlers -> {"start", "post", "stream", "recv", "cancel", "remove", "done"}]
  BY DEF TypeInv, HttpType
<1>1. HttpPost(h) => pc[h] = "post" /\ pc'[h] \in {"stream", "recv"}
  BY <1>0 DEF HttpPost, Goto
<1>2. CASE MainNext \/ Quiescent \/ \E g \in Handlers : Disconnect(g)
  <2>1. UNCHANGED pc
    BY <1>2, Zenon DEF MainNext, Quiescent, vars, MainPop, MainDrained, MainWake, DeferTask,
       LaunchSlotWithTask, RejectTask, ProcessNextResponse, ProcessControl,
       ProcessSlotAction, ProcessCancel, UpdateSlots, SampleToken, HasNextToken, Stop,
       PromptEnds, ReleaseSlot, DecodeFails, FailSlot, ReleaseFailed, httpVars, Disconnect
  <2> QED BY <1>1, <2>1, Zenon
<1>3. ASSUME NEW g \in Handlers, HttpNext(g)
      PROVE  /\ pc'[h] = "start" => pc[h] = "start"
             /\ pc'[h] = "post" => pc[h] \in {"start", "post"}
  <2>1. \/ pc[g] = "start" /\ pc' = [pc EXCEPT ![g] = "post"]
        \/ UNCHANGED pc
        \/ \E l \in {"stream", "recv", "cancel", "remove", "done"} : pc' = [pc EXCEPT ![g] = l]
    BY <1>3, Zenon
       DEF HttpNext, HttpRefuse, HttpRegister, HttpPost, HttpStream, HttpReceive, HttpPoll,
       HttpCancelRemove, HttpCancelPost, HttpFinish, StartCancel, Goto
  <2> QED BY <1>0, <2>1, Zenon
<1> QED BY <1>1, <1>2, <1>3 DEF Next

\* one step keeps a task in at most one place, and only its own post places it
LEMMA HomeStep ==
    ASSUME TypeInv, Next, NEW id \in AllIds, Single(id),
           \A h \in Handlers : HttpPost(h) /\ id \in Ids(h) => NoHome(id)
    PROVE  /\ Single(id)'
           /\ NoHome(id) => \/ NoHome(id)'
                            \/ \E h \in Handlers : HttpPost(h) /\ id \in Ids(h)
<1> DEFINE q == queue_tasks
<1> DEFINE d == queue_tasks_deferred
<1> DEFINE Goal == Single(id)' /\ (NoHome(id) => NoHome(id)')
<1>0. /\ scene \in DOMAIN Scenarios /\ id # NoId
      /\ q \in Seq(Tasks) /\ d \in Seq(Tasks) /\ mtask \in Tasks
      /\ slot_task \in [Slots -> AllIds \cup {NoId}]
  BY IdFacts, Zenon DEF TypeInv, QueueType, MainType
<1> DEFINE SameQueues == UNCHANGED <<queue_tasks, queue_tasks_deferred>>
<1> DEFINE SameHands == InHands(id)' <=> InHands(id)
<1> DEFINE SameSlots == UNCHANGED slot_task
<1> DEFINE FreeHands == mpc = "process" /\ mpc' # "process"
\* nothing moves
<1>1. ASSUME SameQueues, SameHands, SameSlots PROVE Goal
  BY <1>1, Zenon DEF Single, NoHome, InSlot
\* the task in hand is dropped
<1>2. ASSUME SameQueues, FreeHands, SameSlots PROVE Goal
  BY <1>2, Zenon DEF Single, NoHome, InSlot, InHands
\* the task in hand is deferred
<1>3. ASSUME Defer(mtask), FreeHands, SameSlots PROVE Goal
  <2>1. q' = q /\ d' = d \o <<mtask>>
    BY <1>0, <1>3, AppendIsConcat DEF Defer
  <2>2. <<mtask>> \in Seq(Tasks) /\ (Held(<<mtask>>, id) <=> mtask.id = id) /\ Once(<<mtask>>, id)
    BY <1>0, OneIds
  <2>3. /\ Held(d', id) <=> Held(d, id) \/ mtask.id = id
        /\ Once(d, id) /\ ~(Held(d, id) /\ mtask.id = id) => Once(d', id)
    BY <1>0, <2>1, <2>2, ConcatIds, Zenon
  <2> QED BY <1>3, <2>1, <2>3, Zenon DEF Single, NoHome, InSlot, InHands
\* a slot is released
<1>4. ASSUME NEW s, Release(s), SameHands \/ FreeHands PROVE Goal
  <2>1. /\ (Held(q', id) \/ Held(d', id)) <=> (Held(q, id) \/ Held(d, id))
        /\ Once(q, id) /\ Once(d, id) /\ ~(Held(q, id) /\ Held(d, id))
            => Once(q', id) /\ Once(d', id) /\ ~(Held(q', id) /\ Held(d', id))
    BY <1>0, <1>4, PopIds DEF Release
  <2>2. \A t \in Slots : slot_task'[t] = id => slot_task[t] = id
    BY <1>0, <1>4, Zenon DEF Release
  <2>3. InHands(id)' => InHands(id)
    BY <1>4, Zenon DEF InHands
  <2> QED BY <2>1, <2>2, <2>3, Zenon DEF Single, NoHome, InSlot
<1>5. CASE MainPop
  <2>1. /\ q # <<>> /\ q' = Tail(q) /\ d' = d /\ slot_task' = slot_task
        /\ mpc = "pop" /\ mpc' = "process" /\ mtask' = Head(q)
    BY <1>5, ZenonT(30) DEF MainPop, TakeFront
  <2>2. /\ Held(q, id) <=> Head(q).id = id \/ Held(q', id)
        /\ Once(q, id) => Once(q', id) /\ ~(Head(q).id = id /\ Held(q', id))
    BY <1>0, <2>1, TailIds, Zenon
  <2>3. (InHands(id)' <=> Head(q).id = id) /\ ~InHands(id)
    BY <2>1 DEF InHands
  <2> QED BY <2>1, <2>2, <2>3, Zenon DEF Single, NoHome, InSlot
<1>6. CASE MainDrained \/ MainWake \/ SampleToken \/ HasNextToken \/ Stop \/ PromptEnds
           \/ DecodeFails \/ FailSlot
  <2>1. UNCHANGED <<queue_tasks, queue_tasks_deferred, slot_task>>
        /\ mpc # "process" /\ mpc' # "process"
    BY <1>6, Zenon DEF MainDrained, MainWake, SampleToken, HasNextToken, Stop, PromptEnds,
       DecodeFails, FailSlot, queueVars, NextSlot
  <2>2. SameHands
    BY <2>1, Zenon DEF InHands
  <2> QED BY <1>1, <2>1, <2>2, Zenon
<1>7. CASE DeferTask
  BY <1>3, <1>7, Zenon DEF DeferTask, Processing, BackToLoop
<1>8. CASE LaunchSlotWithTask
  <2>1. PICK s \in Idle : slot_task' = [slot_task EXCEPT ![s] = mtask.id]
    BY <1>8, Zenon DEF LaunchSlotWithTask
  <2>2. s \in Slots /\ slot_task[s] = NoId
    BY <2>1 DEF Idle, Busy
  <2>3. \A t \in Slots : slot_task'[t] = IF t = s THEN mtask.id ELSE slot_task[t]
    BY <1>0, <2>1, <2>2
  <2>4. SameQueues /\ FreeHands
    BY <1>8 DEF LaunchSlotWithTask, queueVars, Processing, BackToLoop
  <2>5. ~InHands(id)' /\ (InHands(id) <=> mtask.id = id)
    BY <2>4, Zenon DEF InHands
  <2>6. InSlot(id)' => InSlot(id) \/ mtask.id = id
    BY <2>3 DEF InSlot
  <2>7. ASSUME NEW t \in Slots, NEW u \in Slots, slot_task'[t] = id, slot_task'[u] = id
        PROVE  t = u
    <3>1. CASE mtask.id = id
      <4>1. ~InSlot(id)
        BY <2>5, <3>1, Zenon DEF Single
      <4> QED BY <2>3, <2>7, <4>1, Zenon DEF InSlot
    <3>2. CASE mtask.id # id
      BY <2>3, <2>7, <3>2 DEF Single
    <3> QED BY <3>1, <3>2, Zenon
  <2> QED BY <2>4, <2>5, <2>6, <2>7, Zenon DEF Single, NoHome
<1>9. CASE RejectTask \/ ProcessNextResponse \/ ProcessControl
  <2>1. SameQueues /\ FreeHands /\ SameSlots
    BY <1>9
       DEF RejectTask, ProcessNextResponse, ProcessControl, queueVars, Processing, BackToLoop
  <2> QED BY <1>2, <2>1, Zenon
<1>10. CASE ProcessSlotAction
  <2>1. FreeHands /\ SameSlots /\ (SameQueues \/ Defer(mtask))
    BY <1>10, Zenon DEF ProcessSlotAction, queueVars, Processing, BackToLoop
  <2> QED BY <1>2, <1>3, <2>1, Zenon
<1>11. CASE ProcessCancel
  <2>1. FreeHands
    BY <1>11, ZenonT(30) DEF ProcessCancel, Processing, BackToLoop
  <2>2. (SameQueues /\ SameSlots) \/ \E s : Release(s)
    BY <1>11 DEF ProcessCancel, queueVars
  <2> QED BY <1>2, <1>4, <2>1, <2>2, Zenon
<1>12. CASE ReleaseSlot \/ ReleaseFailed
  <2>1. Release(mslot) /\ mpc # "process" /\ mpc' # "process"
    BY <1>12, Zenon DEF ReleaseSlot, ReleaseFailed, NextSlot
  <2>2. SameHands
    BY <2>1 DEF InHands
  <2> QED BY <1>4, <2>1, <2>2
<1>13. CASE UpdateSlots
  <2>1. mpc # "process" /\ mpc' # "process" /\ slot_task' = slot_task
    BY <1>13, Zenon DEF UpdateSlots
  <2>2. SameHands
    BY <2>1 DEF InHands
  <2>3. CASE SameQueues
    BY <1>1, <2>1, <2>2, <2>3, Zenon
  <2>4. CASE Post(<<NextResponse>>, FALSE)
    <3>1. /\ <<NextResponse>> \in Seq(Tasks) /\ ~Held(<<NextResponse>>, id)
          /\ Once(<<NextResponse>>, id) /\ Range(<<NextResponse>>) = {NextResponse}
      BY <1>0, OneIds, NextResponseFacts, Zenon
    <3>2. {} = {t.target : t \in Range(<<NextResponse>>)} \ {NoId}
      BY <3>1, NextResponseFacts, Zenon
    <3>3. /\ Held(q', id) <=> Held(q, id)
          /\ Held(d', id) <=> Held(d, id)
          /\ Once(q, id) => Once(q', id)
          /\ Once(d, id) => Once(d', id)
      BY <1>0, <2>4, <3>1, <3>2, PostIds, Zenon
    <3> QED BY <2>1, <2>2, <3>3, Zenon DEF Single, NoHome, InSlot
  <2> QED BY <1>13, <2>3, <2>4, Zenon DEF UpdateSlots, queueVars
<1>14. ASSUME NEW h \in Handlers, HttpPost(h)
       PROVE  Single(id)' /\ (NoHome(id) /\ id \notin Ids(h) => NoHome(id)')
  <2>1. UNCHANGED <<mpc, mtask, slot_task>> /\ \E front : Post(TasksOf(h), front)
    BY <1>14, Zenon DEF HttpPost, mainVars
  <2>2. /\ TasksOf(h) \in Seq(Tasks) /\ (Held(TasksOf(h), id) <=> id \in Ids(h))
        /\ Once(TasksOf(h), id) /\ \A t \in Range(TasksOf(h)) : t.target = NoId
    BY <1>0, TasksOfFacts, Zenon
  <2>3. {} = {t.target : t \in Range(TasksOf(h))} \ {NoId}
    BY <2>2, Zenon
  <2>4. /\ Held(q', id) <=> Held(q, id) \/ id \in Ids(h)
        /\ Held(d', id) <=> Held(d, id)
        /\ Once(q, id) /\ ~(Held(q, id) /\ id \in Ids(h)) => Once(q', id)
        /\ Once(d, id) => Once(d', id)
    BY <1>0, <2>1, <2>2, <2>3, PostIds, Zenon
  <2>5. id \in Ids(h) => NoHome(id)
    BY <1>14, Zenon
  <2> QED BY <2>1, <2>4, <2>5, Zenon DEF Single, NoHome, InSlot, InHands
<1>15. ASSUME NEW h \in Handlers, HttpCancelPost(h) PROVE Goal
  <2>1. UNCHANGED <<mpc, mtask, slot_task>> /\ Post(CancelsOf(h), TRUE)
    BY <1>15, Zenon DEF HttpCancelPost, mainVars, CancelsOf
  <2>2. /\ CancelsOf(h) \in Seq(Tasks) /\ ~Held(CancelsOf(h), id)
        /\ {t.target : t \in Range(CancelsOf(h))} \ {NoId} = Ids(h)
    BY <1>0, CancelsOfFacts, Zenon
  <2>3. Once(CancelsOf(h), id)
    BY <2>2, Zenon DEF Held, Once
  <2>4. /\ Held(q', id) => Held(q, id)
        /\ Held(d', id) => Held(d, id)
        /\ Once(q, id) => Once(q', id)
        /\ Once(d, id) => Once(d', id)
    BY <1>0, <2>1, <2>2, <2>3, PostIds, Zenon
  <2> QED BY <2>1, <2>4, Zenon DEF Single, NoHome, InSlot, InHands
<1>16. ASSUME NEW h \in Handlers,
              HttpRefuse(h) \/ HttpRegister(h) \/ HttpStream(h) \/ HttpReceive(h)
              \/ HttpPoll(h) \/ HttpCancelRemove(h) \/ HttpFinish(h) \/ Disconnect(h)
       PROVE  Goal
  <2>1. UNCHANGED <<queue_tasks, queue_tasks_deferred, slot_task, mpc, mtask>>
    BY <1>16, Zenon
       DEF HttpRefuse, HttpRegister, HttpStream, HttpReceive, HttpPoll, HttpCancelRemove,
       HttpFinish, Disconnect, mainVars, queueVars
  <2>2. SameHands
    BY <2>1 DEF InHands
  <2> QED BY <1>1, <2>1, <2>2, Zenon
<1>17. CASE Quiescent
  <2>1. UNCHANGED <<queue_tasks, queue_tasks_deferred, slot_task, mpc, mtask>>
    BY <1>17 DEF Quiescent, vars, mainVars, queueVars
  <2>2. SameHands
    BY <2>1 DEF InHands
  <2> QED BY <1>1, <2>1, <2>2
<1> HIDE DEF SameQueues, SameHands, SameSlots, FreeHands
<1> QED BY <1>5, <1>6, <1>7, <1>8, <1>9, <1>10, <1>11, <1>12, <1>13, <1>14, <1>15, <1>16, <1>17, Zenon
        DEF Next, MainNext, HttpNext

\* the initial state has no task anywhere
LEMMA HomeInit == ASSUME Init PROVE HomeInv
<1>1. scene \in DOMAIN Scenarios
  BY DEF Init
<1>2. NoId \notin AllIds /\ \A h \in Handlers : Ids(h) \subseteq AllIds
  BY <1>1, IdFacts
<1>3. queue_tasks = <<>> /\ queue_tasks_deferred = <<>> /\ mpc # "process"
      /\ \A s \in Slots : slot_task[s] = NoId
  BY DEF Init
<1>4. \A id : ~Held(<<>>, id) /\ Once(<<>>, id)
  <2>1. DOMAIN <<>> = {}
    OBVIOUS
  <2> QED BY <2>1, Zenon DEF Held, Once
<1>5. ASSUME NEW id \in AllIds PROVE Single(id) /\ NoHome(id)
  <2>1. ~InHands(id) /\ ~InSlot(id)
    BY <1>2, <1>3 DEF InHands, InSlot
  <2> QED BY <1>2, <1>3, <1>4, <2>1 DEF Single, NoHome
<1> QED BY <1>2, <1>5 DEF HomeInv

\* A task is in at most one of queue, deferred queue, main thread and slots
THEOREM HomeInvariance == Spec => []HomeInv
<1>1. ASSUME TypeInv, HomeInv, Next PROVE HomeInv'
  <2>0. /\ scene \in DOMAIN Scenarios /\ scene' = scene
        /\ AllIds' = AllIds /\ \A h \in Handlers : Ids(h)' = Ids(h) /\ Ids(h) \subseteq AllIds
        /\ \A h, g \in Handlers : \A id \in Ids(h) : id \in Ids(g) => g = h
    BY <1>1, IdsFixed, IdFacts, Zenon
       DEF Next, MainNext, HttpNext, Disconnect, Quiescent, vars, TypeInv
  <2>1. ASSUME NEW id \in AllIds, NEW h \in Handlers, HttpPost(h), id \in Ids(h)
        PROVE  NoHome(id)
    BY <1>1, <2>1, PcForward DEF HomeInv
  <2>2. ASSUME NEW id \in AllIds
        PROVE  /\ Single(id)'
               /\ NoHome(id) => \/ NoHome(id)'
                                \/ \E h \in Handlers : HttpPost(h) /\ id \in Ids(h)
    BY <1>1, <2>1, HomeStep DEF HomeInv
  <2>3. ASSUME NEW h \in Handlers, pc'[h] \in {"start", "post"}, NEW id \in Ids(h)
        PROVE  NoHome(id)'
    <3>1. pc[h] \in {"start", "post"} /\ ~HttpPost(h)
      BY <1>1, <2>3, PcForward
    <3>2. NoHome(id) /\ id \in AllIds
      BY <1>1, <2>0, <3>1 DEF HomeInv
    <3>3. \A g \in Handlers : id \in Ids(g) => g = h
      BY <2>0
    <3> QED BY <2>2, <3>1, <3>2, <3>3
  <2> QED BY <2>0, <2>2, <2>3, SMTT(20) DEF HomeInv
<1>2. HomeInv /\ TypeInv /\ [Next]_vars => HomeInv'
  <2>1. ASSUME HomeInv, UNCHANGED vars PROVE HomeInv'
    <3>1. AllIds' = AllIds /\ \A h \in Handlers : Ids(h)' = Ids(h)
      BY <2>1, IdsFixed, ZenonT(30) DEF vars
    <3> QED BY <2>1, <3>1 DEF vars, queueVars, mainVars, httpVars, HomeInv, Single, NoHome,
               InHands, InSlot
  <2> QED BY <1>1, <2>1, Zenon
<1> QED BY HomeInit, TypeInvariance, <1>2, PTL DEF Spec

-----------------------------------------------------------------------------
(***************************************************************************)
(* Cancellations                                                           *)
(***************************************************************************)
\* a thread that has stopped reading never reads again
LEMMA PcEnds ==
    ASSUME TypeInv, Next, NEW h \in Handlers
    PROVE  /\ pc[h] \in {"remove", "done"} => pc'[h] \in {"remove", "done"}
           /\ pc'[h] \in {"stream", "recv"} => pc[h] \in {"post", "stream", "recv"}
           /\ pc'[h] \in {"stream", "recv"} /\ pc[h] = "post" => HttpPost(h)
<1>0. pc \in [Handlers -> {"start", "post", "stream", "recv", "cancel", "remove", "done"}]
  BY DEF TypeInv, HttpType
<1>1. CASE UNCHANGED pc
  BY <1>1
<1>2. CASE MainNext \/ Quiescent \/ \E g \in Handlers : Disconnect(g)
  <2>1. UNCHANGED pc
    BY <1>2, Zenon DEF MainNext, Quiescent, vars, MainPop, MainDrained, MainWake, DeferTask,
       LaunchSlotWithTask, RejectTask, ProcessNextResponse, ProcessControl,
       ProcessSlotAction, ProcessCancel, UpdateSlots, SampleToken, HasNextToken, Stop,
       PromptEnds, ReleaseSlot, DecodeFails, FailSlot, ReleaseFailed, httpVars, Disconnect
  <2> QED BY <1>1, <2>1, ZenonT(30)
<1>3. ASSUME NEW g \in Handlers, HttpNext(g), ~HttpPost(g) PROVE
        /\ pc[h] \in {"remove", "done"} => pc'[h] \in {"remove", "done"}
        /\ pc'[h] \in {"stream", "recv"} => pc[h] \in {"stream", "recv"}
  <2>1. \/ UNCHANGED pc
        \/ pc[g] = "start" /\ \E l \in {"post", "done"} : pc' = [pc EXCEPT ![g] = l]
        \/ /\ pc[g] \in {"stream", "recv"}
           /\ \E l \in {"recv", "cancel", "remove"} : pc' = [pc EXCEPT ![g] = l]
        \/ pc[g] = "cancel" /\ pc' = [pc EXCEPT ![g] = "remove"]
        \/ pc[g] = "remove" /\ pc' = [pc EXCEPT ![g] = "done"]
    BY <1>3, Zenon DEF HttpNext, HttpRefuse, HttpRegister, HttpStream, HttpReceive, HttpPoll,
       HttpCancelRemove, HttpCancelPost, HttpFinish, StartCancel, Goto
  <2> QED BY <1>0, <2>1, Zenon
<1>4. ASSUME NEW g \in Handlers, HttpPost(g) PROVE
        /\ pc[h] \in {"remove", "done"} => pc'[h] \in {"remove", "done"}
        /\ pc'[h] \in {"stream", "recv"} => pc[h] \in {"post", "stream", "recv"}
        /\ pc'[h] \in {"stream", "recv"} /\ pc[h] = "post" => HttpPost(h)
  <2>1. pc[g] = "post" /\ (g # h => pc'[h] = pc[h])
    BY <1>0, <1>4, Zenon DEF HttpPost, Goto
  <2> QED BY <1>4, <2>1, Zenon
<1> QED BY <1>2, <1>3, <1>4 DEF Next

\* the tasks of a step come from the step before, or are posted, or are NEXT_RESPONSE
LEMMA TasksStep ==
    ASSUME TypeInv, Next, NEW t \in Range(queue_tasks') \cup Range(queue_tasks_deferred') \cup {mtask'}
    PROVE  \/ t \in Range(queue_tasks) \cup Range(queue_tasks_deferred) \cup {mtask, NextResponse}
           \/ \E h \in Handlers : HttpPost(h) /\ t \in Range(TasksOf(h))
           \/ \E h \in Handlers : HttpCancelPost(h) /\ t \in Range(CancelsOf(h))
<1> DEFINE q == queue_tasks
<1> DEFINE d == queue_tasks_deferred
<1> DEFINE Old == Range(q) \cup Range(d) \cup {mtask, NextResponse}
<1>0. /\ scene \in DOMAIN Scenarios /\ q \in Seq(Tasks) /\ d \in Seq(Tasks)
      /\ mtask \in Tasks /\ NextResponse \in Tasks
  BY NextResponseFacts DEF TypeInv, QueueType
<1>1. ASSUME UNCHANGED <<queue_tasks, queue_tasks_deferred>>, mtask' \in {mtask, NextResponse}
      PROVE  t \in Old
  BY <1>1
<1>2. ASSUME PopDeferredTask, mtask' \in {mtask, NextResponse} PROVE t \in Old
  BY <1>0, <1>2, PopIds, Zenon
<1>3. ASSUME NEW tasks \in Seq(Tasks), NEW front, Post(tasks, front), mtask' = mtask
      PROVE  t \in Old \cup Range(tasks)
  BY <1>0, <1>3, PostIds, Zenon
<1>4. ASSUME Defer(mtask), mtask' = NextResponse PROVE t \in Old
  <2>1. q' = q /\ d' = d \o <<mtask>>
    BY <1>0, <1>4, AppendIsConcat DEF Defer
  <2>2. <<mtask>> \in Seq(Tasks) /\ Range(<<mtask>>) = {mtask}
    BY <1>0, OneIds
  <2>3. Range(d') = Range(d) \cup {mtask}
    BY <1>0, <2>1, <2>2, ConcatIds, Zenon
  <2> QED BY <1>4, <2>1, <2>3
<1>5. CASE MainPop
  <2>1. q # <<>> /\ q' = Tail(q) /\ d' = d /\ mtask' = Head(q)
    BY <1>5 DEF MainPop, TakeFront
  <2>2. Range(q') \subseteq Range(q) /\ mtask' \in Range(q)
    BY <1>0, <2>1, TailIds, Zenon
  <2> QED BY <2>1, <2>2
<1>6. CASE DeferTask
  BY <1>4, <1>6 DEF DeferTask, BackToLoop
<1>7. CASE ProcessSlotAction
  BY <1>1, <1>4, <1>7, Zenon DEF ProcessSlotAction, queueVars, BackToLoop
<1>8. CASE ProcessCancel \/ ReleaseSlot \/ ReleaseFailed
  BY <1>1, <1>2, <1>8, Zenon
     DEF ProcessCancel, ReleaseSlot, ReleaseFailed, Release, queueVars, BackToLoop
<1>9. CASE UpdateSlots
  <2>1. <<NextResponse>> \in Seq(Tasks) /\ Range(<<NextResponse>>) = {NextResponse}
    BY <1>0, OneIds
  <2> QED BY <1>1, <1>3, <1>9, <2>1, Zenon DEF UpdateSlots, queueVars
<1>10. ASSUME NEW h \in Handlers, HttpPost(h) PROVE t \in Old \cup Range(TasksOf(h))
  <2>1. TasksOf(h) \in Seq(Tasks)
    BY <1>0, TasksOfFacts, Zenon
  <2> QED BY <1>3, <1>10, <2>1, Zenon DEF HttpPost, mainVars
<1>11. ASSUME NEW h \in Handlers, HttpCancelPost(h) PROVE t \in Old \cup Range(CancelsOf(h))
  <2>1. CancelsOf(h) \in Seq(Tasks)
    BY <1>0, CancelsOfFacts, Zenon
  <2> QED BY <1>3, <1>11, <2>1, Zenon DEF HttpCancelPost, mainVars, CancelsOf
<1>12. CASE MainDrained \/ MainWake \/ LaunchSlotWithTask \/ RejectTask
            \/ ProcessNextResponse \/ ProcessControl \/ SampleToken
            \/ HasNextToken \/ Stop \/ PromptEnds \/ DecodeFails \/ FailSlot
  BY <1>1, <1>12, Zenon DEF MainDrained, MainWake, LaunchSlotWithTask, RejectTask,
     ProcessNextResponse, ProcessControl, SampleToken, HasNextToken, Stop, PromptEnds,
     DecodeFails, FailSlot, queueVars, BackToLoop
<1>13. ASSUME NEW h \in Handlers,
              HttpRefuse(h) \/ HttpRegister(h) \/ HttpStream(h) \/ HttpReceive(h)
              \/ HttpPoll(h) \/ HttpCancelRemove(h) \/ HttpFinish(h) \/ Disconnect(h)
       PROVE  t \in Old
  BY <1>1, <1>13, Zenon
     DEF HttpRefuse, HttpRegister, HttpStream, HttpReceive, HttpPoll, HttpCancelRemove,
     HttpFinish, Disconnect, mainVars, queueVars
<1>14. CASE Quiescent
  BY <1>1, <1>14, Zenon DEF Quiescent, vars, mainVars, queueVars
<1> HIDE DEF Old
<1> QED BY <1>5, <1>6, <1>7, <1>8, <1>9, <1>10, <1>11, <1>12, <1>13, <1>14, Zenon
        DEF Next, MainNext, HttpNext, Old

\* A task is cancelled only after its client has stopped reading
THEOREM CancelInvariance == Spec => []CancelInv
<1>1. ASSUME Init PROVE CancelInv
  <2>1. scene \in DOMAIN Scenarios
    BY <1>1 DEF Init
  <2>2. \A h \in Handlers : NoId \notin Ids(h)
    BY <2>1, IdFacts
  <2>3. Range(queue_tasks) = {} /\ Range(queue_tasks_deferred) = {} /\ mtask = NextResponse
    BY <1>1 DEF Init, Range
  <2> QED BY <2>2, <2>3, NextResponseFacts DEF CancelInv
<1>2. ASSUME TypeInv, CancelInv, Next PROVE CancelInv'
  <2>0. /\ scene \in DOMAIN Scenarios /\ scene' = scene
        /\ \A h \in Handlers : Ids(h)' = Ids(h) /\ NoId \notin Ids(h)
        /\ \A h, g \in Handlers : \A id \in Ids(h) : id \in Ids(g) => g = h
    BY <1>2, IdsFixed, IdFacts, Zenon
       DEF Next, MainNext, HttpNext, Disconnect, Quiescent, vars, TypeInv
  <2> SUFFICES ASSUME NEW h \in Handlers,
                      NEW t \in Range(queue_tasks') \cup Range(queue_tasks_deferred') \cup {mtask'},
                      t.target \in Ids(h)
               PROVE  pc'[h] \in {"remove", "done"}
    BY <2>0, Zenon DEF CancelInv
  <2>1. CASE t \in Range(queue_tasks) \cup Range(queue_tasks_deferred) \cup {mtask}
    <3>1. pc[h] \in {"remove", "done"}
      BY <1>2, <2>1, Zenon DEF CancelInv
    <3> QED BY <1>2, <3>1, PcEnds, Zenon
  <2>2. t # NextResponse
    BY <2>0, NextResponseFacts
  <2>3. ASSUME NEW g \in Handlers, t \in Range(TasksOf(g)) PROVE FALSE
    <3>1. scene \in DOMAIN Scenarios /\ NoId \notin Ids(h)
      BY <2>0, Zenon
    <3>2. t.target = NoId
      BY <2>3, <3>1, TasksOfFacts, Zenon
    <3> QED BY <3>1, <3>2
  <2>4. ASSUME NEW g \in Handlers, HttpCancelPost(g), t \in Range(CancelsOf(g))
        PROVE  pc'[h] \in {"remove", "done"}
    <3>1. t.target \in Ids(g)
      BY <2>0, <2>4, CancelsOfFacts, Zenon
    <3>2. g = h
      BY <2>0, <3>1, Zenon
    <3> QED BY <1>2, <2>4, <3>2, Zenon DEF HttpCancelPost, Goto, TypeInv, HttpType
  <2> QED BY <1>2, <2>1, <2>2, <2>3, <2>4, TasksStep, Zenon
<1>3. CancelInv /\ TypeInv /\ [Next]_vars => CancelInv'
  <2>1. ASSUME CancelInv, UNCHANGED vars PROVE CancelInv'
    <3>1. \A h \in Handlers : Ids(h)' = Ids(h)
      BY <2>1, IdsFixed, Zenon DEF vars
    <3> QED BY <2>1, <3>1 DEF vars, queueVars, mainVars, httpVars, CancelInv
  <2> QED BY <1>2, <2>1
<1> QED BY <1>1, TypeInvariance, <1>3, PTL DEF Spec

-----------------------------------------------------------------------------
(***************************************************************************)
(* Which tasks are live, and who sends results                             *)
(***************************************************************************)
\* a task is given life by its post only, and loses it with its last result or
\* after its client has stopped reading
LEMMA LiveStep ==
    ASSUME TypeInv, HomeInv, CancelInv, Next, NEW id \in AllIds
    PROVE  /\ Live(id)' => Live(id) \/ \E h \in Handlers : HttpPost(h) /\ id \in Ids(h)
           /\ Live(id) => \/ Live(id)'
                          \/ \E kind \in {"final", "error"} : Send(Result(id, kind))
                          \/ \E h \in Handlers : /\ id \in Ids(h)
                                                 /\ pc[h] \in {"cancel", "remove", "done"}
<1> DEFINE q == queue_tasks
<1> DEFINE d == queue_tasks_deferred
<1> DEFINE Works(s) == slot_task[s] = id /\ ~(Releasing /\ s = mslot)
<1> DEFINE Working == \E s \in Slots : Works(s)
<1> DEFINE Sent == \E kind \in {"final", "error"} : Send(Result(id, kind))
<1> DEFINE Over == \E h \in Handlers : id \in Ids(h) /\ pc[h] \in {"cancel", "remove", "done"}
<1> DEFINE Born == \E h \in Handlers : HttpPost(h) /\ id \in Ids(h)
<1> DEFINE Goal == /\ Live(id)' => Live(id) \/ Born
                   /\ Live(id) => Live(id)' \/ Sent \/ Over
<1> SUFFICES Goal
  BY Zenon
<1>0. /\ scene \in DOMAIN Scenarios /\ id # NoId
      /\ q \in Seq(Tasks) /\ d \in Seq(Tasks) /\ mtask \in Tasks
      /\ slot_task \in [Slots -> AllIds \cup {NoId}]
      /\ \A h \in Handlers : Ids(h) \subseteq AllIds
      /\ \E h \in Handlers : id \in Ids(h)
  BY IdFacts, Zenon DEF TypeInv, QueueType, MainType
<1> DEFINE SameHands == InHands(id)' <=> InHands(id)
<1> DEFINE Same == UNCHANGED <<queue_tasks, queue_tasks_deferred>> /\ SameHands
<1> DEFINE Quiet == ~Releasing /\ ~Releasing' /\ slot_task' = slot_task
<1>1. Live(id) <=> Held(q, id) \/ Held(d, id) \/ InHands(id) \/ Working
  BY DEF Live
<1>2. Live(id)' <=> Held(q', id) \/ Held(d', id) \/ InHands(id)' \/ Working'
  BY DEF Live
<1>3. Quiet => (Working' <=> Working)
  OBVIOUS
\* nothing moves
<1>4. ASSUME Same, Quiet \/ UNCHANGED <<slot_task, mpc, mslot>> PROVE Goal
  <2>1. Working' <=> Working
    BY <1>4, Zenon DEF Releasing
  <2> HIDE DEF Working
  <2> QED BY <1>1, <1>2, <1>4, <2>1, Zenon
\* a slot sends its last result
<1>5. ASSUME NEW s \in Slots, Same, slot_task' = slot_task, mslot' = s, Releasing', ~Releasing,
             \E kind \in {"final", "error"} : Send(Result(slot_task[s], kind))
      PROVE  Goal
  <2>1. CASE slot_task[s] = id
    <3>1. Live(id) /\ Sent
      BY <1>1, <1>5, <2>1, Zenon
    <3> QED BY <3>1
  <2>2. CASE slot_task[s] # id
    <3>1. Working' <=> Working
      BY <1>5, <2>2, Zenon
    <3> HIDE DEF Working
    <3> QED BY <1>1, <1>2, <1>5, <3>1, Zenon
  <2> QED BY <2>1, <2>2
\* the main thread answers the task in hand
<1>6. ASSUME UNCHANGED <<queue_tasks, queue_tasks_deferred>>, Quiet,
             mpc = "process", mpc' # "process",
             \E kind \in {"final", "error"} : Send(Result(mtask.id, kind))
      PROVE  Goal
  <2>1. CASE mtask.id = id
    <3>1. Live(id) /\ Sent
      BY <1>1, <1>6, <2>1, Zenon DEF InHands
    <3> QED BY <3>1, Zenon
  <2>2. CASE mtask.id # id
    <3>1. SameHands
      BY <1>6, <2>2, Zenon DEF InHands
    <3> QED BY <1>4, <1>6, <3>1, Zenon
  <2> QED BY <2>1, <2>2
\* the main thread defers the task in hand
<1>7. ASSUME Defer(mtask), Quiet, mpc = "process", mpc' # "process" PROVE Goal
  <2>1. q' = q /\ d' = d \o <<mtask>>
    BY <1>0, <1>7, AppendIsConcat DEF Defer
  <2>2. <<mtask>> \in Seq(Tasks) /\ (Held(<<mtask>>, id) <=> mtask.id = id)
    BY <1>0, OneIds, Zenon
  <2>3. Held(d', id) <=> Held(d, id) \/ mtask.id = id
    BY <1>0, <2>1, <2>2, ConcatIds, Zenon
  <2>4. (InHands(id) <=> mtask.id = id) /\ ~InHands(id)'
    BY <1>7 DEF InHands
  <2> HIDE DEF Working
  <2> QED BY <1>1, <1>2, <1>3, <1>7, <2>1, <2>3, <2>4, Zenon
<1> HIDE DEF Same, SameHands, Sent, Over, Born
<1>8. CASE MainPop
  <2>1. /\ q # <<>> /\ q' = Tail(q) /\ d' = d /\ slot_task' = slot_task
        /\ mpc = "pop" /\ mpc' = "process" /\ mtask' = Head(q)
    BY <1>8, Zenon DEF MainPop, TakeFront
  <2>2. Held(q, id) <=> Head(q).id = id \/ Held(q', id)
    BY <1>0, <2>1, TailIds, Zenon
  <2>3. (InHands(id)' <=> Head(q).id = id) /\ ~InHands(id) /\ Quiet
    BY <2>1 DEF InHands, Releasing
  <2> HIDE DEF Working
  <2> QED BY <1>1, <1>2, <1>3, <2>1, <2>2, <2>3, Zenon
<1>9. CASE MainDrained \/ MainWake \/ SampleToken \/ HasNextToken \/ DecodeFails
  <2>1. UNCHANGED <<queue_tasks, queue_tasks_deferred, slot_task>>
        /\ mpc # "process" /\ mpc' # "process" /\ ~Releasing /\ ~Releasing'
    BY <1>9, Zenon DEF MainDrained, MainWake, SampleToken, HasNextToken, DecodeFails,
       queueVars, NextSlot, Releasing
  <2>2. Same /\ Quiet
    BY <2>1 DEF InHands, Same, SameHands
  <2> QED BY <1>4, <2>2, Zenon
<1>10. CASE Stop
  <2>1. /\ UNCHANGED <<queue_tasks, queue_tasks_deferred, slot_task, mslot>>
        /\ mpc = "stop?" /\ mpc' = "release" /\ Send(Result(slot_task[mslot], "final"))
    BY <1>10 DEF Stop, queueVars
  <2>2. mslot \in Slots
    BY Zenon DEF TypeInv, MainType
  <2>3. Same /\ ~Releasing /\ Releasing'
    BY <2>1 DEF InHands, Same, SameHands, Releasing
  <2> QED BY <1>5, <2>1, <2>2, <2>3
<1>11. CASE PromptEnds \/ FailSlot
  <2>1. /\ UNCHANGED <<queue_tasks, queue_tasks_deferred, slot_task>>
        /\ mpc \in {"slots", "fail"} /\ mpc' \in {"release", "fail release"}
        /\ mslot' = Min(batch)
        /\ \E kind \in {"final", "error"} : Send(Result(slot_task[Min(batch)], kind))
    BY <1>11, Zenon DEF PromptEnds, FailSlot, queueVars
  <2>2. Min(batch) \in Slots
    BY <2>1, WhoSends, Zenon
  <2>3. Same /\ ~Releasing /\ Releasing'
    BY <2>1, Zenon DEF InHands, Same, SameHands, Releasing
  <2> QED BY <1>5, <2>1, <2>2, <2>3, Zenon
<1>12. CASE DeferTask
  BY <1>7, <1>12 DEF DeferTask, Processing, BackToLoop, Releasing
<1>13. CASE LaunchSlotWithTask
  <2>1. PICK s \in Idle : slot_task' = [slot_task EXCEPT ![s] = mtask.id]
    BY <1>13, Zenon DEF LaunchSlotWithTask
  <2>2. s \in Slots /\ slot_task[s] = NoId
    BY <2>1 DEF Idle, Busy
  <2>3. \A t \in Slots : slot_task'[t] = IF t = s THEN mtask.id ELSE slot_task[t]
    BY <1>0, <2>1, <2>2
  <2>4. UNCHANGED <<queue_tasks, queue_tasks_deferred>> /\ mpc = "process" /\ mpc' = "pop"
    BY <1>13 DEF LaunchSlotWithTask, queueVars, Processing, BackToLoop
  <2>5. ~InHands(id)' /\ (InHands(id) <=> mtask.id = id) /\ ~Releasing /\ ~Releasing'
    BY <2>4, Zenon DEF InHands, Releasing
  <2>6. Working' <=> Working \/ mtask.id = id
    BY <1>0, <2>2, <2>3, <2>5, Zenon
  <2> HIDE DEF Working
  <2> QED BY <1>1, <1>2, <2>4, <2>5, <2>6, Zenon
<1>14. CASE RejectTask \/ ProcessControl
  <2>1. /\ UNCHANGED <<queue_tasks, queue_tasks_deferred>> /\ Quiet
        /\ mpc = "process" /\ mpc' # "process"
        /\ \E kind \in {"final", "error"} : Send(Result(mtask.id, kind))
    BY <1>14, Zenon DEF RejectTask, ProcessControl, queueVars, Processing, BackToLoop, Releasing
  <2> QED BY <1>6, <2>1, Zenon
<1>15. CASE ProcessSlotAction
  <2>1. /\ Quiet /\ mpc = "process" /\ mpc' # "process"
        /\ \/ Defer(mtask)
           \/ /\ UNCHANGED <<queue_tasks, queue_tasks_deferred>>
              /\ \E kind \in {"final", "error"} : Send(Result(mtask.id, kind))
    BY <1>15 DEF ProcessSlotAction, queueVars, Processing, BackToLoop, Releasing
  <2> QED BY <1>6, <1>7, <2>1, Zenon
<1>16. CASE ProcessNextResponse
  <2>1. /\ UNCHANGED <<queue_tasks, queue_tasks_deferred>> /\ Quiet
        /\ mpc = "process" /\ mpc' # "process" /\ mtask.type = "NEXT_RESPONSE"
    BY <1>16, Zenon DEF ProcessNextResponse, queueVars, Processing, BackToLoop, Releasing
  <2>2. mtask.id = NoId
    BY <1>0, <2>1, TaskFacts, Zenon
  <2>3. Same
    BY <1>0, <2>1, <2>2, Zenon DEF InHands, Same, SameHands
  <2> QED BY <1>4, <2>1, <2>3
<1>17. CASE ProcessCancel
  <2>1. mpc = "process" /\ mpc' = "pop" /\ mtask.type = "CANCEL"
    BY <1>17, Zenon DEF ProcessCancel, Processing, BackToLoop
  <2>2. mtask.id = NoId
    BY <1>0, <2>1, TaskFacts, Zenon
  <2>3. ~InHands(id) /\ ~InHands(id)' /\ ~Releasing /\ ~Releasing'
    BY <1>0, <2>1, <2>2, Zenon DEF InHands, Releasing
  <2>4. CASE UNCHANGED <<queueVars, slot_task, n_decoded>>
    <3>1. Same /\ Quiet
      BY <2>3, <2>4 DEF Same, SameHands, queueVars
    <3> QED BY <1>4, <3>1
  <2>5. ASSUME NEW s \in Busy, slot_task[s] = mtask.target, Release(s) PROVE Goal
    <3>1. (Held(q', id) \/ Held(d', id)) <=> (Held(q, id) \/ Held(d, id))
      BY <1>0, <2>5, PopIds, Zenon DEF Release
    <3>2. \A t \in Slots : slot_task'[t] = IF t = s THEN NoId ELSE slot_task[t]
      BY <1>0, <2>5 DEF Release
    <3>3. CASE mtask.target = id
      <4>1. Over
        BY <1>0, <3>3, Zenon DEF CancelInv, Over
      <4>2. Live(id)
        BY <1>1, <2>3, <2>5, <3>3, Zenon DEF Busy
      <4> QED BY <4>1, <4>2
    <3>4. CASE mtask.target # id
      <4>1. Working' <=> Working
        BY <1>0, <2>3, <2>5, <3>2, <3>4, Zenon
      <4> HIDE DEF Working
      <4> QED BY <1>1, <1>2, <2>3, <3>1, <4>1, Zenon
    <3> QED BY <3>3, <3>4, Zenon
  <2>6. UNCHANGED <<queueVars, slot_task, n_decoded>>
        \/ \E s \in Busy : slot_task[s] = mtask.target /\ Release(s)
    <3> DEFINE owners == {s \in Busy : slot_task[s] = mtask.target}
    <3>1. owners # {} => Min(owners) \in owners
      BY MinSlot, Zenon DEF Busy
    <3>2. IF owners = {} THEN UNCHANGED <<queueVars, slot_task, n_decoded>>
                         ELSE Release(Min(owners))
      BY <1>17, Zenon DEF ProcessCancel
    <3> QED BY <3>1, <3>2, Zenon
  <2> QED BY <2>4, <2>5, <2>6, Zenon
<1>18. CASE ReleaseSlot \/ ReleaseFailed
  <2>1. /\ Release(mslot) /\ Releasing /\ ~Releasing' /\ mpc' # "process"
    BY <1>18, Zenon DEF ReleaseSlot, ReleaseFailed, NextSlot, Releasing
  <2>2. ~InHands(id) /\ ~InHands(id)'
    BY <2>1, Zenon DEF InHands, Releasing
  <2>3. (Held(q', id) \/ Held(d', id)) <=> (Held(q, id) \/ Held(d, id))
    BY <1>0, <2>1, PopIds DEF Release
  <2>4. \A t \in Slots : slot_task'[t] = IF t = mslot THEN NoId ELSE slot_task[t]
    BY <1>0, <2>1, Zenon DEF Release
  <2>5. Working' <=> Working
    BY <1>0, <2>1, <2>4, Zenon
  <2> HIDE DEF Working
  <2> QED BY <1>1, <1>2, <2>2, <2>3, <2>5, Zenon
<1>19. CASE UpdateSlots
  <2>1. mpc = "update" /\ mpc' \in {"wait", "slots"} /\ slot_task' = slot_task
    BY <1>19, Zenon DEF UpdateSlots
  <2>2. SameHands /\ Quiet
    BY <2>1, Zenon DEF InHands, SameHands, Releasing
  <2>3. CASE UNCHANGED <<queue_tasks, queue_tasks_deferred>>
    BY <1>4, <2>2, <2>3 DEF Same
  <2>4. CASE Post(<<NextResponse>>, FALSE)
    <3>1. /\ <<NextResponse>> \in Seq(Tasks) /\ ~Held(<<NextResponse>>, id)
          /\ Range(<<NextResponse>>) = {NextResponse}
      BY <1>0, OneIds, NextResponseFacts, Zenon
    <3>2. {} = {t.target : t \in Range(<<NextResponse>>)} \ {NoId}
      BY <3>1, NextResponseFacts, Zenon
    <3>3. /\ Held(q', id) <=> Held(q, id)
          /\ Held(d', id) <=> Held(d, id)
      BY <1>0, <2>4, <3>1, <3>2, PostIds, Zenon
    <3> HIDE DEF Working
    <3> QED BY <1>1, <1>2, <1>3, <2>2, <3>3, Zenon DEF SameHands
  <2> QED BY <1>19, <2>3, <2>4, Zenon DEF UpdateSlots, queueVars
<1>20. ASSUME NEW h \in Handlers, HttpPost(h)
       PROVE  Goal
  <2>1. UNCHANGED <<mpc, mtask, mslot, slot_task>> /\ \E front : Post(TasksOf(h), front)
    BY <1>20, Zenon DEF HttpPost, mainVars
  <2>2. /\ TasksOf(h) \in Seq(Tasks) /\ (Held(TasksOf(h), id) <=> id \in Ids(h))
        /\ \A t \in Range(TasksOf(h)) : t.target = NoId
    BY <1>0, TasksOfFacts, Zenon
  <2>3. {} = {t.target : t \in Range(TasksOf(h))} \ {NoId}
    BY <2>2, Zenon
  <2>4. /\ Held(q', id) <=> Held(q, id) \/ id \in Ids(h)
        /\ Held(d', id) <=> Held(d, id)
    BY <1>0, <2>1, <2>2, <2>3, PostIds, Zenon
  <2>5. (Working' <=> Working) /\ (InHands(id)' <=> InHands(id))
    BY <2>1 DEF InHands, Releasing
  <2>6. id \in Ids(h) => Born
    BY <1>20 DEF Born
  <2> HIDE DEF Working
  <2> QED BY <1>1, <1>2, <2>4, <2>5, <2>6, Zenon
<1>21. ASSUME NEW h \in Handlers, HttpCancelPost(h) PROVE Goal
  <2>1. UNCHANGED <<mpc, mtask, mslot, slot_task>> /\ Post(CancelsOf(h), TRUE) /\ pc[h] = "cancel"
    BY <1>21, Zenon DEF HttpCancelPost, mainVars, CancelsOf
  <2>2. /\ CancelsOf(h) \in Seq(Tasks) /\ ~Held(CancelsOf(h), id)
        /\ {t.target : t \in Range(CancelsOf(h))} \ {NoId} = Ids(h)
    BY <1>0, CancelsOfFacts, Zenon
  <2>3. /\ Held(q', id) <=> Held(q, id) /\ id \notin Ids(h)
        /\ Held(d', id) <=> Held(d, id) /\ id \notin Ids(h)
    BY <1>0, <2>1, <2>2, PostIds, Zenon
  <2>4. (Working' <=> Working) /\ (InHands(id)' <=> InHands(id))
    BY <2>1, Zenon DEF InHands, Releasing
  <2>5. id \in Ids(h) => Over
    BY <2>1 DEF Over
  <2> HIDE DEF Working
  <2> QED BY <1>1, <1>2, <2>3, <2>4, <2>5, Zenon
<1>22. ASSUME NEW h \in Handlers,
              HttpRefuse(h) \/ HttpRegister(h) \/ HttpStream(h) \/ HttpReceive(h)
              \/ HttpPoll(h) \/ HttpCancelRemove(h) \/ HttpFinish(h) \/ Disconnect(h)
       PROVE  Goal
  <2>1. UNCHANGED <<queue_tasks, queue_tasks_deferred, slot_task, mpc, mtask, mslot>>
    BY <1>22, Zenon
       DEF HttpRefuse, HttpRegister, HttpStream, HttpReceive, HttpPoll, HttpCancelRemove,
       HttpFinish, Disconnect, mainVars, queueVars
  <2>2. Same
    BY <2>1 DEF InHands, Same, SameHands
  <2> QED BY <1>4, <2>1, <2>2, Zenon
<1>23. CASE Quiescent
  <2>1. UNCHANGED <<queue_tasks, queue_tasks_deferred, slot_task, mpc, mtask, mslot>>
    BY <1>23 DEF Quiescent, vars, mainVars, queueVars
  <2>2. Same
    BY <2>1 DEF InHands, Same, SameHands
  <2> QED BY <1>4, <2>1, <2>2
<1> HIDE DEF Goal
<1> QED
  BY <1>8, <1>9, <1>10, <1>11, <1>12, <1>13, <1>14, <1>15, <1>16, <1>17, <1>18, <1>19,
     <1>20, <1>21, <1>22, <1>23, Zenon DEF Next, MainNext, HttpNext


\* a posted task is live
LEMMA PostLives ==
    ASSUME TypeInv, NEW h \in Handlers, HttpPost(h), NEW id \in Ids(h)
    PROVE  Live(id)'
<1>1. scene \in DOMAIN Scenarios /\ queue_tasks \in Seq(Tasks) /\ queue_tasks_deferred \in Seq(Tasks)
  BY Zenon DEF TypeInv, QueueType
<1>2. \E front : Post(TasksOf(h), front)
  BY Zenon DEF HttpPost
<1>3. /\ TasksOf(h) \in Seq(Tasks) /\ Held(TasksOf(h), id)
      /\ \A t \in Range(TasksOf(h)) : t.target = NoId
  BY <1>1, TasksOfFacts, Zenon
<1>4. {} = {t.target : t \in Range(TasksOf(h))} \ {NoId}
  BY <1>3, Zenon
<1>5. Held(queue_tasks', id)
  BY <1>1, <1>2, <1>3, <1>4, PostIds, Zenon
<1> QED BY <1>5 DEF Live

\* a result of a live task, which is no longer live if it is the last
Speaks(id, kind) ==
    /\ id \in AllIds /\ kind \in {"partial", "final", "error"}
    /\ Send(Result(id, kind)) /\ UNCHANGED httpVars
    /\ Live(id) /\ (kind # "partial" => ~Live(id)')

Reads == \E h \in Handlers : \/ HttpReceive(h) \/ HttpCancelRemove(h)
                             \/ HttpFinish(h) /\ IsControl(h)

\* the results change by a result of a live task, or by a reader
LEMMA SendStep ==
    ASSUME TypeInv, HomeInv, Next
    PROVE  \/ UNCHANGED queue_results
           \/ \E id, kind : Speaks(id, kind)
           \/ Reads
<1> DEFINE Goal == UNCHANGED queue_results \/ (\E id, kind : Speaks(id, kind)) \/ Reads
<1> SUFFICES Goal
  BY Zenon
<1>0. scene \in DOMAIN Scenarios /\ NoId \notin AllIds /\ \A id \in AllIds : Single(id)
  BY IdFacts, Zenon DEF TypeInv, HomeInv
\* the slot a last result is sent for
<1>1. ASSUME NEW s \in Slots, NEW id \in AllIds, slot_task[s] = id,
             ~Releasing, Releasing', mslot' = s,
             UNCHANGED <<queue_tasks, queue_tasks_deferred, slot_task, httpVars>>,
             NEW kind \in {"final", "error"}, Send(Result(id, kind))
      PROVE  Goal
  <2>1. Live(id)
    BY <1>1 DEF Live
  <2>2. InSlot(id) /\ Single(id)
    BY <1>0, <1>1 DEF InSlot
  <2>3. ~InHands(id)'
    BY <1>1, Zenon DEF InHands, Releasing
  <2>4. ~Held(queue_tasks, id) /\ ~Held(queue_tasks_deferred, id)
        /\ \A t \in Slots : slot_task[t] = id => t = s
    BY <1>1, <2>2 DEF Single
  <2>5. ~Live(id)'
    BY <1>1, <2>3, <2>4, Zenon DEF Live
  <2>6. Speaks(id, kind)
    BY <1>1, <2>1, <2>5 DEF Speaks
  <2> QED BY <2>6
\* the task in hand is answered
<1>2. ASSUME NEW id \in AllIds, mtask.id = id, mpc = "process", mpc' = "pop",
             UNCHANGED <<queue_tasks, queue_tasks_deferred, slot_task, httpVars>>,
             NEW kind \in {"final", "error"}, Send(Result(id, kind))
      PROVE  Goal
  <2>1. Live(id) /\ InHands(id) /\ ~InHands(id)'
    BY <1>2 DEF Live, InHands
  <2>2. Single(id)
    BY <1>0, <1>2
  <2>3. ~Held(queue_tasks, id) /\ ~Held(queue_tasks_deferred, id) /\ ~InSlot(id)
    BY <2>1, <2>2, Zenon DEF Single
  <2>4. ~Live(id)'
    BY <1>2, <2>1, <2>3, Zenon DEF Live, InSlot
  <2>5. Speaks(id, kind)
    BY <1>2, <2>1, <2>4 DEF Speaks
  <2> QED BY <2>5, Zenon
<1>3. CASE SampleToken
  <2>1. mpc = "slots" /\ UNCHANGED httpVars
        /\ (UNCHANGED responseVars \/ Send(Result(slot_task[Min(batch)], "partial")))
    BY <1>3, Zenon DEF SampleToken
  <2>2. Min(batch) \in Slots /\ slot_task[Min(batch)] \in AllIds /\ ~Releasing
    BY <2>1, WhoSends DEF Releasing
  <2>3. PICK id \in AllIds : slot_task[Min(batch)] = id
    BY <2>2
  <2>6. Live(id)
    BY <2>2, <2>3 DEF Live
  <2>4. CASE UNCHANGED responseVars
    BY <2>4 DEF responseVars
  <2>5. CASE Send(Result(slot_task[Min(batch)], "partial"))
    <3>1. Speaks(id, "partial")
      BY <2>1, <2>3, <2>5, <2>6 DEF Speaks
    <3> QED BY <3>1
  <2> QED BY <2>1, <2>4, <2>5
<1>4. CASE Stop
  <2>1. /\ UNCHANGED <<queue_tasks, queue_tasks_deferred, slot_task, httpVars>>
        /\ mslot' = mslot /\ mpc = "stop?" /\ mpc' = "release"
        /\ Send(Result(slot_task[mslot], "final"))
    BY <1>4, ZenonT(30) DEF Stop, queueVars
  <2>2. mslot \in Slots /\ slot_task[mslot] \in AllIds /\ ~Releasing /\ Releasing'
    BY <2>1, WhoSends DEF Releasing
  <2> HIDE DEF Goal
  <2> QED BY <1>1, <2>1, <2>2
<1>5. CASE PromptEnds \/ FailSlot
  <2>1. /\ UNCHANGED <<queue_tasks, queue_tasks_deferred, slot_task, httpVars>>
        /\ mpc \in {"slots", "fail"} /\ mpc' \in {"release", "fail release"}
        /\ mslot' = Min(batch)
        /\ \E kind \in {"final", "error"} : Send(Result(slot_task[Min(batch)], kind))
    BY <1>5, Zenon DEF PromptEnds, FailSlot, queueVars
  <2>2. Min(batch) \in Slots /\ slot_task[Min(batch)] \in AllIds /\ ~Releasing /\ Releasing'
    BY <2>1, WhoSends, Zenon DEF Releasing
  <2> HIDE DEF Goal
  <2> QED BY <1>1, <2>1, <2>2, ZenonT(30)
<1>6. CASE RejectTask \/ ProcessControl \/ ProcessSlotAction
  <2>1. /\ mpc = "process" /\ mpc' = "pop" /\ mtask.type \in InferenceTypes \cup ControlTypes
        /\ UNCHANGED <<slot_task, httpVars>>
        /\ \/ UNCHANGED responseVars
           \/ /\ UNCHANGED <<queue_tasks, queue_tasks_deferred>>
              /\ \E kind \in {"final", "error"} : Send(Result(mtask.id, kind))
    BY <1>6, ZenonT(30)
       DEF RejectTask, ProcessControl, ProcessSlotAction, queueVars, Processing, BackToLoop,
       ControlTypes
  <2>2. mtask.id \in AllIds
    BY <2>1, WhoSends
  <2>3. CASE UNCHANGED responseVars
    BY <2>3 DEF responseVars
  <2>4. CASE /\ UNCHANGED <<queue_tasks, queue_tasks_deferred>>
             /\ \E kind \in {"final", "error"} : Send(Result(mtask.id, kind))
    <3> HIDE DEF Goal
    <3> QED BY <1>2, <2>1, <2>2, <2>4, Zenon
  <2> QED BY <2>1, <2>3, <2>4, Zenon
<1>7. CASE MainPop \/ MainDrained \/ MainWake \/ DeferTask \/ LaunchSlotWithTask
           \/ ProcessNextResponse \/ ProcessCancel \/ UpdateSlots \/ HasNextToken
           \/ ReleaseSlot \/ DecodeFails \/ ReleaseFailed
  BY <1>7, Zenon DEF MainPop, MainDrained, MainWake, DeferTask, LaunchSlotWithTask,
     ProcessNextResponse, ProcessCancel, UpdateSlots, HasNextToken, ReleaseSlot,
     DecodeFails, ReleaseFailed, responseVars
<1>8. ASSUME NEW h \in Handlers, HttpNext(h) \/ Disconnect(h) PROVE Goal
  <2>1. HttpReceive(h) \/ HttpCancelRemove(h) \/ (HttpFinish(h) /\ IsControl(h))
        \/ UNCHANGED queue_results
    BY <1>8, Zenon
       DEF HttpNext, HttpRefuse, HttpRegister, HttpPost, HttpStream, HttpPoll, HttpCancelPost,
       HttpFinish, Disconnect, AddWaiting, RemoveWaitingTaskIds, responseVars
  <2> QED BY <2>1, Zenon DEF Reads
<1>9. CASE Quiescent
  BY <1>9 DEF Quiescent, vars, responseVars
<1> HIDE DEF Goal
<1> QED BY <1>3, <1>4, <1>5, <1>6, <1>7, <1>8, <1>9, Zenon DEF Next, MainNext


-----------------------------------------------------------------------------
(***************************************************************************)
(* Nothing follows a last result                                           *)
(***************************************************************************)
\* readers take results out and change nothing else about them
LEMMA ReadsThins ==
    ASSUME TypeInv, Reads
    PROVE  /\ queue_results' \in Seq(Results)
           /\ \E D : Thinned(queue_results', queue_results, D)
<1>1. queue_results \in Seq(Results)
  BY DEF TypeInv, ResponseType
<1>2. PICK h \in Handlers : HttpReceive(h) \/ HttpCancelRemove(h) \/ (HttpFinish(h) /\ IsControl(h))
  BY Zenon DEF Reads
<1>3. CASE HttpReceive(h)
  BY <1>1, <1>3, RecvThins, Zenon DEF HttpReceive
<1>4. CASE \E id : RemoveWaitingTaskId(id)
  BY <1>1, <1>4, RemoveWaitingThins, ZenonT(30)
<1>5. HttpCancelRemove(h) \/ (HttpFinish(h) /\ IsControl(h)) => \E id : RemoveWaitingTaskId(id)
  BY DEF HttpCancelRemove, HttpFinish
<1> QED BY <1>2, <1>3, <1>4, <1>5

\* what a step can add to the results of a task
LEMMA ResultsStep ==
    ASSUME TypeInv, HomeInv, Next
    PROVE  /\ Stops(queue_results) /\ (\A id \in AllIds : Final(id) => ~Live(id))
                => Stops(queue_results')
           /\ \A id \in AllIds : Held(queue_results', id) => Held(queue_results, id) \/ Live(id)
           /\ \A id \in AllIds : Final(id)' => Final(id) \/ ~Live(id)'
<1> DEFINE s == queue_results
<1>0. s \in Seq(Results)
  BY Zenon DEF TypeInv, ResponseType
<1>1. CASE UNCHANGED queue_results
  BY <1>1 DEF Final
<1>2. ASSUME NEW D, queue_results' \in Seq(Results), Thinned(queue_results', queue_results, D)
      PROVE  /\ Stops(queue_results) => Stops(queue_results')
             /\ \A id \in AllIds : Held(queue_results', id) => Held(queue_results, id)
             /\ \A id \in AllIds : Final(id)' => Final(id)
  <2> DEFINE r == queue_results'
  <2>1. (\A i \in DOMAIN r : \E j \in DOMAIN s \ D : r[i] = s[j]) /\ (Stops(s) => Stops(r))
    BY <1>0, <1>2, ThinnedFacts
  <2>2. \A id \in AllIds : Held(r, id) => Held(s, id)
    BY <2>1 DEF Held
  <2>3. \A id \in AllIds : Final(id)' => Final(id)
    BY <2>1 DEF Final
  <2> QED BY <2>1, <2>2, <2>3
<1>3. ASSUME NEW id, NEW kind, Speaks(id, kind), queue_results' # queue_results
      PROVE  /\ Stops(queue_results) /\ (\A x \in AllIds : Final(x) => ~Live(x))
                  => Stops(queue_results')
             /\ \A x \in AllIds : Held(queue_results', x) => Held(queue_results, x) \/ Live(x)
             /\ \A x \in AllIds : Final(x)' => Final(x) \/ ~Live(x)'
  <2> DEFINE r == queue_results'
  <2> DEFINE new == Result(id, kind)
  <2>1. id \in AllIds /\ Live(id) /\ (kind # "partial" => ~Live(id)') /\ r = Append(s, new)
    BY <1>3 DEF Speaks, Send
  <2>2. new.id = id /\ new.kind = kind /\ new \in Results
    BY <1>3 DEF Result, Results, Speaks
  <2>3. /\ Len(s) \in Nat /\ DOMAIN s = 1 .. Len(s) /\ DOMAIN r = 1 .. Len(s) + 1
        /\ r[Len(s) + 1] = new /\ \A i \in DOMAIN s : r[i] = s[i]
    <3>1. s \in Seq(Results) /\ new \in Results /\ r = Append(s, new)
      BY <1>0, <2>1, <2>2
    <3> HIDE DEF new, r, s
    <3> QED BY <3>1
  <2> HIDE DEF new, r, s
  <2>4. \A i \in DOMAIN r : (i \in DOMAIN s /\ r[i] = s[i]) \/ (i = Len(s) + 1 /\ r[i] = new)
    BY <2>3
  <2>5. \A x \in AllIds : Held(r, x) => Held(s, x) \/ Live(x)
    BY <2>1, <2>2, <2>4, ZenonT(30) DEF Held
  <2>6. \A x \in AllIds : Final(x)' => Final(x) \/ ~Live(x)'
    BY <2>1, <2>2, <2>4 DEF Final, r, s
  <2>7. ASSUME Stops(s), \A x \in AllIds : Final(x) => ~Live(x) PROVE Stops(r)
    <3> SUFFICES ASSUME NEW i \in DOMAIN r, NEW j \in DOMAIN r, i < j, r[i].id = r[j].id
                 PROVE  r[i].kind = "partial"
      BY DEF Stops
    <3>1. i \in DOMAIN s /\ r[i] = s[i]
      <4>1. i # Len(s) + 1
        BY <2>3
      <4> QED BY <2>4, <4>1
    <3>2. CASE j \in DOMAIN s /\ r[j] = s[j]
      BY <2>7, <3>1, <3>2, Zenon DEF Stops
    <3>3. CASE j = Len(s) + 1 /\ r[j] = new
      <4>1. s[i].id = id /\ ~Final(id)
        BY <2>1, <2>2, <2>7, <3>1, <3>3, Zenon
      <4> QED BY <3>1, <4>1, Zenon DEF Final, s
    <3> QED BY <2>4, <3>2, <3>3
  <2> QED BY <2>5, <2>6, <2>7 DEF r, s
<1>4. CASE Reads
  <2>1. PICK D : queue_results' \in Seq(Results) /\ Thinned(queue_results', queue_results, D)
    BY <1>4, ReadsThins, Zenon
  <2> QED BY <1>2, <2>1
<1> QED BY <1>1, <1>3, <1>4, SendStep

\* After the last result of a task has been queued nothing more is sent for it,
\* in whatever order tasks are deferred, released, failed and cancelled.
THEOREM ResultInvariance == Spec => []ResultInv
<1>0. StopIsLast <=> Stops(queue_results)
  BY Zenon DEF StopIsLast, Stops
<1>1. Init => ResultInv
  <2> SUFFICES ASSUME Init PROVE ResultInv
    OBVIOUS
  <2>1. \A id : ~Held(<<>>, id)
    BY DEF Held
  <2> QED BY <2>1 DEF Init, ResultInv, StopIsLast, Final
<1>2. ASSUME TypeInv, HomeInv, CancelInv, ResultInv, Next PROVE ResultInv'
  <2>0. /\ scene \in DOMAIN Scenarios /\ scene' = scene
        /\ AllIds' = AllIds /\ \A h \in Handlers : Ids(h)' = Ids(h) /\ Ids(h) \subseteq AllIds
    BY <1>2, IdsFixed, IdFacts, Zenon
       DEF Next, MainNext, HttpNext, Disconnect, Quiescent, vars, TypeInv
  <2>1. \A id \in AllIds : Final(id) => ~Live(id)
    BY <1>2, Zenon DEF ResultInv
  <2>2. StopIsLast'
    BY <1>0, <1>2, <2>1, ResultsStep, ZenonT(30) DEF ResultInv, StopIsLast, Stops
  <2>3. ASSUME NEW id \in AllIds, Final(id)', Live(id)' PROVE FALSE
    <3>1. Final(id)
      BY <1>2, <2>3, ResultsStep, Zenon
    <3>2. PICK h \in Handlers : HttpPost(h) /\ id \in Ids(h)
      BY <1>2, <2>1, <2>3, <3>1, LiveStep, ZenonT(30)
    <3>3. ~Held(queue_results, id)
      BY <1>2, <3>2, Zenon DEF ResultInv, HttpPost
    <3> QED BY <3>1, <3>3 DEF Final, Held
  <2>4. ASSUME NEW h \in Handlers, pc'[h] \in {"start", "post"}, NEW id \in Ids(h)
        PROVE  ~Held(queue_results', id)
    <3>1. pc[h] \in {"start", "post"}
      BY <1>2, <2>4, PcForward, Zenon
    <3>2. ~Held(queue_results, id) /\ NoHome(id) /\ id \in AllIds
      BY <1>2, <2>0, <3>1 DEF ResultInv, HomeInv
    <3>3. ~Live(id)
      BY <3>2 DEF NoHome, Live, InSlot
    <3> QED BY <1>2, <3>2, <3>3, ResultsStep, Zenon
  <2> QED BY <2>0, <2>2, <2>3, <2>4, Zenon DEF ResultInv
<1>3. ASSUME ResultInv, UNCHANGED vars PROVE ResultInv'
  <2>1. ResultInv' <=> ResultInv
    BY <1>3, IdsFixed, Zenon
       DEF vars, queueVars, responseVars, mainVars, httpVars, ResultInv, StopIsLast,
       Final, Live, InHands, Releasing, Slots
  <2> QED BY <1>3, <2>1, Zenon
<1> QED BY <1>1, <1>2, <1>3, TypeInvariance, HomeInvariance, CancelInvariance, PTL DEF Spec

\* No result of a task follows its last one (StopIsLast).
THEOREM StopIsLastHolds == Spec => []StopIsLast
<1>1. ResultInv => StopIsLast
  BY DEF ResultInv
<1> QED BY <1>1, ResultInvariance, PTL

-----------------------------------------------------------------------------
(***************************************************************************)
(* No task is lost                                                         *)
(***************************************************************************)
\* an id is taken off the waiting ids by its own thread, after it stopped reading
LEMMA WaitingStep ==
    ASSUME TypeInv, Next, NEW h \in Handlers, NEW id \in Ids(h), id \in waiting_task_ids,
           id \notin waiting_task_ids'
    PROVE  pc[h] \in {"cancel", "remove"} /\ (HttpCancelRemove(h) \/ HttpFinish(h))
<1>0. /\ scene \in DOMAIN Scenarios
      /\ \A g \in Handlers : todo[g] \subseteq Ids(g) /\ (IsControl(g) => <<g, 1>> \in Ids(g))
      /\ \A g \in Handlers : id \in Ids(g) => g = h
  BY IdFacts DEF TypeInv, HttpType
<1>1. CASE MainNext \/ Quiescent
  <2>1. waiting_task_ids' = waiting_task_ids
    BY <1>1, Zenon DEF MainNext, Quiescent, vars, MainPop, MainDrained, MainWake, DeferTask,
       LaunchSlotWithTask, RejectTask, ProcessNextResponse, ProcessControl,
       ProcessSlotAction, ProcessCancel, UpdateSlots, SampleToken, HasNextToken, Stop,
       PromptEnds, ReleaseSlot, DecodeFails, FailSlot, ReleaseFailed, responseVars, Send
  <2> QED BY <2>1, ZenonT(30)
<1>2. ASSUME NEW g \in Handlers, HttpRefuse(g) \/ HttpRegister(g) \/ HttpPost(g) \/ HttpStream(g)
             \/ HttpReceive(g) \/ HttpPoll(g) \/ HttpCancelPost(g) \/ Disconnect(g)
      PROVE  FALSE
  BY <1>2, Zenon
     DEF HttpRefuse, HttpRegister, HttpPost, HttpStream, HttpReceive, HttpPoll, HttpCancelPost,
     Disconnect, AddWaiting, Recv, responseVars
<1>3. ASSUME NEW g \in Handlers, HttpCancelRemove(g) PROVE g = h /\ pc[g] = "cancel"
  BY <1>0, <1>3, Zenon DEF HttpCancelRemove, RemoveWaitingTaskId
<1>4. ASSUME NEW g \in Handlers, HttpFinish(g) PROVE g = h /\ pc[g] = "remove"
  BY <1>0, <1>4 DEF HttpFinish, RemoveWaitingTaskId, RemoveWaitingTaskIds
<1> QED BY <1>1, <1>2, <1>3, <1>4 DEF Next, HttpNext

\* a thread that has not refused its request leaves its first step by registering
LEMMA RegisterStep ==
    ASSUME TypeInv, Next, NEW h \in Handlers, pc[h] = "start", pc'[h] \notin {"start", "done"}
    PROVE  HttpRegister(h)
<1>0. pc \in [Handlers -> {"start", "post", "stream", "recv", "cancel", "remove", "done"}]
  BY DEF TypeInv, HttpType
<1>1. CASE MainNext \/ Quiescent \/ \E g \in Handlers : Disconnect(g)
  <2>1. UNCHANGED pc
    BY <1>1, Zenon DEF MainNext, Quiescent, vars, MainPop, MainDrained, MainWake, DeferTask,
       LaunchSlotWithTask, RejectTask, ProcessNextResponse, ProcessControl,
       ProcessSlotAction, ProcessCancel, UpdateSlots, SampleToken, HasNextToken, Stop,
       PromptEnds, ReleaseSlot, DecodeFails, FailSlot, ReleaseFailed, httpVars, Disconnect
  <2> QED BY <2>1, Zenon
<1>2. ASSUME NEW g \in Handlers, HttpNext(g), ~HttpRegister(g) PROVE FALSE
  <2>1. \/ pc[g] # "start" /\ (UNCHANGED pc \/ \E l : pc' = [pc EXCEPT ![g] = l])
        \/ pc' = [pc EXCEPT ![g] = "done"]
    BY <1>2, Zenon DEF HttpNext, HttpRefuse, HttpPost, HttpStream, HttpReceive, HttpPoll,
       HttpCancelRemove, HttpCancelPost, HttpFinish, StartCancel, Goto
  <2> QED BY <1>0, <2>1
<1>3. ASSUME NEW g \in Handlers, HttpRegister(g) PROVE g = h
  BY <1>0, <1>3 DEF HttpRegister, Goto
<1> QED BY <1>1, <1>2, <1>3 DEF Next

\* what a thread has counted it does not forget
LEMMA GotGrows ==
    ASSUME TypeInv, Next, NEW h \in Handlers
    PROVE  got[h] \subseteq got'[h]
<1>0. got \in [Handlers -> SUBSET AllIds]
  BY DEF TypeInv, HttpType
<1>1. CASE MainNext \/ Quiescent
  <2>1. UNCHANGED got
    BY <1>1, Zenon DEF MainNext, Quiescent, vars, MainPop, MainDrained, MainWake, DeferTask,
       LaunchSlotWithTask, RejectTask, ProcessNextResponse, ProcessControl,
       ProcessSlotAction, ProcessCancel, UpdateSlots, SampleToken, HasNextToken, Stop,
       PromptEnds, ReleaseSlot, DecodeFails, FailSlot, ReleaseFailed, httpVars
  <2> QED BY <2>1
<1>2. ASSUME NEW g \in Handlers, HttpNext(g) \/ Disconnect(g)
      PROVE  UNCHANGED got \/ \E id : got' = [got EXCEPT ![g] = @ \cup {id}]
  BY <1>2, Zenon
     DEF HttpNext, HttpRefuse, HttpRegister, HttpPost, HttpStream, HttpReceive, HttpPoll, Disconnect,
     HttpCancelRemove, HttpCancelPost, HttpFinish, StartCancel
<1> QED BY <1>0, <1>1, <1>2 DEF Next

\* a last result stays queued until its own thread has counted it or stops reading
LEMMA FinalStays ==
    ASSUME TypeInv, HomeInv, Next, NEW h \in Handlers, NEW id \in Ids(h), Final(id),
           pc'[h] \in {"stream", "recv"}, id \notin got'[h]
    PROVE  Final(id)'
<1> DEFINE s == queue_results
<1> DEFINE r == queue_results'
<1>0. /\ s \in Seq(Results) /\ scene \in DOMAIN Scenarios
      /\ pc \in [Handlers -> {"start", "post", "stream", "recv", "cancel", "remove", "done"}]
      /\ got \in [Handlers -> SUBSET AllIds]
      /\ \A g \in Handlers : todo[g] \subseteq Ids(g) /\ (IsControl(g) => <<g, 1>> \in Ids(g))
      /\ \A g \in Handlers : id \in Ids(g) => g = h
  BY IdFacts DEF TypeInv, ResponseType, HttpType
<1>1. PICK k \in DOMAIN s : s[k].id = id /\ s[k].kind # "partial"
  BY DEF Final
<1>2. CASE UNCHANGED queue_results
  BY <1>2 DEF Final
<1>3. ASSUME NEW x, NEW kind, Speaks(x, kind) PROVE Final(id)'
  <2>1. r = s \/ r = Append(s, Result(x, kind))
    BY <1>3 DEF Speaks, Send
  <2>2. Result(x, kind) \in Results
    BY <1>3, SMTT(20) DEF Speaks, Result, Results
  <2>3. k \in DOMAIN r /\ r[k] = s[k]
    BY <1>0, <2>1, <2>2
  <2> QED BY <1>1, <2>3 DEF Final
<1>4. ASSUME NEW D, r \in Seq(Results), Thinned(r, s, D), k \notin D PROVE Final(id)'
  <2>1. \E i \in DOMAIN r : r[i] = s[k]
    BY <1>0, <1>4, ThinnedFacts
  <2> QED BY <1>1, <2>1 DEF Final
<1>5. ASSUME NEW g \in Handlers, HttpReceive(g) PROVE Final(id)'
  <2> DEFINE o == Oldest(Ids(g))
  <2>1. r \in Seq(Results) /\ Thinned(r, s, {o})
    BY <1>0, <1>5, RecvThins, Zenon DEF HttpReceive
  <2>2. ASSUME k = o PROVE FALSE
    <3>1. g = h
      BY <1>0, <1>1, <1>5, <2>2, OldestFacts, Zenon DEF HttpReceive, Recv
    <3>2. s[o].id = id /\ s[o].kind # "partial"
      BY <1>1, <2>2, SMTT(20)
    <3>3. \/ Goto(h, "remove") \/ Goto(h, "cancel")
          \/ got' = [got EXCEPT ![h] = @ \cup {id}]
      <4> HIDE DEF o
      <4> QED BY <1>5, <3>1, <3>2 DEF HttpReceive, StartCancel, o
    <3>4. pc'[h] \in {"remove", "cancel"} \/ id \in got'[h]
      BY <1>0, <3>3 DEF Goto
    <3> QED BY <3>4, SMTT(20)
  <2> HIDE DEF o
  <2> QED BY <1>4, <2>1, <2>2, SMTT(20)
<1>6. ASSUME NEW g \in Handlers, NEW x \in Ids(g), RemoveWaitingTaskId(x), g # h PROVE Final(id)'
  <2>1. /\ r \in Seq(Results)
        /\ Thinned(r, s, {i \in DOMAIN s : s[i].id = x})
    BY <1>0, <1>6, RemoveWaitingThins, SMTT(20)
  <2>2. k \notin {i \in DOMAIN s : s[i].id = x}
    BY <1>0, <1>1, <1>6
  <2> QED BY <1>4, <2>1, <2>2, SMTT(20)
<1>7. ASSUME NEW g \in Handlers, HttpCancelRemove(g) \/ (HttpFinish(g) /\ IsControl(g))
      PROVE  g # h /\ \E x \in Ids(g) : RemoveWaitingTaskId(x)
  <2>1. pc[g] \in {"cancel", "remove"} /\ (pc' = pc \/ Goto(g, "done"))
    BY <1>7 DEF HttpCancelRemove, HttpFinish
  <2>2. g # h
    BY <1>0, <2>1, SMTT(20) DEF Goto
  <2>3. \E x \in Ids(g) : RemoveWaitingTaskId(x)
    BY <1>0, <1>7 DEF HttpCancelRemove, HttpFinish
  <2> QED BY <2>2, <2>3
<1>8. Reads => Final(id)'
  BY <1>5, <1>6, <1>7, SMTT(20) DEF Reads
<1> QED BY <1>2, <1>3, <1>8, SendStep, SMTT(20)

\* A client that still reads is registered, and each of its tasks it has no last
\* result of is somewhere in the server or its last result is queued.
THEOREM ServedInvariance == Spec => []ServedInv
<1>1. Init => ServedInv
  BY DEF Init, ServedInv
<1>2. ASSUME TypeInv, HomeInv, CancelInv, ServedInv, Next PROVE ServedInv'
  <2>0. /\ scene \in DOMAIN Scenarios /\ scene' = scene
        /\ AllIds' = AllIds /\ \A h \in Handlers : Ids(h)' = Ids(h) /\ Ids(h) \subseteq AllIds
        /\ \A h, g \in Handlers : \A id \in Ids(h) : id \in Ids(g) => g = h
        /\ pc \in [Handlers -> {"start", "post", "stream", "recv", "cancel", "remove", "done"}]
    BY <1>2, IdsFixed, IdFacts, Zenon
       DEF Next, MainNext, HttpNext, Disconnect, Quiescent, vars, TypeInv, HttpType
  <2>1. ASSUME NEW h \in Handlers, pc'[h] \in {"post", "stream", "recv"}
        PROVE  Ids(h) \subseteq waiting_task_ids'
    <3>1. CASE pc[h] \in {"post", "stream", "recv"}
      <4>1. Ids(h) \subseteq waiting_task_ids
        BY <1>2, <3>1, Zenon DEF ServedInv
      <4> QED BY <1>2, <2>0, <3>1, <4>1, WaitingStep, SMTT(20)
    <3>2. CASE pc[h] = "start"
      <4>1. HttpRegister(h)
        BY <1>2, <2>0, <2>1, <3>2, RegisterStep, SMTT(20)
      <4> QED BY <4>1 DEF HttpRegister, AddWaiting
    <3> QED BY <1>2, <2>0, <2>1, <3>1, <3>2, PcForward, PcEnds
  <2>2. ASSUME NEW h \in Handlers, pc'[h] \in {"stream", "recv"}, NEW id \in Ids(h), id \notin got'[h]
        PROVE  Live(id)' \/ Final(id)'
    <3>0. id \in AllIds /\ id \notin got[h]
      BY <1>2, <2>0, <2>2, GotGrows
    <3>1. CASE pc[h] = "post"
      BY <1>2, <2>2, <3>1, PcEnds, PostLives
    <3>2. CASE pc[h] \in {"stream", "recv"} /\ Final(id)
      BY <1>2, <2>2, <3>2, FinalStays
    <3>3. CASE pc[h] \in {"stream", "recv"} /\ Live(id)
      <4>1. ~\E g \in Handlers : id \in Ids(g) /\ pc[g] \in {"cancel", "remove", "done"}
        BY <2>0, <3>3
      <4>2. id \in waiting_task_ids
        BY <1>2, <3>3 DEF ServedInv
      <4>3. ASSUME NEW kind \in {"final", "error"}, Send(Result(id, kind)) PROVE Final(id)'
        <5>1. queue_results' = Append(queue_results, Result(id, kind)) /\ queue_results \in Seq(Results)
              /\ Result(id, kind).id = id /\ Result(id, kind).kind = kind
          BY <1>2, <4>2, <4>3 DEF Send, Result, TypeInv, ResponseType
        <5>2. Result(id, kind) \in Results
          BY <3>0, <4>3 DEF Result, Results
        <5>3. Len(queue_results) + 1 \in DOMAIN queue_results'
              /\ queue_results'[Len(queue_results) + 1] = Result(id, kind)
          BY <5>1, <5>2
        <5> QED BY <4>3, <5>1, <5>3 DEF Final
      <4> QED BY <1>2, <3>0, <3>3, <4>1, <4>3, LiveStep
    <3>4. pc[h] \in {"stream", "recv"} => Live(id) \/ Final(id)
      BY <1>2, <3>0 DEF ServedInv
    <3> QED BY <1>2, <2>2, <3>1, <3>2, <3>3, <3>4, PcEnds
  <2> QED BY <2>0, <2>1, <2>2, ZenonT(30) DEF ServedInv
<1>3. ASSUME ServedInv, UNCHANGED vars PROVE ServedInv'
  <2>1. ServedInv' <=> ServedInv
    <3>1. UNCHANGED <<queue_tasks, queue_tasks_deferred, queue_results, waiting_task_ids, mpc,
                      mtask, mslot, slot_task, pc, got, scene>>
      BY <1>3 DEF vars, queueVars, responseVars, mainVars, httpVars
    <3>2. \A id : (Live(id)' <=> Live(id)) /\ (Final(id)' <=> Final(id))
      BY <3>1 DEF Final, Live, InHands, Releasing, Slots
    <3>3. \A h \in Handlers : Ids(h)' = Ids(h)
      BY <3>1, IdsFixed
    <3> QED BY <3>1, <3>2, <3>3 DEF ServedInv
  <2> QED BY <1>3, <2>1
<1> QED BY <1>1, <1>2, <1>3, TypeInvariance, HomeInvariance, CancelInvariance, PTL DEF Spec


\* Single says that a task has at most one home
LEMMA SingleHome ==
    ASSUME NEW id, Single(id) PROVE \A x, y \in Homes(id) : x = y
<1> DEFINE Q == {i \in DOMAIN queue_tasks : queue_tasks[i].id = id}
<1> DEFINE D == {i \in DOMAIN queue_tasks_deferred : queue_tasks_deferred[i].id = id}
<1> DEFINE M == {i \in {1} : mpc = "process" /\ mtask.id = id}
<1> DEFINE S == {s \in Slots : slot_task[s] = id}
<1>1. Homes(id) = ({"queue"} \X Q) \cup ({"deferred"} \X D) \cup ({"main"} \X M) \cup ({"slot"} \X S)
  BY DEF Homes
<1>2. (Q # {} <=> Held(queue_tasks, id)) /\ (D # {} <=> Held(queue_tasks_deferred, id))
  BY DEF Held
<1>3. (M # {} <=> InHands(id)) /\ (S # {} <=> InSlot(id))
  BY DEF InHands, InSlot
<1>4. /\ \A i, j \in Q : i = j
      /\ \A i, j \in D : i = j
      /\ \A i, j \in M : i = j
      /\ \A i, j \in S : i = j
  BY SMTT(20) DEF Single, Once
<1>5. /\ Q # {} => D = {} /\ M = {} /\ S = {}
      /\ D # {} => M = {} /\ S = {}
      /\ M # {} => S = {}
  BY <1>2, <1>3, Zenon DEF Single
<1> HIDE DEF Q, D, M, S
<1> QED BY <1>1, <1>4, <1>5

\* No interleaving of posting, deferring, releasing, answering and cancelling
\* duplicates a task, or loses one its client still waits for (NoTaskLost).
THEOREM NoTaskLostHolds == Spec => []NoTaskLost
<1>1. TypeInv /\ HomeInv /\ ServedInv => NoTaskLost
  <2> SUFFICES ASSUME TypeInv, HomeInv, ServedInv PROVE NoTaskLost
    OBVIOUS
  <2>1. TypeOK
    BY TypeInvTypeOK
  <2>2. \A id \in AllIds : \A x, y \in Homes(id) : x = y
    BY SingleHome DEF HomeInv
  <2>3. ASSUME NEW id, Live(id) PROVE Homes(id) # {}
    <3>1. CASE Held(queue_tasks, id)
      <4>1. PICK i \in DOMAIN queue_tasks : queue_tasks[i].id = id
        BY <3>1 DEF Held
      <4>2. <<"queue", i>> \in Homes(id)
        BY <4>1 DEF Homes
      <4> QED BY <4>2
    <3>2. CASE Held(queue_tasks_deferred, id)
      <4>1. PICK i \in DOMAIN queue_tasks_deferred : queue_tasks_deferred[i].id = id
        BY <3>2 DEF Held
      <4>2. <<"deferred", i>> \in Homes(id)
        BY <4>1 DEF Homes
      <4> QED BY <4>2
    <3>3. CASE InHands(id)
      <4>1. <<"main", 1>> \in Homes(id)
        BY <3>3 DEF InHands, Homes
      <4> QED BY <4>1
    <3>4. CASE \E s \in Slots : slot_task[s] = id
      <4>1. PICK s \in Slots : slot_task[s] = id
        BY <3>4
      <4>2. <<"slot", s>> \in Homes(id)
        BY <4>1 DEF Homes
      <4> QED BY <4>2
    <3> QED BY <2>3, <3>1, <3>2, <3>3, <3>4 DEF Live
  <2>4. ASSUME NEW h \in Handlers, pc[h] \in {"stream", "recv"}, NEW id \in Ids(h) \ got[h]
        PROVE  Homes(id) # {} \/ Final(id)
    BY <2>3, <2>4, SMTT(20) DEF ServedInv
  <2> QED BY <2>1, <2>2, <2>4 DEF NoTaskLost, Final
<1> QED BY <1>1, TypeInvariance, HomeInvariance, ServedInvariance, PTL


-----------------------------------------------------------------------------
(***************************************************************************)
(* Every queued result has a reader, if no streaming client disconnects    *)
(***************************************************************************)
NoStreamCloses ==
    \A c \in DOMAIN Scenarios, h \in Handlers :
        ~(Scenarios[c][h].stream /\ Scenarios[c][h].mayClose)

\* a thread that has stopped waiting has left no result, and none will come
WaitInv ==
    /\ ResultsHaveWaiters
    /\ \A h \in Handlers : /\ closed[h] => Request[h].mayClose
                           /\ pc[h] = "stream" => Request[h].stream
                           /\ pc[h] \in {"start", "post"} => got[h] = {}
    /\ \A h \in Handlers : ~IsControl(h) =>
          \A id \in got[h] : ~Live(id) /\ ~Held(queue_results, id)
    /\ \A h \in Handlers : ~IsControl(h) /\ pc[h] = "remove" =>
          \A id \in Ids(h) : /\ ~Held(queue_results, id)
                             /\ id \in waiting_task_ids => ~Live(id)
    /\ \A h \in Handlers : pc[h] = "cancel" =>
          \A id \in Ids(h) \ todo[h] : id \notin waiting_task_ids


\* the state of a thread changes by its own steps only
LEMMA ThreadStep ==
    ASSUME TypeInv, Next, NEW h \in Handlers
    PROVE  \/ pc'[h] = pc[h] /\ got'[h] = got[h] /\ todo'[h] = todo[h]
           \/ HttpRefuse(h) \/ HttpRegister(h) \/ HttpPost(h) \/ HttpStream(h) \/ HttpReceive(h)
           \/ HttpPoll(h) \/ HttpCancelRemove(h) \/ HttpCancelPost(h) \/ HttpFinish(h)
<1>0. /\ pc \in [Handlers -> {"start", "post", "stream", "recv", "cancel", "remove", "done"}]
      /\ got \in [Handlers -> SUBSET AllIds] /\ todo \in [Handlers -> SUBSET AllIds]
  BY DEF TypeInv, HttpType
<1>1. CASE MainNext \/ Quiescent \/ \E g \in Handlers : Disconnect(g)
  <2>1. UNCHANGED <<pc, got, todo>>
    BY <1>1, Zenon DEF MainNext, Quiescent, vars, MainPop, MainDrained, MainWake, DeferTask,
       LaunchSlotWithTask, RejectTask, ProcessNextResponse, ProcessControl,
       ProcessSlotAction, ProcessCancel, UpdateSlots, SampleToken, HasNextToken, Stop,
       PromptEnds, ReleaseSlot, DecodeFails, FailSlot, ReleaseFailed, httpVars, Disconnect
  <2> QED BY <2>1, Zenon
<1>2. ASSUME NEW g \in Handlers, HttpNext(g), g # h
      PROVE  pc'[h] = pc[h] /\ got'[h] = got[h] /\ todo'[h] = todo[h]
  <2>1. /\ UNCHANGED pc \/ \E l : pc' = [pc EXCEPT ![g] = l]
        /\ UNCHANGED got \/ \E x : got' = [got EXCEPT ![g] = x]
        /\ UNCHANGED todo \/ \E x : todo' = [todo EXCEPT ![g] = x]
    BY <1>2, Zenon
       DEF HttpNext, HttpRefuse, HttpRegister, HttpPost, HttpStream, HttpReceive, HttpPoll,
       HttpCancelRemove, HttpCancelPost, HttpFinish, StartCancel, Goto
  <2> QED BY <1>0, <1>2, <2>1, Zenon
<1>3. ASSUME HttpNext(h)
      PROVE  \/ HttpRefuse(h) \/ HttpRegister(h) \/ HttpPost(h) \/ HttpStream(h) \/ HttpReceive(h)
             \/ HttpPoll(h) \/ HttpCancelRemove(h) \/ HttpCancelPost(h) \/ HttpFinish(h)
  BY <1>3 DEF HttpNext
<1> QED BY <1>1, <1>2, <1>3 DEF Next

\* an id starts to be waited for when its thread registers
LEMMA WaitingGrows ==
    ASSUME TypeInv, Next, NEW h \in Handlers, NEW id \in Ids(h),
           id \in waiting_task_ids', id \notin waiting_task_ids
    PROVE  HttpRegister(h)
<1>0. scene \in DOMAIN Scenarios /\ \A g \in Handlers : id \in Ids(g) => g = h
  BY IdFacts DEF TypeInv
<1>1. CASE MainNext \/ Quiescent
  <2>1. waiting_task_ids' = waiting_task_ids
    BY <1>1, Zenon DEF MainNext, Quiescent, vars, MainPop, MainDrained, MainWake, DeferTask,
       LaunchSlotWithTask, RejectTask, ProcessNextResponse, ProcessControl,
       ProcessSlotAction, ProcessCancel, UpdateSlots, SampleToken, HasNextToken, Stop,
       PromptEnds, ReleaseSlot, DecodeFails, FailSlot, ReleaseFailed, responseVars, Send
  <2> QED BY <2>1, Zenon
<1>2. ASSUME NEW g \in Handlers, HttpNext(g) \/ Disconnect(g)
      PROVE  HttpRegister(g) \/ waiting_task_ids' \subseteq waiting_task_ids
  BY <1>2, Zenon
     DEF HttpNext, HttpRefuse, HttpPost, HttpStream, HttpReceive, HttpPoll, HttpCancelRemove,
     HttpCancelPost, HttpFinish, Disconnect, RemoveWaitingTaskId, RemoveWaitingTaskIds, Recv,
     responseVars
<1>3. ASSUME NEW g \in Handlers, HttpRegister(g) PROVE g = h
  BY <1>0, <1>3 DEF HttpRegister, AddWaiting
<1> QED BY <1>1, <1>2, <1>3 DEF Next

\* a task gets its results while it is live and waited for
LEMMA HeldStep ==
    ASSUME TypeInv, HomeInv, Next, NEW id \in AllIds, Held(queue_results', id)
    PROVE  \/ Held(queue_results, id)
           \/ Live(id) /\ id \in waiting_task_ids /\ waiting_task_ids' = waiting_task_ids
<1> DEFINE s == queue_results
<1> DEFINE r == queue_results'
<1>0. s \in Seq(Results)
  BY DEF TypeInv, ResponseType
<1>1. CASE UNCHANGED queue_results
  BY <1>1
<1>2. ASSUME NEW x, NEW kind, Speaks(x, kind), r # s, ~Held(s, id)
      PROVE  Live(id) /\ id \in waiting_task_ids /\ waiting_task_ids' = waiting_task_ids
  <2>1. /\ Live(x) /\ x \in waiting_task_ids /\ waiting_task_ids' = waiting_task_ids
        /\ r = Append(s, Result(x, kind)) /\ Result(x, kind).id = x
    BY <1>2 DEF Speaks, Send, Result
  <2>2. Result(x, kind) \in Results
    BY <1>2 DEF Speaks, Result, Results
  <2>3. \A i \in DOMAIN r : (i \in DOMAIN s /\ r[i] = s[i]) \/ r[i] = Result(x, kind)
    BY <1>0, <2>1, <2>2
  <2>4. x = id
    BY <1>2, <2>1, <2>3 DEF Held
  <2> QED BY <2>1, <2>4
<1>3. CASE Reads
  <2>1. PICK D : r \in Seq(Results) /\ Thinned(r, s, D)
    BY <1>3, ReadsThins, Zenon
  <2>2. \A i \in DOMAIN r : \E j \in DOMAIN s \ D : r[i] = s[j]
    BY <1>0, <2>1, ThinnedFacts
  <2> QED BY <2>2 DEF Held
<1> QED BY <1>1, <1>2, <1>3, SendStep

\* the results dropped with an id are all those of the id
LEMMA RemoveDrops ==
    ASSUME TypeInv, NEW id, RemoveWaitingTaskId(id) PROVE ~Held(queue_results', id)
<1> DEFINE s == queue_results
<1> DEFINE r == queue_results'
<1>0. s \in Seq(Results)
  BY DEF TypeInv, ResponseType
<1>1. r \in Seq(Results) /\ Thinned(r, s, {i \in DOMAIN s : s[i].id = id})
  BY <1>0, RemoveWaitingThins
<1>2. \A i \in DOMAIN r : \E j \in DOMAIN s \ {k \in DOMAIN s : s[k].id = id} : r[i] = s[j]
  BY <1>0, <1>1, ThinnedFacts, SMTT(20)
<1> QED BY <1>2 DEF Held

\* the thread of a task that receives its last result leaves no other behind
LEMMA LastReceived ==
    ASSUME TypeInv, ResultInv, NEW h \in Handlers, HttpReceive(h),
           queue_results[Oldest(Ids(h))].kind # "partial"
    PROVE  LET id == queue_results[Oldest(Ids(h))].id
           IN  ~Live(id) /\ ~Held(queue_results', id)
<1> DEFINE s == queue_results
<1> DEFINE r == queue_results'
<1> DEFINE o == Oldest(Ids(h))
<1> DEFINE id == s[o].id
<1>0. scene \in DOMAIN Scenarios /\ s \in Seq(Results)
  BY Zenon DEF TypeInv, ResponseType
<1>1. /\ o \in DOMAIN s /\ id \in Ids(h) /\ \A j \in 1 .. o - 1 : s[j].id \notin Ids(h)
      /\ r \in Seq(Results) /\ Thinned(r, s, {o})
  BY <1>0, OldestFacts, RecvThins, Zenon DEF HttpReceive, Recv
<1>2. id \in AllIds /\ Stops(s) /\ s[o].kind # "partial"
  BY <1>0, <1>1, IdFacts, ZenonT(30) DEF ResultInv, StopIsLast, Stops
<1>3. ~Live(id)
  BY <1>1, <1>2, Zenon DEF ResultInv, Final
<1> HIDE DEF o
<1>4. \A j \in DOMAIN s \ {o} : s[j].id # id
  <2> SUFFICES ASSUME NEW j \in DOMAIN s, j # o, s[j].id = id PROVE FALSE
    OBVIOUS
  <2>1. j \in Nat /\ o \in Nat /\ j >= 1
    <3>1. DOMAIN s = 1 .. Len(s) /\ Len(s) \in Nat
      <4> HIDE DEF s
      <4> QED BY <1>0
    <3>2. \A n \in Nat : \A x \in 1 .. n : x \in Nat /\ x >= 1
      OBVIOUS
    <3>3. j \in 1 .. Len(s) /\ o \in 1 .. Len(s)
      BY <1>1, <3>1, ZenonT(30)
    <3> QED BY <3>1, <3>2, <3>3, Zenon
  <2>2. CASE j < o
    <3>1. j \in 1 .. o - 1
      BY <2>1, <2>2
    <3> QED BY <1>1, <3>1
  <2>3. CASE o < j
    BY <1>1, <1>2, <2>3, ZenonT(30) DEF Stops
  <2> QED BY <2>1, <2>2, <2>3
<1>5. \A i \in DOMAIN r : \E j \in DOMAIN s \ {o} : r[i] = s[j]
  <2>1. s \in Seq(Results) /\ r \in Seq(Results) /\ Thinned(r, s, {o})
    BY <1>0, <1>1, Zenon
  <2> HIDE DEF s, r
  <2> QED BY <2>1, ThinnedFacts, SMTT(20)
<1>6. ~Held(r, id)
  BY <1>4, <1>5, Zenon DEF Held
<1> QED BY <1>3, <1>6 DEF o


\* one step of the argument that no result is left without a reader
LEMMA WaitStep ==
    ASSUME NoStreamCloses, TypeInv, HomeInv, CancelInv, ResultInv, WaitInv, Next
    PROVE  WaitInv'
<1> DEFINE s == queue_results
<1> DEFINE r == queue_results'
<1>0. /\ scene \in DOMAIN Scenarios /\ scene' = scene /\ Request' = Request
      /\ AllIds' = AllIds /\ \A h \in Handlers : Ids(h)' = Ids(h) /\ Ids(h) \subseteq AllIds
      /\ \A h \in Handlers : IsControl(h)' <=> IsControl(h)
      /\ \A h \in Handlers : IsControl(h) => Ids(h) = {<<h, 1>>}
      /\ \A h, g \in Handlers : \A id \in Ids(h) : id \in Ids(g) => g = h
      /\ \A id \in AllIds : \E h \in Handlers : id \in Ids(h)
  BY IdsFixed, IdFacts, Zenon
     DEF Next, MainNext, HttpNext, Disconnect, Quiescent, vars, TypeInv, Request
<1>1. /\ pc \in [Handlers -> {"start", "post", "stream", "recv", "cancel", "remove", "done"}]
      /\ got \in [Handlers -> SUBSET AllIds] /\ todo \in [Handlers -> SUBSET AllIds]
      /\ closed \in [Handlers -> BOOLEAN]
      /\ \A h \in Handlers : got[h] \subseteq Ids(h) /\ todo[h] \subseteq Ids(h)
      /\ s \in Seq(Results)
  BY DEF TypeInv, HttpType, ResponseType
<1>2. ASSUME NEW h \in Handlers, NEW id \in Ids(h), Live(id)', pc[h] # "post" PROVE Live(id)
  <2>1. id \in AllIds /\ \A g \in Handlers : id \in Ids(g) => g = h
    BY <1>0
  <2>2. Live(id) \/ \E g \in Handlers : HttpPost(g) /\ id \in Ids(g)
    BY <1>2, <2>1, LiveStep, Zenon
  <2>3. \A g \in Handlers : HttpPost(g) => pc[g] = "post"
    BY ZenonT(30) DEF HttpPost
  <2> QED BY <1>2, <2>1, <2>2, <2>3, ZenonT(30)
<1>3. \A id \in AllIds : Held(s, id) => id \in waiting_task_ids
  BY DEF WaitInv, ResultsHaveWaiters, Held
\* results have readers
<1>4. ResultsHaveWaiters'
  <2> SUFFICES ASSUME NEW i \in DOMAIN r, r[i].id \notin waiting_task_ids' PROVE FALSE
    BY DEF ResultsHaveWaiters
  <2>0. r \in Seq(Results)
    BY <1>0, ResponseTypeStep, IdsFixed DEF ResponseType
  <2>10. r[i] \in Results
    BY <2>0
  <2>1. PICK id \in AllIds : id = r[i].id
    BY <2>10 DEF Results
  <2>2. Held(r, id) /\ id \notin waiting_task_ids'
    BY <2>1 DEF Held
  <2>3. Held(s, id) /\ id \in waiting_task_ids
    BY <1>3, <2>2, HeldStep
  <2>4. PICK h \in Handlers : id \in Ids(h)
    BY <1>0
  <2>5. HttpCancelRemove(h) \/ HttpFinish(h)
    BY <2>2, <2>3, <2>4, WaitingStep
  <2>6. CASE RemoveWaitingTaskId(id)
    BY <2>2, <2>6, RemoveDrops
  <2>7. CASE HttpCancelRemove(h)
    <3>1. PICK x \in todo[h] : RemoveWaitingTaskId(x)
      BY <2>7 DEF HttpCancelRemove
    <3>2. x = id
      BY <2>2, <2>3, <3>1 DEF RemoveWaitingTaskId
    <3> QED BY <2>6, <3>1, <3>2
  <2>8. CASE HttpFinish(h) /\ IsControl(h)
    <3>1. id = <<h, 1>> /\ RemoveWaitingTaskId(<<h, 1>>)
      BY <1>0, <2>4, <2>8, SMTT(20) DEF HttpFinish
    <3> QED BY <2>6, <3>1
  <2>9. CASE HttpFinish(h) /\ ~IsControl(h)
    BY <2>3, <2>4, <2>9, Zenon DEF WaitInv, HttpFinish
  <2> QED BY <2>5, <2>7, <2>8, <2>9
\* what is fixed about a thread
<1>5. ASSUME NEW h \in Handlers
      PROVE  /\ closed'[h] => Request[h].mayClose
             /\ pc'[h] = "stream" => Request[h].stream
             /\ pc'[h] \in {"start", "post"} => got'[h] = {}
  <2>1. closed'[h] = closed[h] \/ Request[h].mayClose
    <3>1. CASE UNCHANGED closed
      BY <3>1
    <3>2. ASSUME NEW g \in Handlers, Disconnect(g) PROVE closed'[h] = closed[h] \/ Request[h].mayClose
      BY <1>1, <3>2, Zenon DEF Disconnect
    <3>3. UNCHANGED closed \/ \E g \in Handlers : Disconnect(g)
      BY Zenon DEF Next, MainNext, Quiescent, vars, MainPop, MainDrained, MainWake, DeferTask,
         LaunchSlotWithTask, RejectTask, ProcessNextResponse, ProcessControl,
         ProcessSlotAction, ProcessCancel, UpdateSlots, SampleToken, HasNextToken, Stop,
         PromptEnds, ReleaseSlot, DecodeFails, FailSlot, ReleaseFailed, httpVars,
         HttpNext, HttpRefuse, HttpRegister, HttpPost, HttpStream, HttpReceive, HttpPoll,
         HttpCancelRemove, HttpCancelPost, HttpFinish
    <3> QED BY <3>1, <3>2, <3>3, Zenon
  <2>2. closed'[h] => Request[h].mayClose
    BY <2>1, Zenon DEF WaitInv
  <2>3. pc'[h] = "stream" => pc[h] = "stream" \/ Request[h].stream
    BY <1>1, ThreadStep, Zenon
       DEF HttpRefuse, HttpRegister, HttpPost, HttpStream, HttpReceive, HttpPoll,
         HttpCancelRemove, HttpCancelPost, HttpFinish, StartCancel, Goto
  <2>4. pc'[h] \in {"start", "post"} => got'[h] = got[h] /\ pc[h] \in {"start", "post"}
    BY <1>1, ThreadStep, Zenon
       DEF HttpRefuse, HttpRegister, HttpPost, HttpStream, HttpReceive, HttpPoll,
         HttpCancelRemove, HttpCancelPost, HttpFinish, StartCancel, Goto
  <2> QED BY <2>2, <2>3, <2>4, Zenon DEF WaitInv
\* what has been counted
<1>6. ASSUME NEW h \in Handlers, ~IsControl(h), NEW id \in got'[h]
      PROVE  ~Live(id)' /\ ~Held(r, id)
  <2>1. CASE id \in got[h]
    <3>1. id \in Ids(h) /\ id \in AllIds /\ pc[h] # "post" /\ ~Live(id) /\ ~Held(s, id)
      BY <1>0, <1>1, <1>6, <2>1, Zenon DEF WaitInv
    <3> QED BY <1>2, <3>1, HeldStep, Zenon
  <2>2. CASE id \notin got[h]
    <3>1. /\ HttpReceive(h) /\ pc[h] = "recv" /\ id = s[Oldest(Ids(h))].id
          /\ s[Oldest(Ids(h))].kind = "final"
      <4>1. HttpReceive(h)
        BY <1>6, <2>2, ThreadStep, Zenon
           DEF HttpRefuse, HttpRegister, HttpPost, HttpStream, HttpPoll,
           HttpCancelRemove, HttpCancelPost, HttpFinish, StartCancel
      <4>2. /\ s[Oldest(Ids(h))].kind = "final"
            /\ got' = [got EXCEPT ![h] = @ \cup {s[Oldest(Ids(h))].id}]
        BY <1>6, <2>2, <4>1, Zenon DEF HttpReceive, StartCancel
      <4>3. id = s[Oldest(Ids(h))].id
        BY <1>1, <1>6, <2>2, <4>2, Zenon
      <4> QED BY <4>1, <4>2, <4>3, Zenon DEF HttpReceive
    <3>2. id \in Ids(h) /\ ~Live(id) /\ ~Held(r, id)
      BY <1>1, <3>1, LastReceived, OldestFacts, Zenon DEF HttpReceive, Recv
    <3> QED BY <1>2, <3>1, <3>2, Zenon
  <2> QED BY <2>1, <2>2, Zenon
\* a thread about to finish
<1>7. ASSUME NEW h \in Handlers, ~IsControl(h), pc'[h] = "remove", NEW id \in Ids(h)
      PROVE  ~Held(r, id) /\ (id \in waiting_task_ids' => ~Live(id)')
  <2>0. id \in AllIds
    BY <1>0
  <2>1. CASE pc[h] = "remove"
    <3>1. ~Held(s, id) /\ (id \in waiting_task_ids => ~Live(id))
      BY <1>7, <2>1 DEF WaitInv
    <3>2. id \in waiting_task_ids' => id \in waiting_task_ids
      BY <2>1, WaitingGrows, Zenon DEF HttpRegister
    <3> QED BY <1>2, <2>0, <2>1, <3>1, <3>2, HeldStep, Zenon
  <2>2. CASE HttpStream(h)
    <3>1. closed[h] /\ pc[h] = "stream"
      BY <1>1, <1>7, <2>2, Zenon DEF HttpStream, Goto
    <3>2. Request[h].mayClose /\ Request[h].stream
      BY <3>1, Zenon DEF WaitInv
    <3> QED BY <1>0, <3>2 DEF NoStreamCloses, Request
  <2>3. CASE HttpReceive(h)
    <3>1. got'[h] = Ids(h)
      BY <1>1, <1>7, <2>3 DEF HttpReceive, StartCancel, Goto
    <3> QED BY <1>6, <1>7, <3>1, ZenonT(30)
  <2>4. CASE HttpCancelPost(h)
    <3>1. id \notin waiting_task_ids /\ UNCHANGED responseVars
      BY <2>4, Zenon DEF WaitInv, HttpCancelPost
    <3> QED BY <1>3, <2>0, <3>1, Zenon DEF responseVars
  <2> QED
    BY <1>1, <1>7, <2>1, <2>2, <2>3, <2>4, ThreadStep, Zenon
       DEF HttpRefuse, HttpRegister, HttpPost, HttpPoll,
       HttpCancelRemove, HttpFinish, StartCancel, Goto
\* a thread that cancels its tasks
<1>8. ASSUME NEW h \in Handlers, pc'[h] = "cancel", NEW id \in Ids(h), id \notin todo'[h]
      PROVE  id \notin waiting_task_ids'
  <2>1. CASE pc[h] = "cancel" /\ id \notin todo[h]
    <3>1. id \notin waiting_task_ids
      BY <2>1 DEF WaitInv
    <3> QED BY <2>1, <3>1, WaitingGrows, Zenon DEF HttpRegister
  <2>2. CASE pc[h] = "cancel" /\ id \in todo[h]
    <3>1. HttpCancelRemove(h)
      BY <1>1, <1>8, <2>2, ThreadStep, Zenon
         DEF HttpRefuse, HttpRegister, HttpPost, HttpStream, HttpReceive, HttpPoll,
         HttpCancelPost, HttpFinish, Goto
    <3>2. PICK x \in todo[h] : RemoveWaitingTaskId(x) /\ todo' = [todo EXCEPT ![h] = @ \ {x}]
      BY <3>1, Zenon DEF HttpCancelRemove
    <3>3. x = id
      BY <1>1, <1>8, <2>2, <3>2
    <3> QED BY <3>2, <3>3, Zenon DEF RemoveWaitingTaskId
  <2>3. CASE pc[h] # "cancel"
    <3>1. StartCancel(h)
      BY <1>1, <1>8, <2>3, ThreadStep, Zenon
         DEF HttpRefuse, HttpRegister, HttpPost, HttpStream, HttpReceive, HttpPoll,
         HttpCancelRemove, HttpCancelPost, HttpFinish, Goto
    <3>2. todo'[h] = Ids(h)
      BY <1>1, <3>1, Zenon DEF StartCancel
    <3> QED BY <1>8, <3>2, Zenon
  <2> QED BY <2>1, <2>2, <2>3, Zenon
<1>9. \A h \in Handlers : /\ closed'[h] => Request'[h].mayClose
                          /\ pc'[h] = "stream" => Request'[h].stream
                          /\ pc'[h] \in {"start", "post"} => got'[h] = {}
  BY <1>0, <1>5, Zenon
<1>10. /\ \A h \in Handlers : ~IsControl(h)' =>
            \A id \in got'[h] : ~Live(id)' /\ ~Held(queue_results', id)
       /\ \A h \in Handlers : ~IsControl(h)' /\ pc'[h] = "remove" =>
            \A id \in Ids(h)' : /\ ~Held(queue_results', id)
                                /\ id \in waiting_task_ids' => ~Live(id)'
  <2>1. ASSUME NEW h \in Handlers, ~IsControl(h)', NEW id \in got'[h]
        PROVE  ~Live(id)' /\ ~Held(queue_results', id)
    <3>1. ~IsControl(h)
      BY <1>0, <2>1, Zenon
    <3> QED BY <1>6, <2>1, <3>1, Zenon
  <2>2. ASSUME NEW h \in Handlers, ~IsControl(h)', pc'[h] = "remove", NEW id \in Ids(h)'
        PROVE  ~Held(queue_results', id) /\ (id \in waiting_task_ids' => ~Live(id)')
    <3>1. ~IsControl(h) /\ id \in Ids(h)
      BY <1>0, <2>2, ZenonT(30)
    <3> QED BY <1>7, <2>2, <3>1, Zenon
  <2> QED BY <2>1, <2>2, Zenon
<1>11. \A h \in Handlers : pc'[h] = "cancel" =>
         \A id \in Ids(h)' \ todo'[h] : id \notin waiting_task_ids'
  BY <1>0, <1>8
<1> QED BY <1>4, <1>9, <1>10, <1>11, ZenonT(30) DEF WaitInv

\* If no streaming client disconnects, every queued result has somebody waiting
\* for it (ResultsHaveWaiters): remove_waiting_task_ids, which does not clean the
\* queue, is called only when no result of its tasks is there or can come.
THEOREM ResultsHaveWaitersHolds ==
    ASSUME NoStreamCloses PROVE Spec => []ResultsHaveWaiters
<1>1. Init => WaitInv
  <2> SUFFICES ASSUME Init PROVE WaitInv
    OBVIOUS
  <2>1. \A id : ~Held(<<>>, id)
    BY DEF Held
  <2> QED BY <2>1 DEF Init, WaitInv, ResultsHaveWaiters
<1>2. ASSUME TypeInv, HomeInv, CancelInv, ResultInv, WaitInv, Next PROVE WaitInv'
  BY <1>2, WaitStep, Zenon
<1>3. ASSUME WaitInv, UNCHANGED vars PROVE WaitInv'
  <2>0. Request' = Request
    BY <1>3 DEF vars, Request
  <2>1. UNCHANGED <<scene, pc, got, todo, closed, waiting_task_ids, queue_results>>
    BY <1>3 DEF vars, responseVars, httpVars
  <2>2. \A h \in Handlers : Ids(h)' = Ids(h) /\ (IsControl(h)' <=> IsControl(h))
    BY <2>1, IdsFixed
  <2>3. \A id : Live(id)' <=> Live(id)
    BY <1>3 DEF vars, queueVars, mainVars, Live, InHands, Releasing, Slots
  <2>4. ResultsHaveWaiters'
    BY <1>3, <2>1, Zenon DEF ResultsHaveWaiters, WaitInv
  <2> QED BY <1>3, <2>0, <2>1, <2>2, <2>3, <2>4, Zenon DEF WaitInv
<1>4. WaitInv => ResultsHaveWaiters
  BY DEF WaitInv
<1> QED BY <1>1, <1>2, <1>3, <1>4, TypeInvariance, HomeInvariance, CancelInvariance,
           ResultInvariance, PTL DEF Spec


-----------------------------------------------------------------------------
(***************************************************************************)
(* The main thread blocks only when there is nothing to do                 *)
(***************************************************************************)
\* every iteration that finds a busy slot leaves a NEXT_RESPONSE behind
WakeInv ==
    Advancing \/ (mpc = "wait" /\ Busy # {}) => NextResponse \in Range(queue_tasks)

\* each request is one task, which every slot the request names can run and for
\* which its client waits to the end
Runnable ==
    \A c \in DOMAIN Scenarios, h \in Handlers :
        LET r == Scenarios[c][h]
        IN  /\ r.type # "SLOT_ACTION" /\ r.n = 1 /\ r.valid /\ ~r.mayClose
            /\ r.id_slot = AnySlot \/ r.id_slot \in Slots

Infers(t) == t.type \in InferenceTypes

\* deferred tasks are those of inference, and one that can take a slot, or a slot
\* that will be released, is ahead of them
WorkInv ==
    /\ \A t \in Range(queue_tasks) \cup Range(queue_tasks_deferred) \cup {mtask} :
          t.type # "SLOT_ACTION"
    /\ \A t \in Range(queue_tasks_deferred) : Infers(t)
    /\ queue_tasks_deferred # <<>> => \/ Busy # {}
                                      \/ \E t \in Range(queue_tasks) : Infers(t)
                                      \/ mpc = "process" /\ Infers(mtask)
    /\ \A h \in Handlers : ~closed[h]
    /\ \A h \in Handlers : pc[h] = "cancel" => \A id \in Ids(h) : ~Live(id)


\* NEXT_RESPONSE stays queued until start_loop takes it
LEMMA WakeStep ==
    ASSUME TypeInv, WakeInv, Next PROVE WakeInv'
<1> DEFINE q == queue_tasks
<1> DEFINE In(s) == NextResponse \in Range(s)
<1>0. /\ scene \in DOMAIN Scenarios /\ q \in Seq(Tasks) /\ queue_tasks_deferred \in Seq(Tasks)
      /\ NoId \notin AllIds /\ NextResponse.id = NoId /\ NextResponse' = NextResponse
      /\ \A h \in Handlers : Ids(h) \subseteq AllIds
  BY IdFacts, NextResponseFacts DEF TypeInv, QueueType, NextResponse
<1>1. ASSUME mpc' \in {"pop", "process", "update"} PROVE WakeInv'
  BY <1>1, Zenon DEF WakeInv, Advancing, Releasing
<1>3. ASSUME In(q') PROVE WakeInv'
  BY <1>0, <1>3 DEF WakeInv
<1>4. ASSUME UNCHANGED q, Advancing PROVE WakeInv'
  BY <1>3, <1>4, Zenon DEF WakeInv
<1> HIDE DEF In
<1>5. CASE MainPop \/ MainDrained \/ MainWake \/ DeferTask \/ LaunchSlotWithTask \/ RejectTask
           \/ ProcessNextResponse \/ ProcessControl \/ ProcessSlotAction \/ ProcessCancel
  BY <1>1, <1>5, Zenon
     DEF MainPop, MainDrained, MainWake, DeferTask, LaunchSlotWithTask, RejectTask,
     ProcessNextResponse, ProcessControl, ProcessSlotAction, ProcessCancel, BackToLoop
<1>6. CASE UpdateSlots
  <2>1. CASE Busy = {}
    <3>1. mpc' = "wait" /\ Busy' = {}
      BY <1>6, <2>1 DEF UpdateSlots, Busy, Slots
    <3> QED BY <3>1, Zenon DEF WakeInv, Advancing, Releasing
  <2>2. CASE Post(<<NextResponse>>, FALSE)
    <3>1. <<NextResponse>> \in Seq(Tasks) /\ Range(<<NextResponse>>) = {NextResponse}
      BY OneIds, NextResponseFacts
    <3>2. {} = {t.target : t \in Range(<<NextResponse>>)} \ {NoId}
      BY <3>1, NextResponseFacts, Zenon
    <3>3. In(q')
      BY <1>0, <2>2, <3>1, <3>2, PostIds, Zenon DEF In
    <3> QED BY <1>3, <3>3
  <2> QED BY <1>6, <2>1, <2>2, ZenonT(30) DEF UpdateSlots
<1>7. CASE SampleToken \/ HasNextToken \/ Stop \/ PromptEnds \/ DecodeFails \/ FailSlot
  BY <1>4, <1>7, Zenon
     DEF SampleToken, HasNextToken, Stop, PromptEnds, DecodeFails, FailSlot, queueVars,
     Advancing
<1>8. CASE ReleaseSlot \/ ReleaseFailed
  <2>1. In(q) /\ PopDeferredTask
    BY <1>8, Zenon DEF ReleaseSlot, ReleaseFailed, Release, WakeInv, Advancing, Releasing, In
  <2>2. In(q')
    BY <1>0, <2>1, PopIds DEF In
  <2> QED BY <1>3, <2>2
<1>9. ASSUME UNCHANGED <<mpc, slot_task>>, In(q) => In(q') PROVE WakeInv'
  <2>1. Busy' = Busy /\ (Advancing' <=> Advancing)
    BY <1>9 DEF Busy, Slots, Advancing, Releasing
  <2> QED BY <1>0, <1>9, <2>1 DEF WakeInv, In
<1>10. ASSUME NEW h \in Handlers, HttpPost(h) PROVE WakeInv'
  <2>1. UNCHANGED <<mpc, slot_task>> /\ \E front : Post(TasksOf(h), front)
    BY <1>10, ZenonT(30) DEF HttpPost, mainVars
  <2>2. TasksOf(h) \in Seq(Tasks) /\ \A t \in Range(TasksOf(h)) : t.target = NoId
    BY <1>0, TasksOfFacts
  <2>3. {} = {t.target : t \in Range(TasksOf(h))} \ {NoId}
    BY <2>2, Zenon
  <2>4. In(q) => In(q')
    BY <1>0, <2>1, <2>2, <2>3, PostIds, Zenon DEF In
  <2> QED BY <1>9, <2>1, <2>4, Zenon
<1>11. ASSUME NEW h \in Handlers, HttpCancelPost(h) PROVE WakeInv'
  <2>1. UNCHANGED <<mpc, slot_task>> /\ Post(CancelsOf(h), TRUE)
    BY <1>11, Zenon DEF HttpCancelPost, mainVars, CancelsOf
  <2>2. CancelsOf(h) \in Seq(Tasks) /\ {t.target : t \in Range(CancelsOf(h))} \ {NoId} = Ids(h)
    BY <1>0, CancelsOfFacts, Zenon
  <2>3. In(q) => In(q')
    BY <1>0, <2>1, <2>2, PostIds, Zenon DEF In
  <2> QED BY <1>9, <2>1, <2>3, Zenon
<1>12. ASSUME NEW h \in Handlers,
              HttpRefuse(h) \/ HttpRegister(h) \/ HttpStream(h) \/ HttpReceive(h)
              \/ HttpPoll(h) \/ HttpCancelRemove(h) \/ HttpFinish(h) \/ Disconnect(h)
       PROVE  WakeInv'
  <2>1. UNCHANGED <<queue_tasks, mpc, slot_task>>
    BY <1>12, Zenon
       DEF HttpRefuse, HttpRegister, HttpStream, HttpReceive, HttpPoll, HttpCancelRemove,
       HttpFinish, Disconnect, mainVars, queueVars
  <2> QED BY <1>9, <2>1
<1>13. CASE Quiescent
  <2>1. UNCHANGED <<queue_tasks, mpc, slot_task>>
    BY <1>13 DEF Quiescent, vars, mainVars, queueVars
  <2> QED BY <1>9, <2>1
<1> QED BY <1>5, <1>6, <1>7, <1>8, <1>10, <1>11, <1>12, <1>13, Zenon
           DEF Next, MainNext, HttpNext

\* While a slot works a NEXT_RESPONSE is queued whenever the main thread goes to
\* wait, so it never sleeps over a busy slot, whatever the requests are.
THEOREM WakeInvariance ==
    Spec => [](mpc = "wait" /\ queue_tasks = <<>> => Busy = {})
<1>1. Init => WakeInv
  BY DEF Init, WakeInv, Advancing, Releasing
<1>2. ASSUME TypeInv, WakeInv, Next PROVE WakeInv'
  BY <1>2, WakeStep
<1>3. ASSUME WakeInv, UNCHANGED vars PROVE WakeInv'
  BY <1>3, Zenon
     DEF WakeInv, vars, queueVars, mainVars, Advancing, Releasing, Busy, Slots, NextResponse
<1>4. WakeInv => (mpc = "wait" /\ queue_tasks = <<>> => Busy = {})
  BY DEF WakeInv, Range
<1> QED BY <1>1, <1>2, <1>3, <1>4, TypeInvariance, PTL DEF Spec


\* one step of the argument that no deferred task is forgotten
LEMMA WorkStep ==
    ASSUME Runnable, TypeInv, HomeInv, CancelInv, ResultInv, WorkInv, Next
    PROVE  WorkInv'
<1> DEFINE q == queue_tasks
<1> DEFINE d == queue_tasks_deferred
<1> DEFINE Queued == \E t \in Range(q) : Infers(t)
<1> DEFINE Ahead == Busy # {} \/ Queued \/ (mpc = "process" /\ Infers(mtask))
<1> DEFINE Goal == /\ \A t \in Range(d') : Infers(t)
                   /\ d' # <<>> => Ahead'
<1>0. /\ scene \in DOMAIN Scenarios /\ scene' = scene /\ NoId \notin AllIds
      /\ \A h \in Handlers : Ids(h)' = Ids(h) /\ Ids(h) \subseteq AllIds
      /\ \A id \in AllIds : \E h \in Handlers : id \in Ids(h)
      /\ \A h, g \in Handlers : \A id \in Ids(h) : id \in Ids(g) => g = h
      /\ q \in Seq(Tasks) /\ d \in Seq(Tasks) /\ mtask \in Tasks
      /\ slot_task \in [Slots -> AllIds \cup {NoId}]
  BY IdsFixed, IdFacts, Zenon
     DEF Next, MainNext, HttpNext, Disconnect, Quiescent, vars, TypeInv, QueueType, MainType
<1>1. \A h \in Handlers : /\ Request[h].type # "SLOT_ACTION" /\ Request[h].n = 1
                          /\ Request[h].valid /\ ~Request[h].mayClose
                          /\ Request[h].id_slot = AnySlot \/ Request[h].id_slot \in Slots
  BY <1>0, Zenon DEF Runnable, Request
<1>2. /\ \A t \in Range(d) : Infers(t)
      /\ d # <<>> => Ahead
      /\ mtask.type # "SLOT_ACTION"
  BY Zenon DEF WorkInv
<1>3. \A id \in AllIds : RequestOf(id).valid /\ SlotsFor(id) # {} /\ SlotsFor(id) \subseteq Slots
  <2> TAKE id \in AllIds
  <2>1. PICK h \in Handlers : id \in Ids(h)
    BY <1>0
  <2>2. id[1] = h
    BY <2>1 DEF Ids
  <2>3. RequestOf(id) = Request[h]
    BY <2>2 DEF RequestOf
  <2>4. Slots # {}
    BY RequestAssumption DEF Slots
  <2> QED BY <1>1, <2>1, <2>3, <2>4 DEF SlotsFor
\* no task is an action on a slot
<1>4. ASSUME NEW t \in Range(q') \cup Range(d') \cup {mtask'} PROVE t.type # "SLOT_ACTION"
  <2>1. CASE t \in Range(q) \cup Range(d) \cup {mtask, NextResponse}
    BY <2>1, NextResponseFacts, Zenon DEF WorkInv
  <2>2. ASSUME NEW h \in Handlers, t \in Range(TasksOf(h)) PROVE t.type # "SLOT_ACTION"
    <3>1. scene \in DOMAIN Scenarios /\ Request[h].type # "SLOT_ACTION"
      BY <1>0, <1>1, Zenon
    <3> QED BY <2>2, <3>1, TasksOfFacts, Zenon
  <2>3. ASSUME NEW h \in Handlers, t \in Range(CancelsOf(h)) PROVE t.type # "SLOT_ACTION"
    BY <1>0, <2>3, CancelsOfFacts, Zenon
  <2> QED BY <1>4, <2>1, <2>2, <2>3, TasksStep, Zenon
\* the clients stay
<1>5. ASSUME NEW h \in Handlers PROVE ~closed'[h]
  <2>1. ASSUME NEW g \in Handlers, Disconnect(g) PROVE FALSE
    BY <1>1, <2>1, ZenonT(30) DEF Disconnect
  <2>2. UNCHANGED closed \/ \E g \in Handlers : Disconnect(g)
    BY Zenon DEF Next, MainNext, Quiescent, vars, MainPop, MainDrained, MainWake, DeferTask,
       LaunchSlotWithTask, RejectTask, ProcessNextResponse, ProcessControl,
       ProcessSlotAction, ProcessCancel, UpdateSlots, SampleToken, HasNextToken, Stop,
       PromptEnds, ReleaseSlot, DecodeFails, FailSlot, ReleaseFailed, httpVars,
       HttpNext, HttpRefuse, HttpRegister, HttpPost, HttpStream, HttpReceive, HttpPoll,
       HttpCancelRemove, HttpCancelPost, HttpFinish
  <2> QED BY <2>1, <2>2, Zenon DEF WorkInv
\* a thread cancels a task that has failed
<1>6. ASSUME NEW h \in Handlers, pc'[h] = "cancel", NEW id \in Ids(h) PROVE ~Live(id)'
  <2>0. pc \in [Handlers -> {"start", "post", "stream", "recv", "cancel", "remove", "done"}]
    BY Zenon DEF TypeInv, HttpType
  <2>1. ASSUME ~Live(id), pc[h] # "post" PROVE ~Live(id)'
    BY <1>0, <2>1, LiveStep, Zenon DEF HttpPost
  <2>2. CASE pc[h] = "cancel"
    BY <2>1, <2>2, Zenon DEF WorkInv
  <2>3. CASE pc[h] # "cancel"
    <3>1. /\ HttpReceive(h) /\ pc[h] = "recv"
          /\ queue_results[Oldest(Ids(h))].kind = "error"
      <4>1. ~closed[h]
        BY Zenon DEF WorkInv
      <4>2. HttpReceive(h)
        BY <1>6, <2>0, <2>3, <4>1, ThreadStep, Zenon
           DEF HttpRefuse, HttpRegister, HttpPost, HttpStream, HttpPoll,
           HttpCancelRemove, HttpCancelPost, HttpFinish, StartCancel, Goto
      <4> QED BY <1>6, <2>0, <2>3, <4>1, <4>2, Zenon DEF HttpReceive, StartCancel, Goto
    <3>2. queue_results \in Seq(Results) /\ Available(Ids(h))
      BY <3>1, Zenon DEF TypeInv, ResponseType, HttpReceive, Recv
    <3>3. queue_results[Oldest(Ids(h))].id \in Ids(h)
      BY <3>2, OldestFacts, Zenon
    <3>4. queue_results[Oldest(Ids(h))].id = id
      BY <1>1, <3>3, SMTT(20) DEF Ids
    <3>5. ~Live(id)
      BY <3>1, <3>4, LastReceived, ZenonT(30)
    <3> QED BY <2>1, <3>1, <3>5, Zenon
  <2> QED BY <2>2, <2>3
<1> SUFFICES Goal
  <2>1. \A h \in Handlers : pc'[h] = "cancel" => \A id \in Ids(h)' : ~Live(id)'
    BY <1>0, <1>6
  <2> QED BY <1>4, <1>5, <2>1 DEF WorkInv
\* the deferred tasks, step by step
<1>7. ASSUME UNCHANGED <<queue_tasks, queue_tasks_deferred, slot_task>>,
             mpc = "process" => mpc' = "process" /\ mtask' = mtask
      PROVE  Goal
  BY <1>2, <1>7 DEF Busy, Slots
<1>8. ASSUME PopDeferredTask PROVE Goal
  <2>1. /\ Range(d') \subseteq Range(d)
        /\ d # <<>> => \E e \in Range(d) : e \in Range(q')
    BY <1>0, <1>8, PopIds
  <2>2. d = <<>> => d' = <<>>
    BY <1>8 DEF PopDeferredTask, queueVars
  <2> QED BY <1>2, <2>1, <2>2, Zenon
<1>9. ASSUME mtask.type \notin InferenceTypes, UNCHANGED <<queue_tasks, queue_tasks_deferred, slot_task>>
      PROVE  Goal
  BY <1>2, <1>9 DEF Busy, Slots, Infers
<1>10. CASE MainPop
  <2>1. /\ q # <<>> /\ q' = Tail(q) /\ d' = d /\ slot_task' = slot_task /\ mpc # "process"
        /\ mpc' = "process" /\ mtask' = Head(q)
    BY <1>10 DEF MainPop, TakeFront
  <2>2. Range(q) \subseteq Range(q') \cup {Head(q)}
    <3> SUFFICES ASSUME NEW i \in DOMAIN q PROVE q[i] \in Range(Tail(q)) \cup {Head(q)}
      BY <2>1 DEF Range
    <3>1. CASE i = 1
      BY <1>0, <2>1, <3>1, SMTT(20)
    <3>2. CASE i # 1
      <4>1. i - 1 \in DOMAIN Tail(q) /\ Tail(q)[i - 1] = q[i]
        BY <1>0, <2>1, <3>2, SMTT(20)
      <4> QED BY <4>1 DEF Range
    <3> QED BY <3>1, <3>2
  <2> QED BY <1>2, <2>1, <2>2 DEF Busy, Slots
<1>11. CASE MainDrained \/ MainWake \/ SampleToken \/ HasNextToken \/ Stop \/ PromptEnds
            \/ DecodeFails \/ FailSlot
  BY <1>7, <1>11, Zenon DEF MainDrained, MainWake, SampleToken, HasNextToken, Stop, PromptEnds,
     DecodeFails, FailSlot, queueVars
<1>12. CASE DeferTask
  <2>1. /\ mtask.type \in InferenceTypes /\ SlotsFor(mtask.id) \cap Idle = {}
        /\ d' = d \o <<mtask>> /\ slot_task' = slot_task
    BY <1>0, <1>12, AppendIsConcat, ZenonT(30) DEF DeferTask, Processing, Defer
  <2>2. mtask.id \in AllIds
    BY <1>0, <2>1, TaskFacts
  <2>3. Busy # {}
    BY <1>3, <2>1, <2>2 DEF Idle
  <2>4. <<mtask>> \in Seq(Tasks) /\ Range(<<mtask>>) = {mtask}
    BY <1>0, OneIds
  <2>5. Range(d') = Range(d) \cup {mtask}
    <3>1. Range(d \o <<mtask>>) = Range(d) \cup Range(<<mtask>>)
      BY <1>0, <2>4, ConcatIds, ZenonT(30)
    <3> QED BY <2>1, <2>4, <3>1
  <2>6. Busy' = Busy
    BY <2>1 DEF Busy, Slots
  <2> QED BY <1>2, <2>1, <2>3, <2>5, <2>6, Zenon DEF Infers
<1>13. CASE LaunchSlotWithTask
  <2>1. /\ d' = d /\ mtask.type \in InferenceTypes
        /\ \E s \in Idle : slot_task' = [slot_task EXCEPT ![s] = mtask.id]
    BY <1>13, Zenon DEF LaunchSlotWithTask, queueVars, Processing
  <2>2. mtask.id \in AllIds
    BY <1>0, <2>1, TaskFacts
  <2>3. PICK s \in Idle : slot_task' = [slot_task EXCEPT ![s] = mtask.id]
    BY <2>1, Zenon
  <2>4. s \in Slots /\ slot_task'[s] = mtask.id
    BY <1>0, <2>3 DEF Idle
  <2>5. Busy' # {}
    BY <1>0, <2>2, <2>4, Zenon DEF Busy, Slots
  <2> QED BY <1>2, <2>1, <2>5
<1>14. CASE RejectTask
  <2>1. mtask.type \in InferenceTypes /\ ~RequestOf(mtask.id).valid
    BY <1>14 DEF RejectTask, Processing
  <2> QED BY <1>0, <1>3, <2>1, TaskFacts, Zenon
<1>15. CASE ProcessNextResponse \/ ProcessControl
  <2>1. mtask.type \in {"NEXT_RESPONSE", "METRICS", "SET_LORA"}
        /\ UNCHANGED <<queue_tasks, queue_tasks_deferred, slot_task>>
    BY <1>15 DEF ProcessNextResponse, ProcessControl, Processing, queueVars
  <2>2. mtask.type \notin InferenceTypes
    BY <2>1 DEF InferenceTypes
  <2> QED BY <1>9, <2>1, <2>2, Zenon
<1>16. CASE ProcessSlotAction
  BY <1>2, <1>16 DEF ProcessSlotAction, Processing
<1>17. CASE ProcessCancel
  <2>1. /\ mtask.type = "CANCEL"
        /\ \/ UNCHANGED <<queue_tasks, queue_tasks_deferred, slot_task>>
           \/ PopDeferredTask
    BY <1>17 DEF ProcessCancel, Processing, Release, queueVars
  <2>2. mtask.type \notin InferenceTypes
    BY <2>1 DEF InferenceTypes
  <2> QED BY <1>8, <1>9, <2>1, <2>2
<1>18. CASE ReleaseSlot \/ ReleaseFailed
  BY <1>8, <1>18, Zenon DEF ReleaseSlot, ReleaseFailed, Release
\* post() leaves the tasks ahead
<1>19. ASSUME d' \in Seq(Tasks), Range(d') \subseteq Range(d), slot_task' = slot_task,
              mpc = "process" => mpc' = "process" /\ mtask' = mtask,
              \A t \in Range(q) : Infers(t) => t \in Range(q')
       PROVE  Goal
  <2>1. Queued => Queued'
    BY <1>19
  <2>2. d' # <<>> => d # <<>>
    <3> SUFFICES ASSUME d = <<>> PROVE d' = <<>>
      OBVIOUS
    <3>1. Range(d') = {}
      BY <1>19 DEF Range
    <3>2. Len(d') = 0
      <4>1. Len(d') \in Nat /\ DOMAIN d' = 1 .. Len(d')
        BY <1>19
      <4>2. 1 \notin DOMAIN d'
        BY <3>1 DEF Range
      <4> QED BY <4>1, <4>2
    <3> QED BY <1>19, <3>2
  <2>3. Busy' = Busy
    BY <1>19 DEF Busy, Slots
  <2> HIDE DEF Queued
  <2> QED BY <1>2, <1>19, <2>1, <2>2, <2>3, Zenon
<1>20. CASE UpdateSlots
  <2>1. mpc = "update" /\ slot_task' = slot_task
        /\ (UNCHANGED <<queue_tasks, queue_tasks_deferred>> \/ Post(<<NextResponse>>, FALSE))
    BY <1>20, Zenon DEF UpdateSlots, queueVars
  <2>2. CASE Post(<<NextResponse>>, FALSE)
    <3>1. /\ <<NextResponse>> \in Seq(Tasks) /\ Range(<<NextResponse>>) = {NextResponse}
          /\ NextResponse.target = NoId
      BY OneIds, NextResponseFacts, Zenon
    <3>2. {} = {t.target : t \in Range(<<NextResponse>>)} \ {NoId}
      BY <3>1, Zenon
    <3>3. /\ d' \in Seq(Tasks) /\ Range(d') \subseteq Range(d)
          /\ \A t \in Range(q) : t \in Range(q')
      BY <1>0, <2>2, <3>1, <3>2, PostIds, Zenon
    <3> HIDE DEF Goal
    <3> QED BY <1>19, <2>1, <3>3
  <2> HIDE DEF Goal
  <2> QED BY <1>7, <2>1, <2>2, Zenon
<1>21. ASSUME NEW h \in Handlers, HttpPost(h) PROVE Goal
  <2>1. UNCHANGED <<mpc, mtask, slot_task>> /\ \E front : Post(TasksOf(h), front)
    BY <1>21, Zenon DEF HttpPost, mainVars
  <2>2. TasksOf(h) \in Seq(Tasks) /\ \A t \in Range(TasksOf(h)) : t.target = NoId
    BY <1>0, TasksOfFacts, Zenon
  <2>3. {} = {t.target : t \in Range(TasksOf(h))} \ {NoId}
    BY <2>2, Zenon
  <2>4. /\ d' \in Seq(Tasks) /\ Range(d') \subseteq Range(d)
        /\ \A t \in Range(q) : t \in Range(q')
    BY <1>0, <2>1, <2>2, <2>3, PostIds, Zenon
  <2> HIDE DEF Goal
  <2> QED BY <1>19, <2>1, <2>4, Zenon
<1>22. ASSUME NEW h \in Handlers, HttpCancelPost(h) PROVE Goal
  <2>1. UNCHANGED <<mpc, mtask, slot_task>> /\ Post(CancelsOf(h), TRUE) /\ pc[h] = "cancel"
    BY <1>22, ZenonT(30) DEF HttpCancelPost, mainVars, CancelsOf
  <2>2. CancelsOf(h) \in Seq(Tasks) /\ {t.target : t \in Range(CancelsOf(h))} \ {NoId} = Ids(h)
    BY <1>0, CancelsOfFacts
  <2>3. \A id \in Ids(h) : ~Held(q, id)
    BY <2>1, Zenon DEF WorkInv, Live
  <2>4. \A t \in Range(q) : t.id \notin Ids(h)
    BY <2>3, Zenon DEF Held, Range
  <2>5. /\ d' \in Seq(Tasks) /\ Range(d') \subseteq Range(d)
        /\ \A t \in Range(q) : t.id \notin Ids(h) => t \in Range(q')
    BY <1>0, <2>1, <2>2, PostIds, Zenon
  <2> HIDE DEF Goal
  <2> QED BY <1>19, <2>1, <2>4, <2>5, Zenon
<1>23. ASSUME NEW h \in Handlers,
              HttpRefuse(h) \/ HttpRegister(h) \/ HttpStream(h) \/ HttpReceive(h)
              \/ HttpPoll(h) \/ HttpCancelRemove(h) \/ HttpFinish(h) \/ Disconnect(h)
       PROVE  Goal
  <2>1. UNCHANGED <<queue_tasks, queue_tasks_deferred, slot_task, mpc, mtask>>
    BY <1>23, Zenon
       DEF HttpRefuse, HttpRegister, HttpStream, HttpReceive, HttpPoll, HttpCancelRemove,
       HttpFinish, Disconnect, mainVars, queueVars
  <2> HIDE DEF Goal
  <2> QED BY <1>7, <2>1, Zenon
<1>24. CASE Quiescent
  <2>1. UNCHANGED <<queue_tasks, queue_tasks_deferred, slot_task, mpc, mtask>>
    BY <1>24 DEF Quiescent, vars, mainVars, queueVars
  <2> HIDE DEF Goal
  <2> QED BY <1>7, <2>1
<1> HIDE DEF Goal
<1> QED BY <1>10, <1>11, <1>12, <1>13, <1>14, <1>15, <1>16, <1>17, <1>18, <1>20, <1>21, <1>22,
           <1>23, <1>24, Zenon DEF Next, MainNext, HttpNext

\* If every request is a single task that some slot can run and whose client
\* waits, the main thread blocks only with idle slots and no deferred task
\* (BlocksWhenDone), although a released slot moves one deferred task only.
THEOREM BlocksWhenDoneHolds ==
    ASSUME Runnable PROVE Spec => []BlocksWhenDone
<1>1. Init => WorkInv
  <2> SUFFICES ASSUME Init PROVE WorkInv
    OBVIOUS
  <2>1. Range(queue_tasks) = {} /\ Range(queue_tasks_deferred) = {} /\ mtask = NextResponse
    BY SMTT(20) DEF Init, Range
  <2> QED BY <2>1, NextResponseFacts, Zenon DEF Init, WorkInv
<1>2. ASSUME TypeInv, HomeInv, CancelInv, ResultInv, WorkInv, Next PROVE WorkInv'
  BY <1>2, WorkStep
<1>3. ASSUME WorkInv, UNCHANGED vars PROVE WorkInv'
  <2>1. UNCHANGED <<scene, queue_tasks, queue_tasks_deferred, mtask, mpc, mslot, slot_task, pc, closed>>
    BY <1>3 DEF vars, queueVars, mainVars, httpVars
  <2>2. \A h \in Handlers : Ids(h)' = Ids(h)
    BY <2>1, IdsFixed, Zenon
  <2>3. \A id : Live(id)' <=> Live(id)
    BY <2>1, Zenon DEF Live, InHands, Releasing, Slots
  <2> QED BY <1>3, <2>1, <2>2, <2>3, Zenon DEF WorkInv, Busy, Slots
<1>4. WorkInv /\ (mpc = "wait" /\ queue_tasks = <<>> => Busy = {}) => BlocksWhenDone
  BY DEF WorkInv, BlocksWhenDone, Range
<1> QED BY <1>1, <1>2, <1>3, <1>4, WakeInvariance, TypeInvariance, HomeInvariance, CancelInvariance,
           ResultInvariance, PTL DEF Spec
=============================================================================
