--------------------------- MODULE HDCacheProofs ---------------------------
(***************************************************************************)
(* Proofs about HDCache, for any number of events, layers and retries, any *)
(* payloads, budgets and bounds: the types, the one place an event is in,  *)
(* how many wait, and when one expires.                                    *)
(***************************************************************************)
EXTENDS HDCache, SeqOpsProofs

-----------------------------------------------------------------------------
(***************************************************************************)
(* The queues of the layers                                                *)
(***************************************************************************)
HeldIn(q, e) == \E l \in DOMAIN q : \E i \in DOMAIN q[l] : q[l][i] = e

OnceIn(q) ==
    \A l, m \in DOMAIN q : \A i \in DOMAIN q[l], j \in DOMAIN q[m] :
        q[l][i] = q[m][j] => l = m /\ i = j

Put(q, l, e) == [q EXCEPT ![l] = Append(@, e)]
Take(q, l) == [q EXCEPT ![l] = Tail(@)]

\* the lengths of the queues are numbers
LEMMA LengthsType ==
    ASSUME NEW q \in Seq(Seq(Event))
    PROVE  /\ [i \in 1..Len(q) |-> Len(q[i])] \in Seq(Nat)
           /\ Entries(q) \in Nat
<1> DEFINE v == [i \in 1..Len(q) |-> Len(q[i])]
<1>1. \A i \in 1..Len(q) : Len(q[i]) \in Nat
  OBVIOUS
<1>2. v \in Seq(Nat)
  BY <1>1
<1> HIDE DEF v
<1>3. Total(v) \in Nat
  BY <1>2, TotalType
<1> QED BY <1>2, <1>3 DEF v, Entries

\* one queue that gets longer or shorter changes the number of entries by as much
LEMMA EntriesChange ==
    ASSUME NEW q \in Seq(Seq(Event)), NEW r \in Seq(Seq(Event)), NEW l \in 1..Len(q),
           Len(r) = Len(q), \A m \in 1..Len(q) : m # l => r[m] = q[m]
    PROVE  Entries(r) = Entries(q) - Len(q[l]) + Len(r[l])
<1> DEFINE v == [i \in 1..Len(q) |-> Len(q[i])]
           w == [i \in 1..Len(r) |-> Len(r[i])]
<1>1. v \in Seq(Nat) /\ w \in Seq(Nat)
  BY LengthsType
<1>2. Len(v) = Len(q) /\ Len(w) = Len(q)
  OBVIOUS
<1>3. v[l] = Len(q[l]) /\ w[l] = Len(r[l])
  OBVIOUS
<1>4. \A m \in 1..Len(v) : m # l => w[m] = v[m]
  BY <1>2
<1> HIDE DEF v, w
<1>5. Total(w) = Total(v) - v[l] + w[l]
  BY <1>1, <1>2, <1>4, TotalChange
<1> QED BY <1>3, <1>5 DEF v, w, Entries

\* r is q with an event inserted at the k-th place of its list l
Inserted(q, r, l, k) ==
    /\ q \in Seq(Seq(Event)) /\ r \in Seq(Seq(Event)) /\ l \in 1..Len(q)
    /\ Len(r) = Len(q) /\ Len(r[l]) = Len(q[l]) + 1 /\ k \in 1..Len(r[l])
    /\ \A m \in 1..Len(q) : m # l => r[m] = q[m]
    /\ \A i \in 1..k - 1 : r[l][i] = q[l][i]
    /\ \A i \in k..Len(q[l]) : r[l][i + 1] = q[l][i]

\* the lists then hold that event and what they held, and hold each event once
\* if and only if they did and it was not there
LEMMA InsertIs ==
    ASSUME NEW q, NEW r, NEW l, NEW k, Inserted(q, r, l, k)
    PROVE  /\ \A x : HeldIn(r, x) <=> HeldIn(q, x) \/ x = r[l][k]
           /\ OnceIn(r) <=> OnceIn(q) /\ ~ HeldIn(q, r[l][k])
<1> DEFINE n == Len(q[l])
           e == r[l][k]
           up(m, i) == IF m = l /\ i >= k THEN i + 1 ELSE i
<1>1. /\ q \in Seq(Seq(Event)) /\ r \in Seq(Seq(Event)) /\ l \in 1..Len(q)
      /\ Len(r) = Len(q) /\ Len(r[l]) = Len(q[l]) + 1 /\ k \in 1..Len(r[l])
  BY DEF Inserted
<1>2. /\ \A m \in 1..Len(q) : m # l => r[m] = q[m]
      /\ \A i \in 1..k - 1 : r[l][i] = q[l][i]
      /\ \A i \in k..n : r[l][i + 1] = q[l][i]
  BY DEF Inserted
<1>3. /\ n \in Nat /\ DOMAIN q = 1..Len(q) /\ DOMAIN r = 1..Len(q) /\ l \in DOMAIN q
      /\ DOMAIN q[l] = 1..n /\ DOMAIN r[l] = 1..n + 1 /\ k \in 1..n + 1
  BY <1>1
<1> HIDE DEF n, e
<1>4. ASSUME NEW m \in DOMAIN q, NEW i \in DOMAIN q[m]
      PROVE  /\ up(m, i) \in DOMAIN r[m] /\ r[m][up(m, i)] = q[m][i]
             /\ ~ (m = l /\ up(m, i) = k)
  <2>1. CASE m # l
    BY <2>1, <1>2, <1>3
  <2>2. CASE m = l /\ i >= k
    BY <2>2, <1>2, <1>3
  <2>3. CASE m = l /\ ~ (i >= k)
    <3>1. i \in 1..k - 1 /\ i \in 1..n + 1 /\ i # k
      BY <2>3, <1>3
    <3> QED BY <2>3, <3>1, <1>2, <1>3
  <2> QED BY <2>1, <2>2, <2>3
<1>5. ASSUME NEW m \in DOMAIN r, NEW j \in DOMAIN r[m], ~ (m = l /\ j = k)
      PROVE  m \in DOMAIN q /\ \E i \in DOMAIN q[m] : up(m, i) = j
  <2>1. CASE m # l
    BY <2>1, <1>2, <1>3
  <2>2. CASE m = l /\ j > k
    <3>1. j - 1 \in 1..n /\ j - 1 >= k /\ (j - 1) + 1 = j
      BY <2>2, <1>3
    <3>2. up(m, j - 1) = j
      BY <2>2, <3>1
    <3> QED BY <2>2, <3>1, <3>2, <1>3
  <2>3. CASE m = l /\ ~ (j > k)
    <3>1. j \in 1..n /\ ~ (j >= k)
      BY <1>5, <2>3, <1>3
    <3> QED BY <2>3, <3>1, <1>3, Zenon
  <2> QED BY <2>1, <2>2, <2>3
<1>6. ASSUME NEW m \in DOMAIN q, NEW i \in DOMAIN q[m], NEW j \in DOMAIN q[m],
             up(m, i) = up(m, j)
      PROVE  i = j
  <2>1. CASE m # l
    BY <1>6, <2>1
  <2>2. CASE m = l
    <3>1. i \in 1..n /\ j \in 1..n
      BY <2>2, <1>3
    <3> QED BY <1>6, <2>2, <3>1, <1>3
  <2> QED BY <2>1, <2>2
<1>7. l \in DOMAIN r /\ k \in DOMAIN r[l] /\ r[l][k] = e
  BY <1>3 DEF e
<1>8. DOMAIN q = DOMAIN r
  BY <1>3
<1> HIDE DEF up
<1>9. ASSUME NEW x PROVE HeldIn(r, x) <=> HeldIn(q, x) \/ x = e
  <2>1. ASSUME HeldIn(r, x) PROVE HeldIn(q, x) \/ x = e
    <3>1. PICK m \in DOMAIN r : \E j \in DOMAIN r[m] : r[m][j] = x
      BY <2>1 DEF HeldIn
    <3>2. PICK j \in DOMAIN r[m] : r[m][j] = x
      BY <3>1
    <3>3. CASE m = l /\ j = k
      BY <3>2, <3>3, <1>7
    <3>4. CASE ~ (m = l /\ j = k)
      <4>1. PICK i \in DOMAIN q[m] : up(m, i) = j
        BY <3>4, <1>5
      <4> QED BY <3>2, <4>1, <1>4, <1>8 DEF HeldIn
    <3> QED BY <3>3, <3>4
  <2>2. ASSUME HeldIn(q, x) PROVE HeldIn(r, x)
    BY <2>2, <1>4, <1>8 DEF HeldIn
  <2>3. HeldIn(r, e)
    BY <1>7 DEF HeldIn
  <2> QED BY <2>1, <2>2, <2>3
<1>10. ASSUME OnceIn(q), ~ HeldIn(q, e) PROVE OnceIn(r)
  <2> SUFFICES ASSUME NEW m \in DOMAIN r, NEW p \in DOMAIN r, NEW j \in DOMAIN r[m],
                      NEW h \in DOMAIN r[p], r[m][j] = r[p][h]
               PROVE  m = p /\ j = h
    BY DEF OnceIn
  <2>1. ASSUME NEW a \in DOMAIN r, NEW b \in DOMAIN r[a], ~ (a = l /\ b = k)
        PROVE  a \in DOMAIN q /\ \E i \in DOMAIN q[a] : up(a, i) = b /\ r[a][b] = q[a][i]
    BY <2>1, <1>4, <1>5
  <2>2. ASSUME NEW a \in DOMAIN r, NEW b \in DOMAIN r[a], ~ (a = l /\ b = k)
        PROVE  r[a][b] # e
    BY <2>1, <2>2, <1>10 DEF HeldIn
  <2>3. CASE (m = l /\ j = k) \/ (p = l /\ h = k)
    BY <2>2, <2>3, <1>7
  <2>4. CASE ~ (m = l /\ j = k) /\ ~ (p = l /\ h = k)
    <3>1. PICK i \in DOMAIN q[m] : up(m, i) = j /\ r[m][j] = q[m][i]
      BY <2>1, <2>4
    <3>2. PICK g \in DOMAIN q[p] : up(p, g) = h /\ r[p][h] = q[p][g]
      BY <2>1, <2>4
    <3>3. m \in DOMAIN q /\ p \in DOMAIN q /\ q[m][i] = q[p][g]
      BY <3>1, <3>2, <1>8, Zenon
    <3>4. m = p /\ i = g
      BY <3>3, <1>10 DEF OnceIn
    <3> QED BY <3>1, <3>2, <3>4
  <2> QED BY <2>3, <2>4
<1>11. ASSUME OnceIn(r) PROVE OnceIn(q) /\ ~ HeldIn(q, e)
  <2>1. ASSUME NEW m \in DOMAIN q, NEW p \in DOMAIN q, NEW i \in DOMAIN q[m],
               NEW j \in DOMAIN q[p], q[m][i] = q[p][j]
        PROVE  m = p /\ i = j
    <3>1. /\ m \in DOMAIN r /\ up(m, i) \in DOMAIN r[m] /\ r[m][up(m, i)] = q[m][i]
          /\ p \in DOMAIN r /\ up(p, j) \in DOMAIN r[p] /\ r[p][up(p, j)] = q[p][j]
      BY <1>4, <1>8
    <3>2. m = p /\ up(m, i) = up(p, j)
      BY <2>1, <3>1, <1>11 DEF OnceIn
    <3> QED BY <2>1, <3>2, <1>6
  <2>2. ASSUME NEW m \in DOMAIN q, NEW i \in DOMAIN q[m], q[m][i] = e PROVE FALSE
    <3>1. /\ m \in DOMAIN r /\ up(m, i) \in DOMAIN r[m] /\ r[m][up(m, i)] = r[l][k]
          /\ l \in DOMAIN r /\ k \in DOMAIN r[l]
      BY <2>2, <1>4, <1>7, <1>8
    <3>2. m = l /\ up(m, i) = k
      BY <3>1, <1>11 DEF OnceIn
    <3> QED BY <3>2, <1>4
  <2> QED BY <2>1, <2>2 DEF OnceIn, HeldIn
<1> QED BY <1>9, <1>10, <1>11 DEF e

\* an event put at the end of a queue
LEMMA PutIs ==
    ASSUME NEW q \in Seq(Seq(Event)), NEW l \in 1..Len(q), NEW e \in Event
    PROVE  /\ Put(q, l, e) \in Seq(Seq(Event)) /\ Len(Put(q, l, e)) = Len(q)
           /\ Entries(Put(q, l, e)) = Entries(q) + 1
           /\ \A x : HeldIn(Put(q, l, e), x) <=> HeldIn(q, x) \/ x = e
           /\ OnceIn(q) /\ ~ HeldIn(q, e) => OnceIn(Put(q, l, e))
<1> DEFINE r == Put(q, l, e)
           n == Len(q[l])
<1>0. q[l] \in Seq(Event) /\ n \in Nat /\ DOMAIN q = 1..Len(q) /\ Len(q) \in Nat
  OBVIOUS
<1>1. r \in Seq(Seq(Event)) /\ Len(r) = Len(q)
  BY <1>0 DEF Put
<1>2. r[l] = Append(q[l], e) /\ \A m \in 1..Len(q) : m # l => r[m] = q[m]
  BY <1>0 DEF Put
<1> HIDE DEF r
<1>3. Len(r[l]) = n + 1 /\ r[l][n + 1] = e /\ \A i \in 1..n : r[l][i] = q[l][i]
  BY <1>0, <1>2
<1>4. Entries(r) = Entries(q) + 1
  <2>1. Entries(r) = Entries(q) - n + (n + 1)
    BY <1>1, <1>2, <1>3, EntriesChange
  <2>2. Entries(q) \in Nat
    BY LengthsType
  <2> QED BY <1>0, <2>1, <2>2
<1>5. Inserted(q, r, l, n + 1)
  <2>1. /\ n + 1 \in 1..Len(r[l]) /\ \A i \in 1..(n + 1) - 1 : i \in 1..n
        /\ \A i \in n + 1..n : FALSE
    BY <1>0, <1>3
  <2> QED BY <1>1, <1>2, <1>3, <2>1, Zenon DEF Inserted
<1>6. /\ \A x : HeldIn(r, x) <=> HeldIn(q, x) \/ x = r[l][n + 1]
      /\ OnceIn(r) <=> OnceIn(q) /\ ~ HeldIn(q, r[l][n + 1])
  BY <1>5, InsertIs
<1> QED BY <1>1, <1>3, <1>4, <1>6 DEF r

\* the head of a queue taken off
LEMMA TakeIs ==
    ASSUME NEW q \in Seq(Seq(Event)), NEW l \in 1..Len(q), q[l] # <<>>
    PROVE  /\ Take(q, l) \in Seq(Seq(Event)) /\ Len(Take(q, l)) = Len(q)
           /\ Entries(Take(q, l)) = Entries(q) - 1
           /\ Head(q[l]) \in Event /\ HeldIn(q, Head(q[l]))
           /\ \A x : HeldIn(Take(q, l), x) => HeldIn(q, x)
           /\ \A x : HeldIn(q, x) => HeldIn(Take(q, l), x) \/ x = Head(q[l])
           /\ OnceIn(q) => OnceIn(Take(q, l)) /\ ~ HeldIn(Take(q, l), Head(q[l]))
<1> DEFINE r == Take(q, l)
           n == Len(q[l])
           d == Head(q[l])
<1>0. q[l] \in Seq(Event) /\ n \in Nat /\ n >= 1 /\ DOMAIN q = 1..Len(q) /\ Len(q) \in Nat
  OBVIOUS
<1>1. r \in Seq(Seq(Event)) /\ Len(r) = Len(q)
  BY <1>0 DEF Take
<1>2. r[l] = Tail(q[l]) /\ \A m \in 1..Len(q) : m # l => r[m] = q[m]
  BY <1>0 DEF Take
<1> HIDE DEF r
<1>3. Len(r[l]) = n - 1 /\ q[l][1] = d /\ d \in Event /\ \A i \in 1..n - 1 : r[l][i] = q[l][i + 1]
  BY <1>0, <1>2
<1>4. Entries(r) = Entries(q) - 1
  <2>1. Entries(r) = Entries(q) - n + (n - 1)
    BY <1>1, <1>2, <1>3, EntriesChange, Zenon
  <2>2. Entries(q) \in Nat
    BY LengthsType
  <2> QED BY <1>0, <2>1, <2>2
<1>5. Inserted(r, q, l, 1)
  <2>1. 1 \in 1..n /\ (n - 1) + 1 = n /\ \A i \in 1..1 - 1 : FALSE
    BY <1>0
  <2> QED BY <1>1, <1>2, <1>3, <2>1 DEF Inserted
<1>6. /\ \A x : HeldIn(q, x) <=> HeldIn(r, x) \/ x = d
      /\ OnceIn(q) <=> OnceIn(r) /\ ~ HeldIn(r, d)
  BY <1>3, <1>5, InsertIs
<1> QED BY <1>1, <1>3, <1>4, <1>6 DEF r, d

\* no queue holds no event
LEMMA EntriesEmpty == Entries(<<>>) = 0
<1> DEFINE v == [i \in 1..Len(<<>>) |-> Len(<<>>[i])]
<1>1. v \in Seq(Nat) /\ Len(v) = 0
  <2>1. Len(<<>>) = 0 /\ 1..0 = {}
    OBVIOUS
  <2>2. v = <<>>
    BY <2>1
  <2> QED BY <2>2
<1> HIDE DEF v
<1>2. Total(v) = 0
  BY <1>1, TotalEmpty, Zenon
<1> QED BY <1>2 DEF Entries, v

\* the smallest of a set of numbers
LEMMA LeastIs ==
    ASSUME NEW T, T \subseteq Nat, T # {}
    PROVE  Min(T) \in T /\ \A y \in T : Min(T) <= y
BY SmallestExists, Zenon DEF Min

\* the larger of two numbers
LEMMA LargerIs ==
    ASSUME NEW a \in Nat, NEW b \in Nat
    PROVE  Max({a, b}) \in Nat /\ Max({a, b}) >= a /\ Max({a, b}) >= b
<1>1. \E x \in {a, b} : \A y \in {a, b} : x >= y
  OBVIOUS
<1> QED BY <1>1 DEF Max

\* when there are events, the fullest queue has one
LEMMA FullestIs ==
    ASSUME NEW q \in Seq(Seq(Event)), Entries(q) > 0
    PROVE  Fullest(q) \in 1..Len(q) /\ q[Fullest(q)] # <<>>
<1> DEFINE v == [i \in 1..Len(q) |-> Len(q[i])]
           n == Len(q)
           D == {Total(v) - v[i] : i \in 1..n}
           F == {i \in 1..n : \A j \in 1..n : v[j] <= v[i]}
<1>1. v \in Seq(Nat) /\ Len(v) = n /\ n \in Nat /\ Entries(q) = Total(v)
  BY LengthsType DEF Entries
<1>2. F = {i \in 1..Len(q) : \A j \in 1..Len(q) : Len(q[j]) <= Len(q[i])}
  BY Zenon
<1>3. \A i \in 1..n : v[i] = Len(q[i])
  OBVIOUS
<1> HIDE DEF v, n
<1>4. /\ Total(v) \in Nat /\ \A i \in 1..n : v[i] \in Nat /\ v[i] <= Total(v)
      /\ \E i \in 1..n : v[i] > 0
  <2>1. Total(v) \in Nat
    BY <1>1, TotalType
  <2>2. \A i \in 1..n : v[i] \in Nat
    BY <1>1
  <2>3. \A i \in 1..Len(v) : v[i] <= Total(v)
    BY <1>1, TotalBounds
  <2>4. Total(v) > 0 => \E i \in 1..Len(v) : v[i] > 0
    BY <1>1, TotalBounds
  <2> QED BY <1>1, <2>1, <2>2, <2>3, <2>4
<1>5. PICK i0 \in 1..n : v[i0] > 0
  BY <1>4
<1>6. D \subseteq Nat /\ D # {}
  BY <1>4, <1>5
<1>7. PICK x \in D : \A y \in D : x <= y
  BY <1>6, SmallestExists, Zenon
<1>8. PICK i \in 1..n : x = Total(v) - v[i]
  BY <1>7
<1>9. \A j \in 1..n : v[j] <= v[i]
  <2> TAKE j \in 1..n
  <2>1. Total(v) - v[i] <= Total(v) - v[j]
    BY <1>7, <1>8
  <2>2. v[i] \in Nat /\ v[j] \in Nat /\ Total(v) \in Nat
    BY <1>4
  <2> QED BY <2>1, <2>2
<1>10. F # {} /\ F \subseteq Nat
  <2>1. i \in F
    BY <1>8, <1>9
  <2>2. F \subseteq 1..n
    OBVIOUS
  <2>3. 1..n \subseteq Nat
    BY <1>1
  <2> HIDE DEF F
  <2> QED BY <2>1, <2>2, <2>3
<1>11. Min(F) \in F
  BY <1>10, LeastIs, Zenon
<1>12. Fullest(q) = Min(F)
  BY <1>2, Zenon DEF Fullest
<1> HIDE DEF F
<1>13. Fullest(q) \in 1..n /\ v[i0] <= v[Fullest(q)]
  BY <1>5, <1>11, <1>12 DEF F
<1>14. v[Fullest(q)] > 0
  BY <1>4, <1>5, <1>13
<1>15. Len(q[Fullest(q)]) > 0 /\ Fullest(q) \in 1..Len(q)
  BY <1>3, <1>13, <1>14 DEF n
<1> QED BY <1>15

\* the layer the scheduler picks has an event
LEMMA NextLayerIs ==
    ASSUME queue \in Seq(Seq(Event)), NextLayer # 0
    PROVE  NextLayer \in 1..Len(queue) /\ queue[NextLayer] # <<>>
<1> DEFINE ready == {i \in Layers : queue[i] # <<>>}
           due == {i \in ready : NextTick % Cumulative(Len(queue)) < Cumulative(i)}
<1>1. ready \subseteq Nat /\ due \subseteq ready
  BY DEF Layers
<1>2. NextLayer = IF due # {} THEN Min(due) ELSE IF ready # {} THEN Min(ready) ELSE 0
  BY DEF NextLayer, Pick
<1> HIDE DEF due
<1>3. NextLayer \in ready
  <2> HIDE DEF ready
  <2>1. CASE due # {}
    BY <2>1, <1>1, <1>2, LeastIs, Zenon
  <2>2. CASE due = {}
    BY <2>2, <1>1, <1>2, LeastIs, Zenon
  <2> QED BY <2>1, <2>2
<1> QED BY <1>3 DEF Layers

\* the layers have a weight, so a rotation is never empty
LEMMA RotationType == Cumulative(Len(Freqs)) \in Nat \ {0}
<1> DEFINE n == Len(Freqs)
           v == [i \in 1..n |-> Weight(Freqs[i])]
<1>1. n \in Nat /\ 1 \in 1..n /\ \A i \in 1..n : Freqs[i] \in Nat
  BY CacheAssumption
<1>2. \A f \in Nat : Weight(f) \in Nat /\ Weight(f) > 0
  BY DEF Weight
<1>a. \A i \in 1..n : Weight(Freqs[i]) \in Nat /\ Weight(Freqs[i]) > 0
  BY <1>1, <1>2, Zenon
<1>3. v \in Seq(Nat) /\ Len(v) = n /\ v[1] > 0
  <2> HIDE DEF n
  <2> QED BY <1>1, <1>a
<1>4. Cumulative(n) = Total(v)
  BY DEF Cumulative
<1> HIDE DEF v, n
<1>5. Total(v) \in Nat /\ v[1] <= Total(v) /\ v[1] \in Nat
  <2>1. Total(v) \in Nat
    BY <1>3, TotalType
  <2>2. \A i \in 1..Len(v) : v[i] <= Total(v)
    BY <1>3, TotalBounds
  <2> QED BY <1>1, <1>3, <2>1, <2>2
<1> QED BY <1>3, <1>4, <1>5 DEF n


-----------------------------------------------------------------------------
(***************************************************************************)
(* Types                                                                   *)
(***************************************************************************)
Waiting == [status : {"NEW", "RETRYING"}, created : Nat, retries : 0..MaxRetries,
            ttl : Nat, off : Nat]
Metas == Waiting \cup {None} \cup {Settled(s) : s \in Terminal}

Calls ==
    {NoCall, [at |-> "demote"]}
    \cup [at : {"loop"}, now : Nat, left : Nat]
    \cup [at : {"turn"}, now : Nat, left : Nat \ {0}, ev : Event, layer : Nat]
    \cup [at : {"callback"}, now : Nat, left : Nat \ {0}, ev : Event, layer : Nat,
          payload : Event, fromDisk : BOOLEAN]

InTurn == call.at \in {"turn", "callback"}

TypeInv ==
    /\ scene \in Scenes
    /\ store \in [size : Nat, end : Nat, blocks : SUBSET [off : Nat, ev : Event]]
    /\ store.size <= store.end
    /\ queue \in Seq(Seq(Event)) /\ Len(queue) <= Len(Freqs)
    /\ tick \in 0..Cumulative(Len(Freqs)) - 1
    /\ meta \in [Event -> Metas]
    /\ clock \in 0..scene.clock
    /\ call \in Calls
    /\ InTurn => call.layer \in 1..Len(queue)
    /\ born \in 0..MaxEvents
    /\ {dropped, faults, restarts} \subseteq Nat
    /\ tries \in [Event -> Nat]
    /\ refused \subseteq 1..born

\* the metadata tell whether an event waits, was never seen, or is settled
LEMMA MetaIs ==
    ASSUME TypeInv
    PROVE  \A e \in Event :
             /\ Live(e) <=> meta[e] \in Waiting
             /\ Status(e) = "NONE" <=> meta[e] = None
             /\ Status(e) \in Terminal <=> meta[e] \in {Settled(s) : s \in Terminal}
             /\ Live(e) \/ meta[e] = None \/ Status(e) \in Terminal
<1> TAKE e \in Event
<1>1. meta[e] \in Metas
  BY DEF TypeInv
<1>2. \A m \in Waiting : m.status \in {"NEW", "RETRYING"}
  BY DEF Waiting
<1>3. None.status = "NONE"
  BY DEF None
<1>4. \A m \in {Settled(s) : s \in Terminal} : m.status \in Terminal
  BY DEF Settled
<1>5. /\ \A x \in {"NEW", "RETRYING"} : x # "NONE" /\ x \notin Terminal
      /\ "NONE" \notin Terminal
  BY DEF Terminal
<1> QED BY <1>1, <1>2, <1>3, <1>4, <1>5 DEF Metas, Live, Status

\* what the overflow rule does with the queues q
LEMMA OverflowIs ==
    ASSUME NEW q \in Seq(Seq(Event)), NEW m
    PROVE  \/ /\ Entries(q) <= DropQueueSize
              /\ Overflow(q, m).queue = q /\ Overflow(q, m).meta = m
              /\ Overflow(q, m).more = 0
           \/ /\ Entries(q) > DropQueueSize
              /\ \E f \in 1..Len(q) :
                   /\ q[f] # <<>>
                   /\ Overflow(q, m).queue = Take(q, f)
                   /\ Overflow(q, m).more = 1
                   /\ Overflow(q, m).meta = IF m[Head(q[f])] = None THEN m
                        ELSE [m EXCEPT ![Head(q[f])] = Settled("DROPPED")]
<1>1. Entries(q) \in Nat /\ DropQueueSize \in Nat
  BY LengthsType, CacheAssumption
<1>2. CASE Entries(q) <= DropQueueSize
  BY <1>2 DEF Overflow
<1>3. CASE ~ (Entries(q) <= DropQueueSize)
  <2>1. Entries(q) > 0 /\ Entries(q) > DropQueueSize
    BY <1>1, <1>3
  <2>2. Fullest(q) \in 1..Len(q) /\ q[Fullest(q)] # <<>>
    BY <2>1, FullestIs
  <2> DEFINE f == Fullest(q)
  <2>3. /\ Overflow(q, m).queue = Take(q, f)
        /\ Overflow(q, m).more = 1
        /\ Overflow(q, m).meta = IF m[Head(q[f])] = None THEN m
                        ELSE [m EXCEPT ![Head(q[f])] = Settled("DROPPED")]
    BY <1>3 DEF Overflow, Take
  <2> HIDE DEF f
  <2> QED BY <2>1, <2>2, <2>3, Zenon DEF f
<1> QED BY <1>2, <1>3

Kept(l, ttl, fault) ==
    IF fault = "meta" THEN meta ELSE [meta EXCEPT ![born + 1] = NewMeta(born + 1, l, ttl)]

\* what an ingest does to the queues and the metadata: the event is refused, or
\* queued, or queued while the head of the fullest queue is dropped
LEMMA IngestIs ==
    ASSUME TypeInv, NEW l \in Layers, NEW ttl \in scene.ttls, NEW fault,
           Ingest(l, ttl, fault)
    PROVE  /\ born + 1 \in Event /\ born + 1 \notin 1..born /\ l \in 1..Len(queue)
           /\ Put(queue, l, born + 1) \in Seq(Seq(Event))
           /\ Len(Put(queue, l, born + 1)) = Len(queue)
           /\ \/ /\ fault = "queue" /\ queue' = queue /\ meta' = Kept(l, ttl, fault)
                 /\ dropped' = dropped /\ refused' = refused \cup {born + 1}
              \/ /\ refused' = refused /\ fault # "queue"
                 /\ Entries(Put(queue, l, born + 1)) <= DropQueueSize
                 /\ queue' = Put(queue, l, born + 1)
                 /\ meta' = Kept(l, ttl, fault) /\ dropped' = dropped
              \/ /\ refused' = refused /\ fault # "queue"
                 /\ Entries(Put(queue, l, born + 1)) > DropQueueSize
                 /\ \E f \in 1..Len(queue) :
                      /\ Put(queue, l, born + 1)[f] # <<>>
                      /\ queue' = Take(Put(queue, l, born + 1), f)
                      /\ dropped' = dropped + 1
                      /\ meta' = IF Kept(l, ttl, fault)[Head(Put(queue, l, born + 1)[f])] = None
                                 THEN Kept(l, ttl, fault)
                                 ELSE [Kept(l, ttl, fault) EXCEPT
                                         ![Head(Put(queue, l, born + 1)[f])] = Settled("DROPPED")]
<1> DEFINE e == born + 1
           q == Put(queue, l, e)
           m == Kept(l, ttl, fault)
<1>1. e \in Event /\ e \notin 1..born /\ l \in 1..Len(queue)
  <2>1. born < MaxEvents
    BY DEF Ingest
  <2>2. MaxEvents \in Nat
    BY CacheAssumption
  <2>3. born \in 0..MaxEvents
    BY DEF TypeInv
  <2> QED BY <2>1, <2>2, <2>3, SMTT(20) DEF Event, Layers
<1>2. q \in Seq(Seq(Event)) /\ Len(q) = Len(queue)
  BY <1>1, PutIs DEF TypeInv
<1>3. /\ queue' = IF fault = "queue" THEN queue ELSE Overflow(q, m).queue
      /\ meta' = IF fault = "queue" THEN m ELSE Overflow(q, m).meta
      /\ dropped' = IF fault = "queue" THEN dropped ELSE dropped + Overflow(q, m).more
      /\ refused' = IF fault = "queue" THEN refused \cup {e} ELSE refused
  BY DEF Ingest, Put, Kept
<1>4. dropped \in Nat /\ dropped + 0 = dropped
  BY DEF TypeInv
<1> HIDE DEF q, m, e
<1>5. CASE fault = "queue"
  BY <1>1, <1>2, <1>3, <1>5, Zenon DEF q, m, e
<1>6. CASE fault # "queue" /\ Entries(q) <= DropQueueSize
  <2>1. ~ (Entries(q) > DropQueueSize)
    BY <1>2, <1>6, LengthsType, CacheAssumption
  <2>2. Overflow(q, m).queue = q /\ Overflow(q, m).meta = m /\ Overflow(q, m).more = 0
    BY <1>2, <2>1, OverflowIs, Zenon
  <2> QED BY <1>1, <1>2, <1>3, <1>4, <1>6, <2>2 DEF q, m, e
<1>7. CASE fault # "queue" /\ ~ (Entries(q) <= DropQueueSize)
  <2>1. PICK f \in 1..Len(q) :
                   /\ Entries(q) > DropQueueSize
                   /\ q[f] # <<>>
                   /\ Overflow(q, m).queue = Take(q, f)
                   /\ Overflow(q, m).more = 1
                   /\ Overflow(q, m).meta = IF m[Head(q[f])] = None THEN m
                        ELSE [m EXCEPT ![Head(q[f])] = Settled("DROPPED")]
    <3>1. \/ Entries(q) <= DropQueueSize
          \/ /\ Entries(q) > DropQueueSize
             /\ \E f \in 1..Len(q) :
                   /\ q[f] # <<>>
                   /\ Overflow(q, m).queue = Take(q, f)
                   /\ Overflow(q, m).more = 1
                   /\ Overflow(q, m).meta = IF m[Head(q[f])] = None THEN m
                        ELSE [m EXCEPT ![Head(q[f])] = Settled("DROPPED")]
      BY <1>2, OverflowIs, Zenon
    <3> QED BY <3>1, <1>7, Zenon
  <2> QED BY <1>1, <1>2, <1>3, <1>7, <2>1, Zenon DEF q, m, e
<1> QED BY <1>5, <1>6, <1>7


\* an event waits in one queue once, or is with process_fn, and is then live or
\* has no metadata; a live event that was not refused is in one of the two
HomeInv ==
    /\ OnceIn(queue)
    /\ \A e : HeldIn(queue, e) => /\ e \in 1..born /\ e \notin refused
                                  /\ Live(e) \/ meta[e] = None
    /\ InTurn => /\ call.ev \in 1..born /\ call.ev \notin refused
                 /\ ~ HeldIn(queue, call.ev)
                 /\ Live(call.ev) \/ (call.at = "turn" /\ meta[call.ev] = None)
    /\ \A e \in Event : Live(e) /\ e \notin refused => HeldIn(queue, e) \/ InFlight(e)
    /\ \A e \in Event : e \notin 1..born => meta[e] = None

\* the disk blocks keep their types, and the size stays within the file
LEMMA StoreTypes ==
    ASSUME TypeInv, NEW e \in Event, NEW n \in Nat
    PROVE  /\ StoreAppend(e) \in [size : Nat, end : Nat, blocks : SUBSET [off : Nat, ev : Event]]
           /\ StoreAppend(e).size <= StoreAppend(e).end
           /\ AppendTorn(n) \in [size : Nat, end : Nat, blocks : SUBSET [off : Nat, ev : Event]]
           /\ AppendTorn(n).size <= AppendTorn(n).end
           /\ StoreInit(store) \in [size : Nat, end : Nat, blocks : SUBSET [off : Nat, ev : Event]]
           /\ DiskLen(e) \in Nat \ {0}
<1>1. store.size \in Nat /\ store.end \in Nat /\ store.blocks \subseteq [off : Nat, ev : Event]
  BY DEF TypeInv
<1>2. DiskLen(e) \in Nat \ {0}
  <2> DEFINE v == HeaderSize + PayloadLen[e]
             a == BlockAlign
  <2>1. v \in Nat \ {0} /\ a \in Nat \ {0}
    <3>1. HeaderSize \in Nat \ {0} /\ BlockAlign \in Nat \ {0} /\ PayloadLen[e] \in Nat
      BY CacheAssumption
    <3> QED BY <3>1
  <2> HIDE DEF v, a
  <2>2. v + a - 1 \in Nat /\ v + a - 1 >= a
    BY <2>1
  <2>3. (v + a - 1) \div a \in Nat /\ (v + a - 1) \div a >= 1
    <3> DEFINE x == v + a - 1
    <3> HIDE DEF x
    <3>1. x \in Nat /\ x >= a
      BY <2>2 DEF x
    <3>2. x \div a \in Nat /\ x \div a >= 1
      BY <2>1, <3>1
    <3> QED BY <3>2 DEF x
  <2>4. \A p, r \in Nat \ {0} : p * r \in Nat \ {0}
    OBVIOUS
  <2>5. ((v + a - 1) \div a) * a \in Nat \ {0}
    BY <2>1, <2>3, <2>4
  <2> QED BY <2>5 DEF DiskLen, AlignUp, v, a
<1> DEFINE d == DiskLen(e)
<1>3. store.size + d \in Nat /\ store.size + n \in Nat
  BY <1>1, <1>2
<1>4. /\ Max({store.end, store.size + d}) \in Nat
      /\ Max({store.end, store.size + d}) >= store.size + d
      /\ Max({store.end, store.size + n}) \in Nat
      /\ Max({store.end, store.size + n}) >= store.end
  BY <1>1, <1>3, LargerIs
<1>5. [off |-> store.size, ev |-> e] \in [off : Nat, ev : Event]
  BY <1>1
<1>6. /\ StoreAppend(e) \in [size : Nat, end : Nat, blocks : SUBSET [off : Nat, ev : Event]]
      /\ StoreAppend(e).size <= StoreAppend(e).end
  BY <1>1, <1>3, <1>4, <1>5, Zenon DEF StoreAppend
<1>7. /\ AppendTorn(n) \in [size : Nat, end : Nat, blocks : SUBSET [off : Nat, ev : Event]]
      /\ AppendTorn(n).size = store.size /\ AppendTorn(n).end = Max({store.end, store.size + n})
  BY <1>1, <1>3, <1>4, Zenon DEF AppendTorn, TypeInv
<1>8. AppendTorn(n).size <= AppendTorn(n).end
  <2>1. store.size <= store.end
    BY DEF TypeInv
  <2> QED BY <2>1, <1>1, <1>4, <1>7
<1>9. StoreInit(store) \in [size : Nat, end : Nat, blocks : SUBSET [off : Nat, ev : Event]]
  BY <1>1, Zenon DEF StoreInit, TypeInv
<1> QED BY <1>2, <1>6, <1>7, <1>8, <1>9

\* a queue for a new layer adds no event
LEMMA GrowIs ==
    ASSUME NEW q \in Seq(Seq(Event))
    PROVE  /\ Append(q, <<>>) \in Seq(Seq(Event)) /\ Len(Append(q, <<>>)) = Len(q) + 1
           /\ \A x : HeldIn(Append(q, <<>>), x) <=> HeldIn(q, x)
           /\ OnceIn(q) => OnceIn(Append(q, <<>>))
           /\ Entries(Append(q, <<>>)) = Entries(q)
<1> DEFINE r == Append(q, <<>>)
           n == Len(q)
<1>1. r \in Seq(Seq(Event)) /\ Len(r) = n + 1 /\ n \in Nat
  OBVIOUS
<1>2. r[n + 1] = <<>> /\ \A l \in 1..n : r[l] = q[l]
  OBVIOUS
<1>3. DOMAIN r = 1..n + 1 /\ DOMAIN q = 1..n
  BY <1>1
<1>4. Entries(r) = Entries(q)
  <2> DEFINE v == [i \in 1..Len(r) |-> Len(r[i])]
             w == [i \in 1..Len(q) |-> Len(q[i])]
  <2>1. v \in Seq(Nat) /\ w \in Seq(Nat)
    BY <1>1, LengthsType
  <2>2. Len(v) = n + 1 /\ Len(w) = n
    BY <1>1
  <2>3. v[n + 1] = 0 /\ \A i \in 1..n : w[i] = v[i]
    BY <1>1, <1>2
  <2>4. Total(v) = Entries(r) /\ Total(w) = Entries(q)
    BY DEF Entries
  <2> HIDE DEF v, w, n, r
  <2>5. /\ n + 1 \in 1..Len(v) /\ Len(w) = Len(v) - 1
        /\ \A j \in 1..(n + 1) - 1 : w[j] = v[j]
        /\ \A j \in n + 1..Len(w) : w[j] = v[j + 1]
    BY <1>1, <2>2, <2>3
  <2>6. Total(w) = Total(v) - v[n + 1]
    BY <2>1, <2>5, TotalErase, Zenon
  <2>7. Total(w) \in Nat /\ Total(v) \in Nat
    BY <2>1, TotalType
  <2> QED BY <2>3, <2>4, <2>6, <2>7
<1> HIDE DEF r, n
<1>5. \A l \in DOMAIN r : \A i \in DOMAIN r[l] : l \in DOMAIN q /\ r[l] = q[l]
  <2> TAKE l \in DOMAIN r
  <2> TAKE i \in DOMAIN r[l]
  <2>1. CASE l = n + 1
    BY <2>1, <1>2
  <2>2. CASE l \in 1..n
    BY <2>2, <1>2, <1>3
  <2> QED BY <1>1, <1>3, <2>1, <2>2
<1>6. \A l \in DOMAIN q : l \in DOMAIN r /\ r[l] = q[l]
  BY <1>1, <1>2, <1>3
<1>7. \A x : HeldIn(r, x) <=> HeldIn(q, x)
  BY <1>5, <1>6 DEF HeldIn
<1>8. OnceIn(q) => OnceIn(r)
  BY <1>5 DEF OnceIn
<1> QED BY <1>1, <1>4, <1>7, <1>8 DEF r, n


\* the call goes on to process_fn with the event of its turn
LEMMA TurnCallsIs ==
    ASSUME TurnCalls
    PROVE  call'.at = "callback" /\ call'.now = call.now /\ call'.ev = call.ev
<1>1. PICK p : call' = [at |-> "callback", now |-> call.now, left |-> call.left, ev |-> call.ev,
                        layer |-> call.layer, payload |-> p, fromDisk |-> ~ Cached(call.ev)]
  BY Zenon DEF TurnCalls
<1> QED BY <1>1

\* the turn of an event is over
LEMMA TurnOver == NextTurn => call'.at = "loop" /\ call'.now = call.now
BY DEF NextTurn

\* the steps of a call outside a turn
LEMMA OtherCalls ==
    /\ \A n : TickBegin(n) => call.at = "idle" /\ call'.at = "loop" /\ call'.now = clock
    /\ LoopEnd => call.at = "loop" /\ call'.at = "demote"
    /\ TickEnd => call.at = "demote" /\ call'.at = "idle"
    /\ AddLayer \/ Demote \/ ClockTicks => call' = call
    /\ Restart => call'.at = "idle"
<1>1. NoCall.at = "idle" /\ [at |-> "demote"].at = "demote"
  BY DEF NoCall
<1>2. ASSUME NEW n, TickBegin(n)
      PROVE  call.at = "idle" /\ call'.at = "loop" /\ call'.now = clock
  <2>1. call = NoCall /\ call' = [at |-> "loop", now |-> clock, left |-> n]
    BY <1>2, Zenon DEF TickBegin
  <2> QED BY <1>1, <2>1
<1>3. LoopEnd => call.at = "loop" /\ call'.at = "demote"
  BY <1>1, Zenon DEF LoopEnd
<1>4. TickEnd => call.at = "demote" /\ call'.at = "idle"
  BY <1>1, Zenon DEF TickEnd
<1>5. AddLayer \/ Demote \/ ClockTicks => call' = call
  BY Zenon DEF AddLayer, Demote, ClockTicks
<1>6. Restart => call'.at = "idle"
  BY <1>1, Zenon DEF Restart
<1> QED BY <1>2, <1>3, <1>4, <1>5, <1>6, Zenon

\* the fields of a turn
LEMMA TurnIs ==
    ASSUME TypeInv, InTurn
    PROVE  /\ call.now \in Nat /\ call.left \in Nat \ {0} /\ call.ev \in Event
           /\ call.layer \in 1..Len(queue)
           /\ call.at = "callback" => call.payload \in Event /\ call.fromDisk \in BOOLEAN
<1>1. \/ call \in [at : {"turn"}, now : Nat, left : Nat \ {0}, ev : Event, layer : Nat]
      \/ call \in [at : {"callback"}, now : Nat, left : Nat \ {0}, ev : Event, layer : Nat,
                   payload : Event, fromDisk : BOOLEAN]
  <2>1. call \in Calls /\ call.at \in {"turn", "callback"}
    BY DEF TypeInv, InTurn
  <2>2. call # NoCall /\ call # [at |-> "demote"]
    BY <2>1 DEF NoCall
  <2>3. call \notin [at : {"loop"}, now : Nat, left : Nat]
    BY <2>1
  <2> QED BY <2>1, <2>2, <2>3 DEF Calls
<1>2. call.layer \in 1..Len(queue)
  BY DEF TypeInv
<1> QED BY <1>1, <1>2

\* what a failed attempt does
LEMMA RetryIs ==
    ASSUME TypeInv, InTurn, Live(call.ev), Retry
    PROVE  /\ meta[call.ev] \in Waiting
           /\ \/ /\ meta[call.ev].retries > 0
                 /\ queue' = Put(queue, call.layer, call.ev)
                 /\ \E w \in Waiting :
                      /\ meta' = [meta EXCEPT ![call.ev] = w]
                      /\ w.retries = meta[call.ev].retries - 1
                      /\ w.off = meta[call.ev].off /\ w.created = meta[call.ev].created
              \/ /\ meta[call.ev].retries = 0
                 /\ queue' = queue
                 /\ meta' = [meta EXCEPT ![call.ev] = Settled("DROPPED")]
           /\ meta' \in [Event -> Metas]
           /\ queue' \in Seq(Seq(Event)) /\ Len(queue') = Len(queue)
<1> DEFINE e == call.ev
<1>1. e \in Event /\ call.layer \in 1..Len(queue) /\ queue \in Seq(Seq(Event))
  BY TurnIs DEF TypeInv
<1>2. meta[e] \in Waiting /\ meta \in [Event -> Metas]
  BY <1>1, MetaIs, Zenon DEF TypeInv
<1>3. CASE meta[e].retries > 0 /\ queue' = [queue EXCEPT ![call.layer] = Append(@, e)]
           /\ meta' = [meta EXCEPT ![e].status = "RETRYING", ![e].retries = @ - 1]
  <2> DEFINE w == [meta[e] EXCEPT !.status = "RETRYING", !.retries = meta[e].retries - 1]
  <2>1. meta' = [meta EXCEPT ![e] = w]
    BY <1>1, <1>2, <1>3, Zenon
  <2>2. meta[e].retries - 1 \in 0..MaxRetries
    <3>1. meta[e].retries \in 0..MaxRetries /\ MaxRetries \in Nat
      BY <1>2, CacheAssumption DEF Waiting
    <3> QED BY <1>3, <3>1
  <2>3. w \in Waiting
    BY <1>2, <2>2, Zenon DEF Waiting
  <2>4. /\ w.retries = meta[e].retries - 1
        /\ w.off = meta[e].off /\ w.created = meta[e].created
    BY <1>2 DEF Waiting
  <2> HIDE DEF w
  <2>5. meta' \in [Event -> Metas]
    BY <1>1, <1>2, <2>1, <2>3 DEF Metas
  <2>6. queue' = Put(queue, call.layer, e)
    BY <1>3 DEF Put
  <2>7. queue' \in Seq(Seq(Event)) /\ Len(queue') = Len(queue)
    BY <1>1, <2>6, PutIs
  <2> QED BY <1>2, <1>3, <2>1, <2>3, <2>4, <2>5, <2>6, <2>7, Zenon
<1>4. CASE meta[e].retries = 0 /\ meta' = [meta EXCEPT ![e] = Settled("DROPPED")] /\ UNCHANGED queue
  <2>1. Settled("DROPPED") \in Metas
    BY DEF Metas, Terminal
  <2>2. meta' \in [Event -> Metas]
    BY <1>2, <1>4, <2>1, Zenon
  <2> QED BY <1>1, <1>2, <1>4, <2>2
<1> QED BY <1>3, <1>4 DEF Retry

\* the type of a call after its turn
LEMMA NextTurnIs ==
    ASSUME TypeInv, InTurn, NextTurn
    PROVE  call' \in Calls /\ call'.at = "loop" /\ ~ InTurn' /\ call'.now = call.now
<1>1. call.now \in Nat /\ call.left \in Nat \ {0}
  BY TurnIs
<1>2. call.left - 1 \in Nat
  BY <1>1
<1> QED BY <1>1, <1>2 DEF NextTurn, Calls, InTurn

\* the tick stays within the rotation
LEMMA TickType == ASSUME TypeInv PROVE NextTick \in 0..Cumulative(Len(Freqs)) - 1
<1> DEFINE c == Cumulative(Len(Freqs))
<1>1. c \in Nat \ {0} /\ tick \in 0..c - 1
  BY RotationType DEF TypeInv
<1>2. NextTick = IF queue = <<>> THEN tick ELSE (tick + 1) % c
  BY DEF NextTick
<1> HIDE DEF c
<1>3. (tick + 1) % c \in 0..c - 1
  BY <1>1
<1> QED BY <1>1, <1>2, <1>3 DEF c

\* the types hold at the start
LEMMA InitType == ASSUME Init PROVE TypeInv /\ HomeInv
<1>1. scene \in Scenes /\ scene.clock \in Nat /\ 0 \in 0..scene.clock
  BY CacheAssumption DEF Init
<1>2. tick \in 0..Cumulative(Len(Freqs)) - 1
  BY RotationType DEF Init
<1>3. Len(Freqs) \in Nat /\ MaxEvents \in Nat
  BY CacheAssumption
<1>4. queue = <<>> /\ <<>> \in Seq(Seq(Event)) /\ Len(queue) = 0 /\ DOMAIN queue = {}
  BY DEF Init
<1>5. meta \in [Event -> Metas] /\ \A e \in Event : meta[e] = None
  BY DEF Init, Metas
<1>6. call = NoCall /\ call \in Calls /\ ~ InTurn
  BY DEF Init, Calls, NoCall, InTurn
<1>7. TypeInv
  BY <1>1, <1>2, <1>3, <1>4, <1>5, <1>6 DEF Init, TypeInv
<1>8. \A e \in Event : ~ Live(e)
  BY <1>5 DEF Live, Status, None
<1> QED BY <1>4, <1>5, <1>6, <1>7, <1>8, Zenon DEF HomeInv, OnceIn, HeldIn

\* every step keeps the types, given that the event in hand is live
LEMMA TypeStep == ASSUME TypeInv, HomeInv, Next PROVE TypeInv'
<1>0. /\ scene \in Scenes /\ scene.clock \in Nat /\ scene.ttls \subseteq Nat
      /\ scene.batch \subseteq Nat /\ MaxEvents \in Nat /\ Len(Freqs) \in Nat
      /\ BlockAlign \in Nat /\ MaxRetries \in Nat /\ DefaultTtl \in Nat
  <2>1. scene \in Scenes
    BY DEF TypeInv
  <2>2. scene.clock \in Nat /\ scene.ttls \subseteq Nat /\ scene.batch \subseteq Nat
    BY <2>1, CacheAssumption
  <2> QED BY <2>1, <2>2, CacheAssumption
<1>1. CASE AddLayer
  <2>1. queue' \in Seq(Seq(Event)) /\ Len(queue') = Len(queue) + 1
    BY <1>1, GrowIs DEF AddLayer, TypeInv
  <2>2. Len(queue) \in Nat /\ Len(queue) < Len(Freqs)
    BY <1>1 DEF AddLayer, TypeInv
  <2>3. Len(queue') <= Len(Freqs)
    BY <1>0, <2>1, <2>2, SMTT(20)
  <2> QED BY <1>1, <2>1, <2>3 DEF AddLayer, TypeInv, InTurn, NoCall, history
<1>2. ASSUME NEW l \in Layers, NEW ttl \in scene.ttls,
             NEW fault \in {"none", "meta", "hot", "queue"}, Ingest(l, ttl, fault)
      PROVE  TypeInv'
  <2> DEFINE e == born + 1
             q == Put(queue, l, e)
             m == Kept(l, ttl, fault)
  <2>1. e \in Event /\ q \in Seq(Seq(Event)) /\ Len(q) = Len(queue)
    BY <1>2, IngestIs
  <2>2. m \in [Event -> Metas]
    <3>1. NewMeta(e, l, ttl) \in Waiting
      BY <1>0 DEF NewMeta, Waiting, TypeInv
    <3> QED BY <2>1, <3>1 DEF Kept, Metas, TypeInv
  <2>3. \A d : [m EXCEPT ![d] = Settled("DROPPED")] \in [Event -> Metas]
    BY <2>2, Zenon DEF Metas, Terminal
  <2>4. \A f \in 1..Len(q) : q[f] # <<>> =>
           Take(q, f) \in Seq(Seq(Event)) /\ Len(Take(q, f)) = Len(q)
    BY <2>1, TakeIs
  <2> HIDE DEF q, m
  <2>5. /\ queue' \in Seq(Seq(Event)) /\ Len(queue') = Len(queue)
        /\ meta' \in [Event -> Metas] /\ dropped' \in Nat
        /\ refused' \subseteq 1..born + 1
    <3>1. /\ \/ queue' = queue
             \/ queue' = q
             \/ \E f \in 1..Len(queue) : q[f] # <<>> /\ queue' = Take(q, f)
          /\ meta' = m \/ \E d : meta' = [m EXCEPT ![d] = Settled("DROPPED")]
          /\ dropped' = dropped \/ dropped' = dropped + 1
          /\ refused' = refused \/ refused' = refused \cup {e}
      BY <1>2, IngestIs, Zenon DEF q, m
    <3>2. /\ queue \in Seq(Seq(Event)) /\ dropped \in Nat
          /\ refused \subseteq 1..born + 1 /\ e \in 1..born + 1
      <4>1. queue \in Seq(Seq(Event)) /\ dropped \in Nat /\ refused \subseteq 1..born
        BY Zenon DEF TypeInv
      <4>2. born \in Nat
        BY <1>0 DEF TypeInv
      <4>3. 1..born \subseteq 1..born + 1 /\ born + 1 \in 1..born + 1
        BY <4>2
      <4> QED BY <4>1, <4>3, Zenon DEF e
    <3>3. queue' \in Seq(Seq(Event)) /\ Len(queue') = Len(queue)
      BY <2>1, <2>4, <3>1, <3>2
    <3>4. meta' \in [Event -> Metas]
      BY <2>2, <2>3, <3>1
    <3>5. dropped' \in Nat
      BY <3>1, <3>2
    <3>6. refused' \subseteq 1..born + 1
      BY <3>1, <3>2, Zenon
    <3> QED BY <3>3, <3>4, <3>5, <3>6
  <2>6. store' \in [size : Nat, end : Nat, blocks : SUBSET [off : Nat, ev : Event]]
        /\ store'.size <= store'.end
    BY <1>2, <2>1, StoreTypes, Zenon DEF Ingest
  <2>7. born' \in 0..MaxEvents /\ faults' \in Nat /\ born' = born + 1
    <3>1. born' = born + 1 /\ faults' = faults + (IF fault = "none" THEN 0 ELSE 1)
      BY <1>2 DEF Ingest
    <3>2. faults \in Nat
      BY DEF TypeInv
    <3> QED BY <1>0, <2>1, <3>1, <3>2 DEF Event
  <2>8. UNCHANGED <<tick, clock, call, scene, restarts, tries>>
    BY <1>2 DEF Ingest
  <2> QED BY <2>5, <2>6, <2>7, <2>8, Zenon DEF TypeInv, InTurn
<1>3. ASSUME NEW n \in 1..BlockAlign, IngestTorn(n) PROVE TypeInv'
  <2>1. n \in Nat /\ 1 \in Event
    BY <1>0, CacheAssumption DEF Event
  <2>2. store' \in [size : Nat, end : Nat, blocks : SUBSET [off : Nat, ev : Event]]
        /\ store'.size <= store'.end
    BY <1>3, <2>1, StoreTypes, Zenon DEF IngestTorn
  <2>3. born' \in 0..MaxEvents /\ faults' \in Nat /\ refused' \subseteq 1..born'
    BY <1>0, <1>3, SMTT(20) DEF IngestTorn, TypeInv
  <2> QED BY <1>3, <2>2, <2>3, Zenon DEF IngestTorn, TypeInv, InTurn
<1>4. ASSUME NEW n \in scene.batch, TickBegin(n) PROVE TypeInv'
  <2>1. clock \in Nat /\ n \in Nat
    BY <1>0 DEF TypeInv
  <2>2. call' \in Calls /\ ~ InTurn'
    BY <1>4, <2>1 DEF TickBegin, Calls, InTurn
  <2> QED BY <1>4, <2>2 DEF TickBegin, TypeInv, state, history
<1>5. CASE Dequeue
  <2>1. NextLayer \in 1..Len(queue) /\ queue[NextLayer] # <<>>
    BY <1>5, NextLayerIs DEF Dequeue, TypeInv
  <2>2. /\ Take(queue, NextLayer) \in Seq(Seq(Event))
        /\ Len(Take(queue, NextLayer)) = Len(queue)
        /\ Head(queue[NextLayer]) \in Event
    BY <2>1, TakeIs, Zenon DEF TypeInv
  <2>3. queue' = Take(queue, NextLayer)
    BY <1>5 DEF Dequeue, Take
  <2>4. call.now \in Nat /\ call.left \in Nat \ {0}
    <3>1. call \in Calls /\ call.at = "loop" /\ call.left > 0
      BY <1>5 DEF Dequeue, TypeInv
    <3>2. call \in [at : {"loop"}, now : Nat, left : Nat]
      BY <3>1 DEF Calls, NoCall
    <3> QED BY <3>1, <3>2
  <2>5. call' \in Calls /\ call'.layer \in 1..Len(queue)
    BY <1>5, <2>1, <2>2, <2>4 DEF Dequeue, Calls
  <2>6. tick' \in 0..Cumulative(Len(Freqs)) - 1
    BY <1>5, TickType DEF Dequeue
  <2> QED BY <1>5, <2>2, <2>3, <2>5, <2>6, Zenon DEF Dequeue, TypeInv, history, InTurn
<1>6. CASE TurnSkips
  <2>1. InTurn /\ meta' \in [Event -> Metas]
    BY <1>6, Zenon DEF TurnSkips, InTurn, TypeInv, Metas, Terminal
  <2>2. call' \in Calls /\ ~ InTurn'
    BY <1>6, <2>1, NextTurnIs DEF TurnSkips
  <2> QED BY <1>6, <2>1, <2>2 DEF TurnSkips, inTurn, TypeInv
<1>7. CASE TurnUnread
  <2>1. InTurn /\ Live(call.ev)
    BY <1>7 DEF TurnUnread, InTurn
  <2>2. call' \in Calls /\ ~ InTurn'
    BY <1>7, <2>1, NextTurnIs, Zenon DEF TurnUnread
  <2>3. meta' \in [Event -> Metas] /\ queue' \in Seq(Seq(Event)) /\ Len(queue') = Len(queue)
    BY <1>7, <2>1, RetryIs DEF TurnUnread
  <2>4. tries' \in [Event -> Nat]
    <3>1. call.ev \in Event /\ tries \in [Event -> Nat]
      BY <2>1, TurnIs, Zenon DEF TypeInv
    <3>2. tries' = [tries EXCEPT ![call.ev] = tries[call.ev] + 1]
      BY <1>7 DEF TurnUnread, Attempt
    <3>3. tries[call.ev] + 1 \in Nat
      BY <3>1
    <3> QED BY <3>1, <3>2, <3>3
  <2> QED BY <1>7, <2>2, <2>3, <2>4 DEF TurnUnread, inTurn, TypeInv
<1>8. CASE TurnCalls
  <2>1. InTurn /\ call.at = "turn"
    BY <1>8 DEF TurnCalls, InTurn
  <2>2. /\ call.now \in Nat /\ call.left \in Nat \ {0} /\ call.ev \in Event
        /\ call.layer \in 1..Len(queue)
    BY <2>1, TurnIs
  <2>3. BlockAt(meta[call.ev].off) \subseteq Event
    BY Zenon DEF BlockAt, TypeInv
  <2>4. PICK p \in Event : 
           call' = [at |-> "callback", now |-> call.now, left |-> call.left, ev |-> call.ev,
                    layer |-> call.layer, payload |-> p, fromDisk |-> ~ Cached(call.ev)]
    BY <1>8, <2>2, <2>3 DEF TurnCalls
  <2>5. (~ Cached(call.ev)) \in BOOLEAN
    OBVIOUS
  <2>6. call' \in Calls /\ call'.layer = call.layer
    BY <2>2, <2>4, <2>5 DEF Calls
  <2>7. tries' \in [Event -> Nat]
    <3>1. call.ev \in Event /\ tries \in [Event -> Nat]
      BY <2>1, TurnIs, Zenon DEF TypeInv
    <3>2. tries' = [tries EXCEPT ![call.ev] = tries[call.ev] + 1]
      BY <1>8 DEF TurnCalls, Attempt
    <3>3. tries[call.ev] + 1 \in Nat
      BY <3>1
    <3> QED BY <3>1, <3>2, <3>3
  <2> QED BY <1>8, <2>2, <2>6, <2>7, Zenon DEF TurnCalls, inTurn, TypeInv
<1>9. ASSUME NEW ok \in BOOLEAN, Returns(ok) PROVE TypeInv'
  <2>1. InTurn /\ call.at = "callback"
    BY <1>9 DEF Returns, InTurn
  <2>2. call' \in Calls /\ ~ InTurn'
    BY <1>9, <2>1, NextTurnIs DEF Returns
  <2>3. Live(call.ev)
    BY <2>1 DEF HomeInv
  <2>4. meta' \in [Event -> Metas] /\ queue' \in Seq(Seq(Event)) /\ Len(queue') = Len(queue)
    <3>1. CASE Retry
      BY <2>1, <2>3, <3>1, RetryIs
    <3>2. CASE meta' = [meta EXCEPT ![call.ev] = Settled("DONE")] /\ UNCHANGED queue
      BY <3>2, Zenon DEF TypeInv, Metas, Terminal
    <3> QED BY <1>9, <3>1, <3>2, Zenon DEF Returns
  <2> QED BY <1>9, <2>2, <2>4, Zenon DEF Returns, inTurn, TypeInv
<1>10. CASE LoopEnd
  <2>1. tick' \in 0..Cumulative(Len(Freqs)) - 1
    BY <1>10, TickType DEF LoopEnd, TypeInv
  <2>2. call' \in Calls /\ ~ InTurn'
    BY <1>10 DEF LoopEnd, Calls, InTurn
  <2> QED BY <1>10, <2>1, <2>2 DEF LoopEnd, TypeInv, history
<1>11. CASE Demote
  BY <1>11 DEF Demote, TypeInv, history, InTurn
<1>12. CASE TickEnd
  <2>1. call' \in Calls /\ ~ InTurn'
    BY <1>12 DEF TickEnd, Calls, NoCall, InTurn
  <2> QED BY <1>12, <2>1 DEF TickEnd, TypeInv, state, history
<1>13. CASE ClockTicks
  <2>1. clock' \in 0..scene.clock
    BY <1>0, <1>13, SMTT(20) DEF ClockTicks, TypeInv
  <2> QED BY <1>13, <2>1 DEF ClockTicks, TypeInv, state, history, InTurn
<1>14. CASE Restart
  <2>1. /\ store' \in [size : Nat, end : Nat, blocks : SUBSET [off : Nat, ev : Event]]
        /\ store'.size <= store'.end
    <3>1. 1 \in Event /\ 1 \in Nat
      BY CacheAssumption DEF Event
    <3>2. StoreInit(store).size = store.end /\ StoreInit(store).end = store.end
      BY DEF StoreInit, TypeInv
    <3>3. store.end \in Nat
      BY DEF TypeInv
    <3>4. store' = StoreInit(store)
      BY <1>14 DEF Restart
    <3>5. StoreInit(store) \in [size : Nat, end : Nat, blocks : SUBSET [off : Nat, ev : Event]]
      BY <3>1, StoreTypes, Zenon
    <3> QED BY <3>2, <3>3, <3>4, <3>5
  <2>2. queue' \in Seq(Seq(Event)) /\ Len(queue') <= Len(Freqs)
    <3>1. queue' = <<>> /\ Len(Freqs) \in Nat
      BY <1>0, <1>14, Zenon DEF Restart
    <3> QED BY <3>1
  <2>3. tick' \in 0..Cumulative(Len(Freqs)) - 1
    BY <1>14, RotationType DEF Restart
  <2>4. meta' \in [Event -> Metas] /\ tries' \in [Event -> Nat] /\ refused' \subseteq 1..born'
    BY <1>14, Zenon DEF Restart, Metas
  <2>5. call' \in Calls /\ ~ InTurn'
    BY <1>14, Zenon DEF Restart, Calls, NoCall, InTurn
  <2>6. restarts' \in Nat /\ dropped' \in Nat
    BY <1>14 DEF Restart, TypeInv
  <2> QED BY <1>14, <2>1, <2>2, <2>3, <2>4, <2>5, <2>6, Zenon DEF Restart, TypeInv
<1> QED BY <1>1, <1>2, <1>3, <1>4, <1>5, <1>6, <1>7, <1>8, <1>9, <1>10, <1>11, <1>12,
           <1>13, <1>14, Zenon DEF Next, TickStep


\* metadata of events that wait, of settled ones and none are told apart
LEMMA MetasAre ==
    /\ \A m \in Metas : m.status \in {"NEW", "RETRYING"} <=> m \in Waiting
    /\ None \notin Waiting
    /\ \A s \in Terminal : Settled(s) \notin Waiting /\ Settled(s) # None
    /\ \A s, t \in Terminal : Settled(s) = Settled(t) => s = t
<1>1. \A m \in Waiting : m.status \in {"NEW", "RETRYING"}
  BY DEF Waiting
<1>2. None.status = "NONE" /\ \A s : Settled(s).status = s
  BY DEF None, Settled
<1>3. \A x \in {"NEW", "RETRYING"} : x # "NONE" /\ x \notin Terminal
  BY DEF Terminal
<1>4. "NONE" \notin Terminal
  BY DEF Terminal
<1> QED BY <1>1, <1>2, <1>3, <1>4 DEF Metas

\* events that were ingested are events
LEMMA BornIs == ASSUME TypeInv PROVE 1..born \subseteq Event /\ born \in Nat
<1>1. born \in 0..MaxEvents /\ MaxEvents \in Nat
  BY CacheAssumption DEF TypeInv
<1> QED BY <1>1 DEF Event

\* the same of the next state
LEMMA LiveNext ==
    ASSUME TypeInv' PROVE \A e \in Event : Live(e)' <=> meta'[e] \in Waiting
BY MetasAre, Zenon DEF TypeInv, Live, Status

\* steps that move no event
LEMMA HomeSame ==
    ASSUME TypeInv, HomeInv, OnceIn(queue'), \A x : HeldIn(queue', x) <=> HeldIn(queue, x),
           meta' = meta, refused' = refused, born' = born \/ born' = born + 1,
           \/ ~ InTurn /\ ~ InTurn'
           \/ InTurn /\ InTurn' /\ call'.ev = call.ev /\ (call'.at = call.at \/ Live(call.ev))
    PROVE  HomeInv'
<1>1. \A e : e \in 1..born => e \in 1..born'
  BY SMTT(20) DEF TypeInv
<1>2. \A e : (Live(e)' <=> Live(e)) /\ meta'[e] = meta[e]
  BY DEF Live, Status
<1>3. \A e : HeldIn(queue', e) =>
         e \in 1..born' /\ e \notin refused' /\ (Live(e)' \/ meta'[e] = None)
  BY <1>1, <1>2 DEF HomeInv
<1>4. InTurn' => /\ call'.ev \in 1..born' /\ call'.ev \notin refused'
                 /\ ~ HeldIn(queue', call'.ev)
                 /\ Live(call.ev)' \/ (call'.at = "turn" /\ meta'[call'.ev] = None)
  BY <1>1, <1>2 DEF HomeInv
<1>5. \A e \in Event : Live(e)' /\ e \notin refused' => HeldIn(queue', e) \/ InFlight(e)'
  BY <1>2 DEF HomeInv, InFlight, InTurn
<1>6. \A e \in Event : e \notin 1..born' => meta'[e] = None
  BY <1>1, <1>2, Zenon DEF HomeInv
<1> QED BY <1>3, <1>4, <1>5, <1>6, Zenon DEF HomeInv

\* the end of a turn that settles its event, or finds none
LEMMA HomeSettled ==
    ASSUME TypeInv, TypeInv', HomeInv, InTurn, ~ InTurn', queue' = queue,
           refused' = refused, born' = born,
           \/ \E s \in Terminal : meta' = [meta EXCEPT ![call.ev] = Settled(s)]
           \/ (meta' = meta /\ ~ Live(call.ev))
    PROVE  HomeInv'
<1>e. PICK e \in Event : e = call.ev
  BY TurnIs, Zenon
<1>0. e \in 1..born /\ e \notin refused /\ ~ HeldIn(queue, e) /\ meta \in [Event -> Metas]
      /\ \A x : HeldIn(queue, x) => x \in Event
  BY <1>e, BornIs, Zenon DEF HomeInv, TypeInv
<1>1. \A x \in Event : x # e => meta'[x] = meta[x] /\ (Live(x)' <=> Live(x))
  <2>1. \A x \in Event : x # e => meta'[x] = meta[x]
    BY <1>e, <1>0
  <2> QED BY <2>1 DEF Live, Status
<1>2. ~ Live(e)'
  <2>1. CASE meta' = meta /\ ~ Live(call.ev)
    BY <1>e, <2>1 DEF Live, Status
  <2>2. ASSUME NEW s \in Terminal, meta' = [meta EXCEPT ![call.ev] = Settled(s)] PROVE ~ Live(e)'
    <3>1. meta'[e] = Settled(s)
      BY <1>e, <1>0, <2>2, Zenon
    <3> QED BY <3>1, MetasAre, LiveNext
  <2> QED BY <2>1, <2>2
<1>3. \A x : HeldIn(queue', x) =>
         x \in 1..born' /\ x \notin refused' /\ (Live(x)' \/ meta'[x] = None)
  BY <1>0, <1>1 DEF HomeInv
<1>4. \A x \in Event : Live(x)' /\ x \notin refused' => HeldIn(queue', x) \/ InFlight(x)'
  BY <1>e, <1>0, <1>1, <1>2, Zenon DEF HomeInv, InFlight
<1>5. \A x \in Event : x \notin 1..born' => meta'[x] = None
  BY <1>0, <1>1 DEF HomeInv
<1> QED BY <1>3, <1>4, <1>5, Zenon DEF HomeInv

\* the end of a turn that puts its event back
LEMMA HomeRetried ==
    ASSUME TypeInv, TypeInv', HomeInv, InTurn, Live(call.ev), ~ InTurn', Retry,
           refused' = refused, born' = born
    PROVE  HomeInv'
<1>e. PICK e \in Event : e = call.ev
  BY TurnIs, Zenon
<1> DEFINE r == Put(queue, call.layer, e)
<1>0. /\ e \in 1..born /\ e \notin refused /\ ~ HeldIn(queue, e)
      /\ meta \in [Event -> Metas] /\ queue \in Seq(Seq(Event)) /\ call.layer \in 1..Len(queue)
      /\ \A x : HeldIn(queue, x) => x \in Event
  BY <1>e, TurnIs, BornIs, Zenon DEF HomeInv, TypeInv
<1>1. CASE meta' = [meta EXCEPT ![e] = Settled("DROPPED")] /\ queue' = queue
  <2>1. \E s \in Terminal : meta' = [meta EXCEPT ![e] = Settled(s)]
    BY <1>1 DEF Terminal
  <2> QED BY <1>e, <1>1, <2>1, HomeSettled, Zenon
<1>2. ASSUME queue' = r, NEW w \in Waiting, meta' = [meta EXCEPT ![e] = w] PROVE HomeInv'
  <2>1. OnceIn(r) /\ \A x : HeldIn(r, x) <=> HeldIn(queue, x) \/ x = e
    BY <1>0, PutIs DEF HomeInv
  <2> HIDE DEF r
  <2>2. \A x \in Event : x # e => meta'[x] = meta[x] /\ (Live(x)' <=> Live(x))
    <3>1. \A x \in Event : x # e => meta'[x] = meta[x]
      BY <1>0, <1>2
    <3> QED BY <3>1 DEF Live, Status
  <2>3. Live(e)'
    BY <1>0, <1>2, LiveNext
  <2>4. \A x : HeldIn(queue', x) =>
           x \in 1..born' /\ x \notin refused' /\ (Live(x)' \/ meta'[x] = None)
    BY <1>0, <1>2, <2>1, <2>2, <2>3, Zenon DEF HomeInv
  <2>5. \A x \in Event : Live(x)' /\ x \notin refused' => HeldIn(queue', x) \/ InFlight(x)'
    BY <1>e, <1>0, <1>2, <2>1, <2>2, Zenon DEF HomeInv, InFlight
  <2>6. \A x \in Event : x \notin 1..born' => meta'[x] = None
    BY <1>0, <2>2, Zenon DEF HomeInv
  <2> QED BY <1>2, <2>1, <2>4, <2>5, <2>6, Zenon DEF HomeInv
<1> QED BY <1>e, <1>1, <1>2, RetryIs

\* an ingest gives the new event its place and takes at most one other away
LEMMA HomeIngest ==
    ASSUME TypeInv, TypeInv', HomeInv, NEW l \in Layers, NEW ttl \in scene.ttls,
           NEW fault \in {"none", "meta", "hot", "queue"}, Ingest(l, ttl, fault)
    PROVE  HomeInv'
<1> DEFINE e == born + 1
           q == Put(queue, l, e)
           m == Kept(l, ttl, fault)
<1>0. /\ e \in Event /\ e \notin 1..born /\ l \in 1..Len(queue)
      /\ q \in Seq(Seq(Event)) /\ Len(q) = Len(queue)
      /\ born' = e /\ call' = call /\ queue \in Seq(Seq(Event)) /\ meta \in [Event -> Metas]
      /\ refused \subseteq 1..born
  BY IngestIs, Zenon DEF Ingest, TypeInv
<1>1. /\ \A x \in 1..born : x \in 1..e /\ x # e
      /\ e \in 1..e
      /\ \A x : x \in 1..e => x \in 1..born \/ x = e
      /\ 1..born \subseteq Event
  BY BornIs, SMTT(20)
<1>2. OnceIn(q) /\ \A x : HeldIn(q, x) <=> HeldIn(queue, x) \/ x = e
  <2>1. ~ HeldIn(queue, e)
    BY <1>0, Zenon DEF HomeInv
  <2> QED BY <1>0, <2>1, PutIs, Zenon DEF HomeInv
<1>3. /\ \A x : x # e => m[x] = meta[x]
      /\ m[e] \in Waiting \/ m[e] = None
  <2>1. NewMeta(e, l, ttl) \in Waiting
    <3>1. ttl \in Nat /\ DefaultTtl \in Nat /\ MaxRetries \in Nat
      BY CacheAssumption, ZenonT(30) DEF TypeInv
    <3>2. clock \in Nat /\ store.size \in Nat
      <4>1. /\ clock \in 0..scene.clock /\ scene.clock \in Nat
            /\ store \in [size : Nat, end : Nat, blocks : SUBSET [off : Nat, ev : Event]]
        BY CacheAssumption, Zenon DEF TypeInv
      <4>2. clock \in Nat
        BY <4>1
      <4>3. store.size \in Nat
        BY <4>1
      <4> QED BY <4>2, <4>3
    <3> QED BY <3>1, <3>2, SMTT(20) DEF NewMeta, Waiting
  <2>2. meta[e] = None
    BY <1>0 DEF HomeInv
  <2> QED BY <1>0, <2>1, <2>2 DEF Kept
<1>4. \A x \in Event : Live(x) <=> meta[x] \in Waiting
  BY MetaIs, Zenon
<1> HIDE DEF q, m
<1>5. m \in [Event -> Metas]
  <2>1. m[e] \in Metas
    BY <1>3, Zenon DEF Metas
  <2> QED BY <1>0, <1>3, <2>1, Zenon DEF m, Kept
<1>6. /\ InTurn' <=> InTurn
      /\ InTurn => call.ev \in 1..born /\ call.ev # e /\ call.ev \in Event
      /\ \A x : InFlight(x)' <=> InFlight(x)
  BY <1>0, <1>1, TurnIs, Zenon DEF InTurn, HomeInv, InFlight
<1>7. \A x \in Event : Live(x)' <=> meta'[x] \in Waiting
  BY LiveNext, Zenon
\* the event is refused
<1>8. CASE queue' = queue /\ meta' = m /\ refused' = refused \cup {e}
  <2>1. \A x \in 1..born : x \in Event /\ (Live(x)' <=> Live(x)) /\ meta'[x] = meta[x]
    BY <1>1, <1>3, <1>4, <1>7, <1>8, Zenon
  <2>2. \A x : HeldIn(queue', x) =>
           x \in 1..born' /\ x \notin refused' /\ (Live(x)' \/ meta'[x] = None)
    BY <1>0, <1>1, <1>8, <2>1, Zenon DEF HomeInv
  <2>3. InTurn' => /\ call'.ev \in 1..born' /\ call'.ev \notin refused'
                   /\ ~ HeldIn(queue', call'.ev)
                   /\ Live(call.ev)' \/ (call'.at = "turn" /\ meta'[call'.ev] = None)
    BY <1>0, <1>1, <1>6, <1>8, <2>1, Zenon DEF HomeInv
  <2>4. \A x \in Event : Live(x)' /\ x \notin refused' => HeldIn(queue', x) \/ InFlight(x)'
    <3> SUFFICES ASSUME NEW x \in Event, Live(x)', x \notin refused'
                 PROVE  HeldIn(queue', x) \/ InFlight(x)'
      BY Zenon
    <3>1. Live(x) /\ x \notin refused
      BY <1>3, <1>4, <1>7, <1>8, Zenon
    <3> QED BY <1>6, <1>8, <3>1, Zenon DEF HomeInv
  <2>5. \A x \in Event : x \notin 1..born' => meta'[x] = None
    BY <1>0, <1>1, <1>3, <1>8, Zenon DEF HomeInv
  <2> QED BY <1>0, <1>8, <2>2, <2>3, <2>4, <2>5, Zenon DEF HomeInv
\* the event is queued
<1> DEFINE Lost(x) == HeldIn(q, x) /\ ~ HeldIn(queue', x)
<1>9. ASSUME OnceIn(queue'), refused' = refused,
             \A x : HeldIn(queue', x) => HeldIn(q, x),
             \A x \in Event : ~ Lost(x) => meta'[x] = m[x],
             \A x \in Event : Lost(x) => meta'[x] \notin Waiting /\ (m[x] = None => meta'[x] = None)
      PROVE  HomeInv'
  <2>1. \A x \in Event : x # e /\ ~ Lost(x) =>
           (Live(x)' <=> Live(x)) /\ meta'[x] = meta[x]
    BY <1>3, <1>4, <1>7, <1>9, Zenon
  <2>2. \A x : HeldIn(queue', x) =>
           x \in 1..born' /\ x \notin refused' /\ (Live(x)' \/ meta'[x] = None)
    <3> SUFFICES ASSUME NEW x, HeldIn(queue', x)
                 PROVE  x \in 1..born' /\ x \notin refused' /\ (Live(x)' \/ meta'[x] = None)
      OBVIOUS
    <3>1. ~ Lost(x) /\ HeldIn(q, x)
      BY <1>9, Zenon
    <3>2. CASE x = e
      BY <1>0, <1>1, <1>3, <1>7, <1>9, <3>1, <3>2, Zenon
    <3>3. CASE x # e
      <4>1. HeldIn(queue, x)
        BY <1>2, <3>1, <3>3, Zenon
      <4>2. x \in 1..born /\ x \notin refused /\ (Live(x) \/ meta[x] = None)
        BY <4>1, Zenon DEF HomeInv
      <4>3. x \in Event
        BY <4>2, <1>1, Zenon
      <4> QED BY <1>0, <1>1, <1>9, <2>1, <3>1, <3>3, <4>2, <4>3, Zenon
    <3> QED BY <3>2, <3>3
  <2>3. InTurn' => /\ call'.ev \in 1..born' /\ call'.ev \notin refused'
                   /\ ~ HeldIn(queue', call'.ev)
                   /\ Live(call.ev)' \/ (call'.at = "turn" /\ meta'[call'.ev] = None)
    <3> SUFFICES ASSUME InTurn
                 PROVE  /\ call.ev \in 1..born' /\ call.ev \notin refused'
                        /\ ~ HeldIn(queue', call.ev)
                        /\ Live(call.ev)' \/ (call.at = "turn" /\ meta'[call.ev] = None)
      BY <1>0, <1>6, Zenon
    <3>1. ~ HeldIn(q, call.ev) /\ call.ev \in 1..born /\ call.ev # e /\ call.ev \in Event
          /\ call.ev \notin refused
      BY <1>2, <1>6, Zenon DEF HomeInv
    <3>2. ~ Lost(call.ev)
      BY <1>9, <3>1, Zenon
    <3>3. Live(call.ev)' <=> call.ev \in Event /\ meta'[call.ev] \in Waiting
      BY <1>0, <1>7, <3>1, Zenon DEF Live, Status
    <3>4. meta'[call.ev] = meta[call.ev]
      BY <2>1, <3>1, <3>2, Zenon
    <3> QED BY <1>0, <1>1, <1>4, <1>9, <3>1, <3>3, <3>4, Zenon DEF HomeInv
  <2>4. \A x \in Event : Live(x)' /\ x \notin refused' => HeldIn(queue', x) \/ InFlight(x)'
    <3> SUFFICES ASSUME NEW x \in Event, Live(x)', x \notin refused'
                 PROVE  HeldIn(queue', x) \/ InFlight(x)'
      OBVIOUS
    <3>1. ~ Lost(x)
      BY <1>7, <1>9, Zenon
    <3>2. x # e => HeldIn(queue, x) \/ InFlight(x)
      BY <1>9, <2>1, <3>1, Zenon DEF HomeInv
    <3>3. x = e \/ HeldIn(queue, x) => HeldIn(q, x)
      BY <1>2, Zenon
    <3> QED BY <1>6, <1>9, <3>1, <3>2, <3>3, Zenon
  <2>5. \A x \in Event : x \notin 1..born' => meta'[x] = None
    <3> SUFFICES ASSUME NEW x \in Event, x \notin 1..born' PROVE meta'[x] = None
      OBVIOUS
    <3>1. x \notin 1..born /\ x # e
      BY <1>0, <1>1, Zenon
    <3>2. m[x] = None
      BY <1>3, <3>1, Zenon DEF HomeInv
    <3> QED BY <1>9, <3>2, Zenon
  <2> QED BY <1>9, <2>2, <2>3, <2>4, <2>5, Zenon DEF HomeInv
<1>10. CASE queue' = q /\ meta' = m /\ refused' = refused
  BY <1>2, <1>9, <1>10, Zenon
<1>11. ASSUME NEW f \in 1..Len(queue), q[f] # <<>>, queue' = Take(q, f), refused' = refused,
              meta' = IF m[Head(q[f])] = None THEN m
                      ELSE [m EXCEPT ![Head(q[f])] = Settled("DROPPED")]
       PROVE  HomeInv'
  <2> DEFINE d == Head(q[f])
  <2>1. /\ d \in Event /\ HeldIn(q, d) /\ ~ HeldIn(queue', d) /\ OnceIn(queue')
        /\ \A x : HeldIn(queue', x) => HeldIn(q, x)
        /\ \A x : HeldIn(q, x) => HeldIn(queue', x) \/ x = d
    BY <1>0, <1>2, <1>11, TakeIs, Zenon
  <2> HIDE DEF d
  <2>2. meta' = IF m[d] = None THEN m ELSE [m EXCEPT ![d] = Settled("DROPPED")]
    BY <1>11 DEF d
  <2>3. \A x \in Event : x # d => meta'[x] = m[x]
    BY <1>5, <2>2, Zenon
  <2>4. meta'[d] \notin Waiting /\ (m[d] = None => meta'[d] = None)
    <3>1. Settled("DROPPED") \notin Waiting /\ None \notin Waiting
      BY MetasAre DEF Terminal
    <3> QED BY <1>5, <2>1, <2>2, <3>1, Zenon
  <2>5. \A x : Lost(x) <=> x = d
    BY <2>1, Zenon
  <2> QED BY <1>9, <1>11, <2>1, <2>3, <2>4, <2>5, Zenon
<1> QED BY <1>8, <1>10, <1>11, IngestIs, Zenon DEF q, m


\* every step keeps the homes
LEMMA HomeStep == ASSUME TypeInv, TypeInv', HomeInv, Next PROVE HomeInv'
<1>0. OnceIn(queue)
  BY DEF HomeInv
<1>1. CASE AddLayer
  <2>1. OnceIn(queue') /\ \A x : HeldIn(queue', x) <=> HeldIn(queue, x)
    BY <1>0, <1>1, GrowIs, Zenon DEF AddLayer, TypeInv
  <2>2. ~ InTurn /\ ~ InTurn' /\ meta' = meta /\ refused' = refused /\ born' = born
    BY <1>1 DEF AddLayer, InTurn, NoCall, history
  <2> QED BY <2>1, <2>2, HomeSame, Zenon
<1>2. ASSUME NEW l \in Layers, NEW ttl \in scene.ttls,
             NEW fault \in {"none", "meta", "hot", "queue"}, Ingest(l, ttl, fault)
      PROVE  HomeInv'
  BY <1>2, HomeIngest
<1>3. CASE \/ \E n \in 1..BlockAlign : IngestTorn(n)
           \/ Demote \/ ClockTicks
  <2>1. /\ queue' = queue /\ meta' = meta /\ refused' = refused /\ call' = call
        /\ born' = born \/ born' = born + 1
    BY <1>3 DEF IngestTorn, Demote, ClockTicks, state, history
  <2>2. InTurn' <=> InTurn
    BY <2>1 DEF InTurn
  <2> QED BY <1>0, <2>1, <2>2, HomeSame, ZenonT(30)
<1>4. CASE \/ \E n \in scene.batch : TickBegin(n)
           \/ LoopEnd \/ TickEnd
  <2>1. queue' = queue /\ meta' = meta /\ refused' = refused /\ born' = born
    BY <1>4, Zenon DEF TickBegin, LoopEnd, TickEnd, state, history
  <2>2. ~ InTurn /\ ~ InTurn'
    <3>1. /\ call.at \in {"idle", "loop", "demote"}
          /\ call'.at \in {"idle", "loop", "demote"}
      BY <1>4, OtherCalls, Zenon
    <3> QED BY <3>1 DEF InTurn
  <2> QED BY <1>0, <2>1, <2>2, HomeSame, Zenon
<1>5. CASE Dequeue
  <2> DEFINE l == NextLayer
             d == Head(queue[NextLayer])
             r == Take(queue, l)
  <2>1. /\ l \in 1..Len(queue) /\ queue[l] # <<>> /\ queue \in Seq(Seq(Event))
    BY <1>5, NextLayerIs, Zenon DEF Dequeue, TypeInv
  <2>2. /\ HeldIn(queue, d) /\ ~ HeldIn(r, d) /\ OnceIn(r)
        /\ \A x : HeldIn(r, x) => HeldIn(queue, x)
        /\ \A x : HeldIn(queue, x) => HeldIn(r, x) \/ x = d
    BY <1>0, <2>1, TakeIs, Zenon
  <2>3. /\ queue' = r /\ call'.at = "turn" /\ call'.ev = d
        /\ meta' = meta /\ refused' = refused /\ born' = born /\ ~ InTurn
    BY <1>5 DEF Dequeue, Take, history, InTurn
  <2> HIDE DEF d, r, l
  <2>4. InTurn' /\ \A x : (Live(x)' <=> Live(x)) /\ (InFlight(x)' <=> x = d) /\ ~ InFlight(x)
    BY <2>3 DEF InTurn, InFlight, Live, Status
  <2>5. d \in 1..born /\ d \notin refused /\ (Live(d) \/ meta[d] = None)
    BY <2>2, Zenon DEF HomeInv
  <2>6. \A x : HeldIn(queue', x) =>
           x \in 1..born' /\ x \notin refused' /\ (Live(x)' \/ meta'[x] = None)
    BY <2>2, <2>3, <2>4 DEF HomeInv
  <2>7. /\ call'.ev \in 1..born' /\ call'.ev \notin refused' /\ ~ HeldIn(queue', call'.ev)
        /\ Live(call.ev)' \/ (call'.at = "turn" /\ meta'[call'.ev] = None)
    <3>1. Live(call.ev)' <=> Live(d)
      BY <2>3 DEF Live, Status
    <3> QED BY <2>2, <2>3, <2>5, <3>1
  <2>8. \A x \in Event : Live(x)' /\ x \notin refused' => HeldIn(queue', x) \/ InFlight(x)'
    BY <2>2, <2>3, <2>4 DEF HomeInv
  <2>9. \A x \in Event : x \notin 1..born' => meta'[x] = None
    BY <2>3 DEF HomeInv
  <2> QED BY <2>2, <2>3, <2>6, <2>7, <2>8, <2>9, Zenon DEF HomeInv
<1>6. CASE TurnSkips
  <2>1. InTurn /\ queue' = queue /\ refused' = refused /\ born' = born
    BY <1>6 DEF TurnSkips, InTurn, inTurn
  <2>2. ~ InTurn'
    BY <1>6, <2>1, NextTurnIs DEF TurnSkips
  <2>3. \/ \E s \in Terminal : meta' = [meta EXCEPT ![call.ev] = Settled(s)]
        \/ (meta' = meta /\ ~ Live(call.ev))
    <3>1. CASE meta[call.ev] # None /\ Expired(call.ev)
      BY <1>6, <3>1 DEF TurnSkips, Terminal
    <3>2. CASE ~ (meta[call.ev] # None /\ Expired(call.ev))
      <4>1. meta' = meta
        BY <1>6, <3>2 DEF TurnSkips
      <4>2. meta[call.ev] = None => ~ Live(call.ev)
        BY DEF Live, Status, None
      <4> QED BY <1>6, <3>2, <4>1, <4>2 DEF TurnSkips
    <3> QED BY <3>1, <3>2
  <2> QED BY <2>1, <2>2, <2>3, HomeSettled
<1>7. CASE TurnUnread
  <2>1. InTurn /\ Live(call.ev) /\ refused' = refused /\ born' = born /\ Retry
    BY <1>7 DEF TurnUnread, InTurn, inTurn
  <2>2. ~ InTurn'
    BY <1>7, <2>1, NextTurnIs DEF TurnUnread
  <2> QED BY <2>1, <2>2, HomeRetried
<1>8. CASE TurnCalls
  <2>1. /\ queue' = queue /\ meta' = meta /\ refused' = refused /\ born' = born
        /\ InTurn /\ Live(call.ev)
    BY <1>8, Zenon DEF TurnCalls, inTurn, InTurn
  <2>2. InTurn' /\ call'.ev = call.ev
    BY <1>8, TurnCallsIs, Zenon DEF InTurn
  <2> QED BY <1>0, <2>1, <2>2, HomeSame, Zenon
<1>9. ASSUME NEW ok \in BOOLEAN, Returns(ok) PROVE HomeInv'
  <2>1. InTurn /\ call.at = "callback" /\ refused' = refused /\ born' = born
    BY <1>9 DEF Returns, InTurn, inTurn
  <2>2. ~ InTurn'
    BY <1>9, <2>1, NextTurnIs DEF Returns
  <2>3. Live(call.ev)
    BY <2>1 DEF HomeInv
  <2>4. CASE Retry
    BY <2>1, <2>2, <2>3, <2>4, HomeRetried
  <2>5. CASE meta' = [meta EXCEPT ![call.ev] = Settled("DONE")] /\ UNCHANGED queue
    <3>1. \E s \in Terminal : meta' = [meta EXCEPT ![call.ev] = Settled(s)]
      BY <2>5 DEF Terminal
    <3> QED BY <2>1, <2>2, <2>5, <3>1, HomeSettled, Zenon
  <2> QED BY <1>9, <2>4, <2>5 DEF Returns
<1>10. CASE Restart
  <2>1. /\ DOMAIN queue' = {} /\ ~ InTurn' /\ refused' = {}
        /\ \A e \in Event : meta'[e] = None
    BY <1>10 DEF Restart, InTurn, NoCall
  <2>2. \A e \in Event : ~ Live(e)'
    BY <2>1 DEF Live, Status, None
  <2> QED BY <2>1, <2>2, Zenon DEF HomeInv, OnceIn, HeldIn
<1> QED BY <1>1, <1>2, <1>3, <1>4, <1>5, <1>6, <1>7, <1>8, <1>9, <1>10, Zenon DEF Next, TickStep

\* Types and homes hold in every state: every accepted event that is not settled
\* waits in exactly one place, and what process_fn works on is live.
THEOREM HomeInvariance == Spec => [](TypeInv /\ HomeInv)
<1>1. TypeInv /\ HomeInv /\ [Next]_vars => (TypeInv /\ HomeInv)'
  <2> SUFFICES ASSUME TypeInv, HomeInv, [Next]_vars PROVE (TypeInv /\ HomeInv)'
    OBVIOUS
  <2>1. CASE Next
    BY <2>1, TypeStep, HomeStep, Zenon
  <2>2. CASE UNCHANGED vars
    BY <2>2, Zenon DEF vars, history, TypeInv, HomeInv, InTurn, Live, Status, InFlight
  <2> QED BY <2>1, <2>2
<1> QED BY <1>1, InitType, PTL DEF Spec

\* Retries, overflows, ingests made by process_fn and restarts neither lose nor
\* duplicate an event that has metadata and was not refused; an event whose
\* metadata could not be stored is in one place at most, and none promises it a
\* status when its turn discards it (OneHome).
THEOREM OneHomeHolds == Spec => []OneHome
<1>1. TypeInv /\ HomeInv => OneHome
  <2> SUFFICES ASSUME TypeInv, HomeInv, NEW e \in Event
               PROVE  /\ \A p, q \in Homes(e) : p = q
                      /\ Live(e) /\ e \notin refused => Homes(e) # {}
                      /\ Status(e) \in Terminal => Homes(e) = {}
    BY Zenon DEF OneHome
  <2>1. DOMAIN queue = Layers
    BY SMTT(20) DEF TypeInv, Layers
  <2>2. \A l, i : <<l, i>> \in Queued(e) <=>
                     l \in DOMAIN queue /\ i \in DOMAIN queue[l] /\ queue[l][i] = e
    BY <2>1 DEF Queued
  <2>3. \A p \in Queued(e) : \E l, i : p = <<l, i>>
    BY DEF Queued
  <2>4. ~ HeldIn(queue, e) => Queued(e) = {}
    BY <2>2, <2>3 DEF HeldIn
  <2>5. HeldIn(queue, e) => \E p \in Queued(e) : Queued(e) = {p}
    <3> SUFFICES ASSUME HeldIn(queue, e) PROVE \E p \in Queued(e) : Queued(e) = {p}
      OBVIOUS
    <3>1. PICK l, i : <<l, i>> \in Queued(e)
      BY <2>2, Zenon DEF HeldIn
    <3>2. ASSUME NEW p \in Queued(e) PROVE p = <<l, i>>
      <4>1. PICK k, j : p = <<k, j>>
        BY <2>3
      <4>2. /\ k \in DOMAIN queue /\ j \in DOMAIN queue[k] /\ queue[k][j] = e
            /\ l \in DOMAIN queue /\ i \in DOMAIN queue[l] /\ queue[l][i] = e
        BY <2>2, <3>1, <4>1
      <4>3. queue[k][j] = queue[l][i] /\ OnceIn(queue)
        BY <4>2, Zenon DEF HomeInv
      <4>4. k = l /\ j = i
        BY <4>2, <4>3, Zenon DEF OnceIn
      <4> QED BY <4>1, <4>4, Zenon
    <3> QED BY <3>1, <3>2
  <2>6. InFlight(e) => ~ HeldIn(queue, e) /\ ~ (Status(e) \in Terminal)
    <3>1. InFlight(e) => ~ HeldIn(queue, e) /\ (Live(e) \/ meta[e] = None)
      BY Zenon DEF InFlight, InTurn, HomeInv
    <3>2. Live(e) \/ meta[e] = None => ~ (Status(e) \in Terminal)
      BY MetaIs, MetasAre, ZenonT(30)
    <3> QED BY <3>1, <3>2
  <2>7. Status(e) \in Terminal => ~ HeldIn(queue, e)
    BY MetaIs, MetasAre DEF HomeInv
  <2>8. Live(e) /\ e \notin refused => HeldIn(queue, e) \/ InFlight(e)
    BY DEF HomeInv
  <2>9. CASE InFlight(e)
    <3>1. Homes(e) = {<<0, 1>>}
      BY <2>4, <2>6, <2>9, Zenon DEF Homes
    <3> QED BY <2>6, <2>9, <3>1, Zenon
  <2>10. CASE ~ InFlight(e)
    <3>1. Homes(e) = Queued(e)
      BY <2>10, Zenon DEF Homes
    <3>2. CASE HeldIn(queue, e)
      <4>1. PICK h \in Queued(e) : Queued(e) = {h}
        BY <2>5, <3>2, Zenon
      <4>2. (\A p, q \in Homes(e) : p = q) /\ Homes(e) # {}
        BY <3>1, <4>1
      <4> QED BY <2>7, <3>2, <4>2, Zenon
    <3>3. CASE ~ HeldIn(queue, e)
      <4>1. Homes(e) = {} /\ ~ (Live(e) /\ e \notin refused)
        BY <2>4, <2>8, <2>10, <3>1, <3>3, Zenon
      <4> QED BY <4>1, Zenon
    <3> QED BY <3>2, <3>3, Zenon
  <2> QED BY <2>9, <2>10
<1> QED BY <1>1, HomeInvariance, PTL
-----------------------------------------------------------------------------
(***************************************************************************)
(* The bound on the queues                                                 *)
(***************************************************************************)
InHand == IF InTurn THEN 1 ELSE 0

\* steps that add nothing to the queues and the event in hand, and steps that
\* leave the queues within the overflow bound
LEMMA BoundKept ==
    ASSUME TypeInv, QueuesBounded, queue' \in Seq(Seq(Event)), scene' = scene,
           \/ Entries(queue') + InHand' <= Entries(queue) + InHand
           \/ /\ InTurn' <=> InTurn
              /\ Entries(queue') <= DropQueueSize
              /\ InTurn => scene.reentrant
    PROVE  QueuesBounded'
<1> DEFINE E == Entries(queue)
           F == Entries(queue')
           D == DropQueueSize
           R == IF scene.reentrant THEN 1 ELSE 0
           h == InHand
           k == InHand'
<1>1. E \in Nat /\ F \in Nat /\ D \in Nat
  BY LengthsType, CacheAssumption DEF TypeInv
<1>2. h \in {0, 1} /\ k \in {0, 1} /\ R \in {0, 1}
  BY DEF InHand
<1>3. E + h <= D + R
  BY DEF QueuesBounded, InHand, InTurn
<1>4. QueuesBounded' <=> F + k <= D + R
  BY DEF QueuesBounded, InHand, InTurn
<1>5. CASE F + k <= E + h
  <2> HIDE DEF E, F, D, R, h, k
  <2> QED BY <1>1, <1>2, <1>3, <1>4, <1>5
<1>6. CASE F <= D /\ k <= R
  <2> HIDE DEF E, F, D, R, h, k
  <2> QED BY <1>1, <1>2, <1>4, <1>6
<1>7. (InTurn' <=> InTurn) /\ (InTurn => scene.reentrant) => k <= R
  BY DEF InHand
<1> QED BY <1>5, <1>6, <1>7

\* every step keeps the bound
LEMMA BoundStep == ASSUME TypeInv, TypeInv', HomeInv, QueuesBounded, Next PROVE QueuesBounded'
<1>0. queue \in Seq(Seq(Event)) /\ queue' \in Seq(Seq(Event)) /\ Entries(queue) \in Nat
      /\ DropQueueSize \in Nat
  BY LengthsType, CacheAssumption DEF TypeInv
<1>1. CASE AddLayer
  <2>1. Entries(queue') = Entries(queue)
    BY <1>0, <1>1, GrowIs DEF AddLayer
  <2>2. scene' = scene /\ InHand' = InHand /\ InHand \in {0, 1}
    BY <1>1 DEF AddLayer, InHand, InTurn, history
  <2> QED BY <1>0, <2>1, <2>2, BoundKept
<1>2. ASSUME NEW l \in Layers, NEW ttl \in scene.ttls, NEW fault, Ingest(l, ttl, fault)
      PROVE  QueuesBounded'
  <2> DEFINE q == Put(queue, l, born + 1)
  <2>1. scene' = scene /\ InHand' = InHand /\ InHand \in {0, 1} /\ (InTurn' <=> InTurn)
    BY <1>2, Zenon DEF Ingest, InHand, InTurn
  <2>2. InTurn => scene.reentrant
    BY <1>2, Zenon DEF Ingest, MayIngest, InTurn
  <2>3. born + 1 \in Event /\ l \in 1..Len(queue) /\ q \in Seq(Seq(Event)) /\ Len(q) = Len(queue)
    BY <1>2, IngestIs, Zenon
  <2>4. Entries(q) = Entries(queue) + 1
    BY <1>0, <2>3, PutIs, ZenonT(30)
  <2>5. \/ queue' = queue
        \/ Entries(q) <= DropQueueSize /\ queue' = q
        \/ \E f \in 1..Len(queue) : q[f] # <<>> /\ queue' = Take(q, f)
    BY <1>2, IngestIs
  <2> HIDE DEF q
  <2>6. CASE queue' = queue
    BY <1>0, <2>1, <2>6, BoundKept, SMTT(20)
  <2>7. CASE Entries(q) <= DropQueueSize /\ queue' = q
    BY <1>0, <2>1, <2>2, <2>7, BoundKept, Zenon
  <2>8. CASE \E f \in 1..Len(queue) : q[f] # <<>> /\ queue' = Take(q, f)
    <3>1. PICK f \in 1..Len(q) : q[f] # <<>> /\ queue' = Take(q, f)
      BY <2>3, <2>8, Zenon
    <3>2. Entries(queue') = Entries(q) - 1
      BY <2>3, <3>1, TakeIs, Zenon
    <3>3. Entries(queue') = Entries(queue)
      BY <1>0, <2>4, <3>2
    <3> QED BY <1>0, <2>1, <3>3, BoundKept, SMTT(20)
  <2> QED BY <2>5, <2>6, <2>7, <2>8, Zenon
<1>3. CASE \/ \E n \in 1..BlockAlign : IngestTorn(n)
           \/ Demote \/ ClockTicks
  <2>1. queue' = queue /\ scene' = scene /\ call' = call
    BY <1>3 DEF IngestTorn, Demote, ClockTicks, state, history
  <2>2. InHand' = InHand /\ InHand \in {0, 1}
    BY <2>1 DEF InHand, InTurn
  <2> QED BY <1>0, <2>1, <2>2, BoundKept, SMTT(20)
<1>4. CASE \/ \E n \in scene.batch : TickBegin(n)
           \/ LoopEnd \/ TickEnd
  <2>1. queue' = queue /\ scene' = scene
    BY <1>4, Zenon DEF TickBegin, LoopEnd, TickEnd, state, history
  <2>2. InHand' = 0 /\ InHand = 0
    BY <1>4 DEF TickBegin, LoopEnd, TickEnd, InHand, InTurn, NoCall
  <2> QED BY <1>0, <2>1, <2>2, BoundKept, SMTT(20)
<1>5. CASE Dequeue
  <2>1. NextLayer \in 1..Len(queue) /\ queue[NextLayer] # <<>>
    BY <1>5, NextLayerIs DEF Dequeue, TypeInv
  <2>2. queue' = Take(queue, NextLayer)
    BY <1>5, Zenon DEF Dequeue, Take
  <2>3. Entries(queue') = Entries(queue) - 1
    BY <1>0, <2>1, <2>2, TakeIs, Zenon
  <2>4. scene' = scene /\ InHand = 0 /\ InHand' = 1
    BY <1>5 DEF Dequeue, InHand, InTurn, history
  <2> QED BY <1>0, <2>3, <2>4, BoundKept, SMTT(20)
<1>6. CASE TurnSkips \/ TurnCalls
  <2>1. queue' = queue /\ scene' = scene /\ InHand = 1 /\ InHand' \in {0, 1}
    BY <1>6 DEF TurnSkips, TurnCalls, InHand, InTurn, inTurn
  <2> QED BY <1>0, <2>1, BoundKept, SMTT(20)
<1>7. ASSUME InTurn, Live(call.ev), Retry, NextTurn, scene' = scene
      PROVE  QueuesBounded'
  <2>1. InHand = 1 /\ InHand' = 0
    BY <1>7, NextTurnIs, Zenon DEF InHand
  <2>2. queue' = queue \/ queue' = Put(queue, call.layer, call.ev)
    BY <1>7, RetryIs, Zenon
  <2>3. call.ev \in Event /\ call.layer \in 1..Len(queue)
    BY <1>7, TurnIs, Zenon
  <2>4. Entries(Put(queue, call.layer, call.ev)) = Entries(queue) + 1
    BY <1>0, <2>3, PutIs
  <2>5. Entries(queue') + 0 <= Entries(queue) + 1
    BY <1>0, <2>2, <2>4
  <2> QED BY <1>0, <1>7, <2>1, <2>5, BoundKept, Zenon
<1>8. CASE TurnUnread
  <2>1. InTurn /\ Live(call.ev) /\ Retry /\ NextTurn /\ scene' = scene
    BY <1>8 DEF TurnUnread, InTurn, inTurn
  <2> QED BY <1>7, <2>1
<1>9. ASSUME NEW ok \in BOOLEAN, Returns(ok) PROVE QueuesBounded'
  <2>1. InTurn /\ call.at = "callback" /\ NextTurn /\ scene' = scene
    BY <1>9 DEF Returns, InTurn, inTurn
  <2>2. Live(call.ev)
    BY <2>1 DEF HomeInv
  <2>3. CASE Retry
    BY <1>7, <2>1, <2>2, <2>3, Zenon
  <2>4. CASE queue' = queue
    <3>1. InHand = 1 /\ InHand' = 0
      BY <2>1, NextTurnIs DEF InHand
    <3> QED BY <1>0, <2>1, <2>4, <3>1, BoundKept, SMTT(20)
  <2> QED BY <1>9, <2>3, <2>4, Zenon DEF Returns
<1>10. CASE Restart
  <2>1. queue' = <<>> /\ scene' = scene /\ InHand' = 0 /\ InHand \in {0, 1}
    BY <1>10 DEF Restart, InHand, InTurn, NoCall
  <2>2. Entries(<<>>) = 0
    BY EntriesEmpty
  <2> QED BY <1>0, <2>1, <2>2, BoundKept, SMTT(20)
<1> QED BY <1>1, <1>2, <1>3, <1>4, <1>5, <1>6, <1>8, <1>9, <1>10, Zenon DEF Next, TickStep

\* With the event process_fn holds, the queues never hold more than one event
\* above RAF_HD_DROP_QUEUE_SIZE, and none above it when process_fn does not
\* ingest, whatever the layers, the budgets and the failures (QueuesBounded).
THEOREM QueuesBoundedHolds == Spec => []QueuesBounded
<1>1. Init => QueuesBounded
  <2> SUFFICES ASSUME Init PROVE QueuesBounded
    OBVIOUS
  <2>1. queue = <<>> /\ call.at = "idle"
    BY DEF Init, NoCall
  <2>2. Entries(<<>>) = 0 /\ DropQueueSize \in Nat
    BY EntriesEmpty, CacheAssumption
  <2> QED BY <2>1, <2>2 DEF QueuesBounded
<1>2. TypeInv /\ TypeInv' /\ HomeInv /\ QueuesBounded /\ [Next]_vars => QueuesBounded'
  <2> SUFFICES ASSUME TypeInv, TypeInv', HomeInv, QueuesBounded, [Next]_vars
               PROVE  QueuesBounded'
    OBVIOUS
  <2>1. CASE Next
    BY <2>1, BoundStep
  <2>2. CASE UNCHANGED vars
    BY <2>2, Zenon DEF vars, history, QueuesBounded
  <2> QED BY <2>1, <2>2
<1> QED BY <1>1, <1>2, HomeInvariance, PTL DEF Spec

-----------------------------------------------------------------------------
(***************************************************************************)
(* What becomes of an event in a step, and its time to live                *)
(***************************************************************************)

\* the metadata an ingest writes are those of an event that waits
LEMMA NewMetaIs ==
    ASSUME TypeInv, NEW e, NEW l, NEW ttl \in scene.ttls
    PROVE  /\ NewMeta(e, l, ttl) \in Waiting
           /\ NewMeta(e, l, ttl).off = store.size
           /\ NewMeta(e, l, ttl).created = clock
           /\ NewMeta(e, l, ttl).retries = MaxRetries
<1>1. scene \in Scenes /\ clock \in 0..scene.clock /\ store.size \in Nat
  BY DEF TypeInv
<1>2. scene.ttls \subseteq Nat /\ scene.clock \in Nat /\ MaxRetries \in Nat /\ DefaultTtl \in Nat
  BY <1>1, CacheAssumption
<1>3. (IF ttl > 0 THEN ttl ELSE DefaultTtl) \in Nat /\ MaxRetries \in 0..MaxRetries /\ clock \in Nat
  BY <1>1, <1>2, SMTT(20)
<1> QED BY <1>1, <1>3, Zenon DEF NewMeta, Waiting

\* an ingest writes the metadata of the new event, and may drop one
LEMMA IngestMeta ==
    ASSUME TypeInv, NEW l \in Layers, NEW ttl \in scene.ttls, NEW fault,
           Ingest(l, ttl, fault), NEW e \in Event
    PROVE  \/ meta'[e] = meta[e]
           \/ e = born + 1 /\ meta'[e] = NewMeta(e, l, ttl)
           \/ meta'[e] = Settled("DROPPED")
<1>1. meta \in [Event -> Metas] /\ born + 1 \in Event
  BY IngestIs, Zenon DEF TypeInv
<1> DEFINE k == Kept(l, ttl, fault)
<1>2. k[e] = meta[e] \/ (e = born + 1 /\ k[e] = NewMeta(e, l, ttl))
  BY <1>1 DEF Kept
<1>3. DOMAIN k = Event
  BY <1>1, Zenon DEF Kept
<1>4. meta' = k \/ \E d : meta' = [k EXCEPT ![d] = Settled("DROPPED")]
  BY IngestIs, Zenon
<1> HIDE DEF k
<1> QED BY <1>2, <1>3, <1>4, Zenon

\* the metadata of an event stay, or are those of a retry or an ingest, or are
\* gone, or say that the event is settled
LEMMA EventStep ==
    ASSUME TypeInv, HomeInv, Next, NEW e \in Event
    PROVE  \/ meta'[e] = meta[e]
           \/ /\ meta[e] \in Waiting /\ meta'[e] \in Waiting
              /\ meta'[e].off = meta[e].off /\ meta'[e].created = meta[e].created
           \/ /\ e = born + 1 /\ store' = StoreAppend(e) /\ MayIngest /\ call' = call
              /\ meta'[e] \in Waiting /\ meta'[e].off = store.size /\ meta'[e].created = clock
           \/ meta'[e] \in {None, Settled("DONE"), Settled("DROPPED")}
           \/ /\ meta'[e] = Settled("EXPIRED")
              /\ call.at = "turn" /\ call.ev = e /\ Expired(e)
<1>0. meta \in [Event -> Metas]
  BY Zenon DEF TypeInv
<1>1. CASE \/ AddLayer \/ \E n \in 1..BlockAlign : IngestTorn(n)
           \/ \E n \in scene.batch : TickBegin(n)
           \/ Dequeue \/ TurnCalls \/ LoopEnd \/ Demote \/ TickEnd \/ ClockTicks
  <2>1. meta' = meta
    BY <1>1, Zenon
       DEF AddLayer, IngestTorn, TickBegin, Dequeue, TurnCalls, LoopEnd, Demote, TickEnd,
                ClockTicks, state
  <2> QED BY <2>1, Zenon
<1>2. ASSUME NEW l \in Layers, NEW ttl \in scene.ttls, NEW fault, Ingest(l, ttl, fault),
             e = born + 1, meta'[e] = NewMeta(e, l, ttl)
      PROVE  /\ store' = StoreAppend(e) /\ MayIngest /\ call' = call
             /\ meta'[e] \in Waiting /\ meta'[e].off = store.size /\ meta'[e].created = clock
  <2>1. store' = StoreAppend(e) /\ MayIngest /\ call' = call
    BY <1>2, Zenon DEF Ingest
  <2> QED BY <1>2, <2>1, NewMetaIs, Zenon
<1>3. ASSUME NEW l \in Layers, NEW ttl \in scene.ttls, NEW fault, Ingest(l, ttl, fault)
      PROVE  \/ meta'[e] = meta[e]
             \/ /\ e = born + 1 /\ store' = StoreAppend(e) /\ MayIngest /\ call' = call
                /\ meta'[e] \in Waiting /\ meta'[e].off = store.size /\ meta'[e].created = clock
             \/ meta'[e] = Settled("DROPPED")
  BY <1>2, <1>3, IngestMeta, Zenon
<1>4. CASE TurnSkips
  <2>1. /\ call.at = "turn"
        /\ meta' = IF meta[call.ev] # None /\ Expired(call.ev)
                   THEN [meta EXCEPT ![call.ev] = Settled("EXPIRED")] ELSE meta
    BY <1>4, Zenon DEF TurnSkips
  <2>2. CASE meta' = meta
    BY <2>2
  <2>3. CASE Expired(call.ev) /\ meta' = [meta EXCEPT ![call.ev] = Settled("EXPIRED")]
    <3>1. CASE e = call.ev
      BY <1>0, <2>1, <2>3, <3>1, Zenon
    <3>2. CASE e # call.ev
      BY <1>0, <2>3, <3>2, Zenon
    <3> QED BY <3>1, <3>2
  <2> QED BY <2>1, <2>2, <2>3, Zenon
<1>5. ASSUME InTurn, Live(call.ev), Retry
      PROVE  \/ meta'[e] = meta[e]
             \/ /\ meta[e] \in Waiting /\ meta'[e] \in Waiting
                /\ meta'[e].off = meta[e].off /\ meta'[e].created = meta[e].created
             \/ meta'[e] = Settled("DROPPED")
  <2>1. /\ meta[call.ev] \in Waiting
        /\ \/ \E w \in Waiting : /\ meta' = [meta EXCEPT ![call.ev] = w]
                                 /\ w.off = meta[call.ev].off /\ w.created = meta[call.ev].created
           \/ meta' = [meta EXCEPT ![call.ev] = Settled("DROPPED")]
    BY <1>5, RetryIs, Zenon
  <2> QED BY <1>0, <2>1, Zenon
<1>6. CASE TurnUnread
  <2>1. InTurn /\ Live(call.ev) /\ Retry
    BY <1>6, Zenon DEF TurnUnread, InTurn
  <2> QED BY <1>5, <2>1, Zenon
<1>7. ASSUME NEW ok \in BOOLEAN, Returns(ok)
      PROVE  \/ meta'[e] = meta[e]
             \/ /\ meta[e] \in Waiting /\ meta'[e] \in Waiting
                /\ meta'[e].off = meta[e].off /\ meta'[e].created = meta[e].created
             \/ meta'[e] \in {Settled("DONE"), Settled("DROPPED")}
  <2>1. InTurn /\ Live(call.ev)
    BY <1>7, Zenon DEF Returns, InTurn, HomeInv
  <2>2. CASE Retry
    BY <1>5, <2>1, <2>2, Zenon
  <2>3. CASE meta' = [meta EXCEPT ![call.ev] = Settled("DONE")]
    BY <1>0, <2>3, Zenon
  <2> QED BY <1>7, <2>2, <2>3, Zenon DEF Returns
<1>8. CASE Restart
  BY <1>8, Zenon DEF Restart
<1> QED BY <1>1, <1>3, <1>4, <1>6, <1>7, <1>8, Zenon DEF Next, TickStep

\* a tick works on events
Working == call.at = "loop" \/ InTurn

\* Neither a tick nor an event that waits begins after the present, and, unless
\* process_fn ingests, no event that waits is younger than the tick.
ClockInv ==
    /\ Working => call.now <= clock
    /\ \A e \in Event : Live(e) => /\ meta[e].created <= clock
                                   /\ Working => meta[e].created <= call.now

\* the clock does not go back, and a tick keeps the time it began with
LEMMA WorkStep ==
    ASSUME Next
    PROVE  /\ clock' = clock \/ clock' = clock + 1
           /\ Working' => \/ Working /\ call'.now = call.now
                          \/ clock' = clock /\ call'.now = clock /\ meta' = meta
<1>1. CASE AddLayer \/ Demote
  <2>1. clock' = clock /\ call' = call
    BY <1>1, OtherCalls, Zenon DEF AddLayer, Demote
  <2> QED BY <2>1, Zenon DEF InTurn, Working
<1>2. ASSUME NEW n, TickBegin(n) PROVE clock' = clock /\ call'.now = clock /\ meta' = meta
  BY <1>2, OtherCalls, Zenon DEF TickBegin, state
<1>3. CASE LoopEnd \/ TickEnd \/ Restart
  <2>1. call'.at = "demote" \/ call'.at = "idle"
    BY <1>3, OtherCalls, Zenon
  <2>2. clock' = clock
    BY <1>3, Zenon DEF LoopEnd, TickEnd, Restart
  <2>3. ~ Working'
    BY <2>1 DEF InTurn, Working
  <2> QED BY <2>2, <2>3, Zenon
<1>4. CASE \/ \E l \in Layers, ttl \in scene.ttls, fault \in {"none", "meta", "hot", "queue"} :
                Ingest(l, ttl, fault)
           \/ \E n \in 1..BlockAlign : IngestTorn(n)
  <2>1. ASSUME NEW l, NEW ttl, NEW fault, Ingest(l, ttl, fault)
        PROVE  clock' = clock /\ call' = call
    BY <2>1, Zenon DEF Ingest
  <2>2. ASSUME NEW n, IngestTorn(n) PROVE clock' = clock /\ call' = call
    BY <2>2 DEF IngestTorn
  <2>3. clock' = clock /\ call' = call
    BY <1>4, <2>1, <2>2, Zenon
  <2> QED BY <2>3, Zenon DEF InTurn, Working
<1>5. CASE Dequeue \/ TurnSkips \/ TurnUnread \/ TurnCalls \/ \E ok \in BOOLEAN : Returns(ok)
  <2>1. clock' = clock /\ call'.now = call.now /\ (call.at = "loop" \/ InTurn)
    <3>1. CASE Dequeue
      BY <3>1, Zenon DEF Dequeue, NextTurn, inTurn, InTurn
    <3>2. CASE TurnSkips \/ TurnUnread
      BY <3>2, SMTT(20) DEF TurnSkips, TurnUnread, NextTurn, inTurn, InTurn
    <3>3. CASE TurnCalls \/ \E ok \in BOOLEAN : Returns(ok)
      <4>1. ASSUME NEW ok, Returns(ok)
            PROVE  clock' = clock /\ NextTurn /\ call.at = "callback"
        BY <4>1, Zenon DEF Returns, inTurn
      <4>2. TurnCalls => clock' = clock /\ call.at = "turn"
        BY Zenon DEF TurnCalls, inTurn
      <4> QED BY <3>3, <4>1, <4>2, TurnCallsIs, TurnOver, Zenon DEF InTurn
    <3> QED BY <1>5, <3>1, <3>2, <3>3, Zenon
  <2> QED BY <2>1, Zenon DEF Working
<1>6. CASE ClockTicks
  <2>1. clock' = clock + 1 /\ call' = call
    BY <1>6, Zenon DEF ClockTicks
  <2> QED BY <2>1, Zenon DEF InTurn, Working
<1> QED BY <1>1, <1>2, <1>3, <1>4, <1>5, <1>6, Zenon DEF Next, TickStep

\* every step of a cache whose process_fn does not ingest keeps that
LEMMA ClockStep ==
    ASSUME TypeInv, TypeInv', HomeInv, ClockInv, ~ scene.reentrant, Next
    PROVE  ClockInv'
<1>1. clock \in Nat /\ (Working => call.now \in Nat)
  <2>1. scene \in Scenes /\ clock \in 0..scene.clock /\ call \in Calls
    BY Zenon DEF TypeInv
  <2>2. clock \in Nat
    BY <2>1, CacheAssumption
  <2>3. call.at = "loop" => call.now \in Nat
    BY <2>1 DEF Calls, NoCall
  <2> QED BY <2>2, <2>3, TurnIs, Zenon DEF Working
<1>2. Working' => call'.now <= clock'
  BY <1>1, WorkStep DEF ClockInv
<1>3. ASSUME NEW e \in Event, Live(e)'
      PROVE  /\ meta'[e].created <= clock'
             /\ Working' => meta'[e].created <= call'.now
  <2> DEFINE c == meta[e].created
             d == meta'[e].created
  <2>1. meta'[e] \in Waiting
    BY <1>3, LiveNext
  <2>2. meta'[e] \notin {None, Settled("DONE"), Settled("DROPPED")} /\ meta'[e] # Settled("EXPIRED")
    BY <2>1, MetasAre, Zenon DEF Terminal
  <2>3. \/ meta'[e] = meta[e]
        \/ meta[e] \in Waiting /\ d = c
        \/ MayIngest /\ call' = call /\ d = clock
    BY <2>2, EventStep, Zenon
  <2>4. CASE meta[e] \in Waiting /\ d = c
    <3>1. Live(e)
      BY <2>4, MetaIs
    <3>2. c \in Nat
      BY <2>4 DEF Waiting
    <3>3. c <= clock /\ (Working => c <= call.now)
      BY <3>1, Zenon DEF ClockInv
    <3> HIDE DEF c, d
    <3>4. d <= clock' /\ (Working' => d <= call'.now)
      BY <1>1, <2>4, <3>2, <3>3, WorkStep
    <3> QED BY <3>4, Zenon DEF d
  <2>5. CASE MayIngest /\ call' = call /\ d = clock
    <3>1. ~ Working'
      BY <2>5 DEF MayIngest, Working, InTurn
    <3> HIDE DEF d
    <3>2. d <= clock'
      BY <1>1, <2>5, WorkStep
    <3> QED BY <3>1, <3>2, Zenon DEF d
  <2> QED BY <2>1, <2>3, <2>4, <2>5, Zenon
<1> QED BY <1>2, <1>3, Zenon DEF ClockInv

\* When process_fn does not ingest, a tick expires an event only past its time to
\* live: an age, which is unsigned, does not wrap (ExpiredIsPastTtl).  With a
\* process_fn that ingests the property fails (MCHDCacheTtl).
THEOREM ExpiredIsPastTtlAlone == Spec /\ [](~ scene.reentrant) => ExpiredIsPastTtl
<1> DEFINE Alone == ~ scene.reentrant
           Due(e) == Live(e) /\ Status(e)' = "EXPIRED"
                       => call.now - meta[e].created > meta[e].ttl
<1>1. Init => ClockInv
  <2> SUFFICES ASSUME Init PROVE ClockInv
    OBVIOUS
  <2>1. call.at = "idle" /\ \A e \in Event : meta[e] = None
    BY DEF Init, NoCall
  <2>2. ~ Working
    BY <2>1 DEF InTurn, Working
  <2>3. \A e \in Event : ~ Live(e)
    BY <2>1 DEF Live, Status, None
  <2> QED BY <2>2, <2>3, Zenon DEF ClockInv
<1>2. TypeInv /\ TypeInv' /\ HomeInv /\ ClockInv /\ Alone /\ [Next]_vars => ClockInv'
  <2>1. ASSUME ClockInv, UNCHANGED vars PROVE ClockInv'
    BY <2>1, Zenon DEF vars, history, ClockInv, Working, InTurn, Live, Status
  <2> QED BY <2>1, ClockStep, Zenon
<1>3. TypeInv /\ HomeInv /\ ClockInv /\ [Next]_vars => [\A e \in Event : Due(e)]_vars
  <2> SUFFICES ASSUME TypeInv, HomeInv, ClockInv, Next, NEW e \in Event,
                      Live(e), Status(e)' = "EXPIRED"
               PROVE  call.now - meta[e].created > meta[e].ttl
    OBVIOUS
  <2>1. meta'[e].status = "EXPIRED" /\ meta[e].status # "EXPIRED"
    BY DEF Status, Live
  <2>2. /\ \A w \in Waiting : w.status # "EXPIRED"
        /\ \A m \in {None, Settled("DONE"), Settled("DROPPED")} : m.status # "EXPIRED"
    BY SMTT(20) DEF Waiting, None, Settled
  <2>3. call.at = "turn" /\ call.ev = e /\ Expired(e)
    BY <2>1, <2>2, EventStep, Zenon
  <2> DEFINE a == call.now
             b == meta[e].created
             t == meta[e].ttl
             N == NsMod
  <2>4. a \in Nat /\ a <= clock /\ b <= a
    BY <2>3, TurnIs, Zenon DEF InTurn, Working, ClockInv
  <2>5. b \in Nat /\ t \in Nat
    BY MetaIs DEF Waiting
  <2>6. N \in Nat /\ a < N
    <3>1. scene \in Scenes /\ clock \in 0..scene.clock
      BY DEF TypeInv
    <3>2. scene.clock \in Nat /\ scene.clock < NsMod /\ NsMod \in Nat
      BY <3>1, CacheAssumption
    <3> HIDE DEF a, b
    <3> QED BY <2>4, <3>1, <3>2
  <2>7. (a - b) % N > t
    BY <2>3 DEF Expired
  <2> HIDE DEF a, b, t, N
  <2>8. a - b \in 0..N - 1
    BY <2>4, <2>5, <2>6
  <2>9. (a - b) % N = a - b
    BY <2>6, <2>8
  <2> QED BY <2>7, <2>9 DEF a, b, t
<1>4. [](TypeInv /\ HomeInv /\ ClockInv) /\ [][Next]_vars => [][\A e \in Event : Due(e)]_vars
  BY <1>3, PTL
<1>5. Spec /\ []Alone => []ClockInv
  BY <1>1, <1>2, HomeInvariance, PTL DEF Spec
<1>6. Spec /\ []Alone => ExpiredIsPastTtl
  BY <1>4, <1>5, HomeInvariance, PTL DEF Spec, ExpiredIsPastTtl
<1> QED BY <1>6
=============================================================================
