------------------------- MODULE HDCacheStoreProofs -------------------------
(***************************************************************************)
(* Proofs about what HDCache keeps: the payloads in the tiers, the blocks  *)
(* on disk, and the count of attempts.  They rest on the types and places  *)
(* of HDCacheProofs, and the blocks on the tiers.                          *)
(***************************************************************************)
EXTENDS HDCacheProofs, FiniteSetTheorems

-----------------------------------------------------------------------------
(***************************************************************************)
(* The tiers                                                               *)
(***************************************************************************)
ListsOf(t) == [i \in Tiers |-> t[i].entries]

\* the tiers t count their bytes exactly and hold each event at most once
Exact(t) ==
    /\ t \in [Tiers -> [entries : Seq(Event), used : Nat]]
    /\ \A i \in Tiers : t[i].used = Bytes(t[i].entries)
    /\ OnceIn(ListsOf(t))

\* the bytes of a list of events
LEMMA BytesType ==
    ASSUME NEW s \in Seq(Event)
    PROVE  /\ [i \in 1..Len(s) |-> PayloadLen[s[i]]] \in Seq(Nat)
           /\ Bytes(s) \in Nat
           /\ s = <<>> => Bytes(s) = 0
<1> DEFINE v == [i \in 1..Len(s) |-> PayloadLen[s[i]]]
<1>1. \A i \in 1..Len(s) : PayloadLen[s[i]] \in Nat
  BY CacheAssumption
<1>2. v \in Seq(Nat) /\ Len(v) = Len(s)
  BY <1>1
<1> HIDE DEF v
<1>3. Total(v) \in Nat /\ (s = <<>> => Total(v) = 0)
  BY <1>2, TotalType, TotalEmpty
<1> QED BY <1>2, <1>3 DEF Bytes, v

\* an event taken out of a list takes its length off the bytes
LEMMA BytesErase ==
    ASSUME NEW s \in Seq(Event), NEW r \in Seq(Event), NEW i \in 1..Len(s),
           Len(r) = Len(s) - 1,
           \A j \in 1..i - 1 : r[j] = s[j],
           \A j \in i..Len(r) : r[j] = s[j + 1]
    PROVE  Bytes(r) = Bytes(s) - PayloadLen[s[i]]
<1> DEFINE v == [j \in 1..Len(s) |-> PayloadLen[s[j]]]
           w == [j \in 1..Len(r) |-> PayloadLen[r[j]]]
<1>1. v \in Seq(Nat) /\ w \in Seq(Nat)
  BY BytesType
<1>2. Len(v) = Len(s) /\ Len(w) = Len(r) /\ v[i] = PayloadLen[s[i]]
  OBVIOUS
<1>3. \A j \in 1..i - 1 : w[j] = v[j]
  <2> TAKE j \in 1..i - 1
  <2>1. j \in 1..Len(s) /\ j \in 1..Len(r) /\ r[j] = s[j]
    OBVIOUS
  <2> QED BY <2>1
<1>4. \A j \in i..Len(w) : w[j] = v[j + 1]
  <2> TAKE j \in i..Len(w)
  <2>1. j + 1 \in 1..Len(s) /\ j \in 1..Len(r) /\ r[j] = s[j + 1]
    BY <1>2
  <2> QED BY <2>1
<1>5. Total(v) = Bytes(s) /\ Total(w) = Bytes(r)
  BY DEF Bytes
<1> HIDE DEF v, w
<1>6. i \in 1..Len(v) /\ Len(w) = Len(v) - 1
  BY <1>2
<1>7. Total(w) = Total(v) - v[i]
  BY <1>1, <1>3, <1>4, <1>6, TotalErase, Zenon
<1> QED BY <1>2, <1>5, <1>7

\* the lists of the tiers
LEMMA ListsIs ==
    ASSUME NEW t, t \in [Tiers -> [entries : Seq(Event), used : Nat]]
    PROVE  /\ ListsOf(t) \in Seq(Seq(Event)) /\ Len(ListsOf(t)) = 3
           /\ DOMAIN ListsOf(t) = Tiers
           /\ \A i \in Tiers : /\ ListsOf(t)[i] = t[i].entries
                               /\ t[i].entries \in Seq(Event) /\ t[i].used \in Nat
<1>1. \A i \in 1..3 : t[i].entries \in Seq(Event) /\ t[i].used \in Nat
  BY DEF Tiers
<1>2. ListsOf(t) = [i \in 1..3 |-> t[i].entries]
  BY DEF ListsOf, Tiers
<1>3. ListsOf(t) \in Seq(Seq(Event)) /\ Len(ListsOf(t)) = 3
  BY <1>1, <1>2
<1> QED BY <1>1, <1>2, <1>3 DEF Tiers

PutInto(t, i, e, u) == u = [t EXCEPT ![i] = TierPut(@, e)]
DropFrom(t, i, u) == u = [t EXCEPT ![i] = TierRemove(@, Len(@.entries))]

\* an event that is in no tier is put into one
LEMMA TierPutIs ==
    ASSUME NEW t, Exact(t), NEW i \in Tiers, NEW e \in Event, ~ HeldIn(ListsOf(t), e),
           NEW u, PutInto(t, i, e, u)
    PROVE  /\ Exact(u)
           /\ \A x : HeldIn(ListsOf(u), x) <=> HeldIn(ListsOf(t), x) \/ x = e
           /\ \A j \in Tiers : j # i => u[j] = t[j]
<1> DEFINE s == t[i].entries
           r == <<e>> \o s
           n == Len(s)
           p == PayloadLen[e]
           T == ListsOf(t)
           U == ListsOf(u)
<1>1. t \in [Tiers -> [entries : Seq(Event), used : Nat]] /\ OnceIn(T)
      /\ \A j \in Tiers : t[j].used = Bytes(t[j].entries)
  BY DEF Exact
<1>2. /\ T \in Seq(Seq(Event)) /\ Len(T) = 3 /\ DOMAIN T = Tiers
      /\ \A j \in Tiers : T[j] = t[j].entries
      /\ s \in Seq(Event) /\ t[i].used \in Nat /\ n \in Nat
  BY <1>1, ListsIs
<1>3. p \in Nat
  BY CacheAssumption
<1>4. TierPut(t[i], e) = [entries |-> r, used |-> t[i].used + p]
  <2>1. {j \in DOMAIN t[i].entries : t[i].entries[j] = e} = {}
    BY <1>2 DEF HeldIn
  <2> QED BY <2>1, Zenon DEF TierPut, TierAdd
<1>5. r \in Seq(Event) /\ Len(r) = n + 1 /\ r[1] = e /\ \A j \in 1..n : r[j + 1] = s[j]
  <2> HIDE DEF s
  <2>1. <<e>> \in Seq(Event) /\ Len(<<e>>) = 1 /\ <<e>>[1] = e
    OBVIOUS
  <2>2. r \in Seq(Event) /\ Len(r) = n + 1 /\ r[1] = e
    BY <1>2, <2>1
  <2>3. ASSUME NEW j \in 1..n PROVE r[j + 1] = s[j]
    <3>1. j + 1 \in 1..n + 1 /\ j + 1 > 1 /\ (j + 1) - 1 = j
      BY <1>2
    <3> QED BY <1>2, <2>1, <3>1
  <2> QED BY <2>2, <2>3
<1>6. /\ u \in [Tiers -> [entries : Seq(Event), used : Nat]]
      /\ u[i] = [entries |-> r, used |-> t[i].used + p]
      /\ \A j \in Tiers : j # i => u[j] = t[j]
  <2>1. t[i].used + p \in Nat
    BY <1>2, <1>3
  <2> QED BY <1>1, <1>4, <1>5, <2>1 DEF PutInto
<1>7. Bytes(r) = Bytes(s) + p
  <2> HIDE DEF r, s
  <2>1. /\ 1 \in 1..Len(r) /\ Len(s) = Len(r) - 1
        /\ \A j \in 1..1 - 1 : s[j] = r[j]
        /\ \A j \in 1..Len(s) : s[j] = r[j + 1]
    BY <1>2, <1>5
  <2>2. Bytes(s) = Bytes(r) - PayloadLen[r[1]]
    BY <1>2, <1>5, <2>1, BytesErase, Zenon
  <2>3. Bytes(s) \in Nat /\ Bytes(r) \in Nat
    BY <1>2, <1>5, BytesType
  <2> QED BY <1>3, <1>5, <2>2, <2>3
<1>8. \A j \in Tiers : u[j].used = Bytes(u[j].entries)
  <2>1. u[i].used = Bytes(u[i].entries)
    <3>1. u[i].used = t[i].used + p /\ u[i].entries = r /\ t[i].used = Bytes(s)
      BY <1>1, <1>6
    <3> HIDE DEF r, s, p
    <3> QED BY <1>7, <3>1
  <2> QED BY <1>1, <1>6, <2>1, Zenon
<1>9. /\ U \in Seq(Seq(Event)) /\ Len(U) = 3 /\ DOMAIN U = Tiers
      /\ U[i] = r /\ \A j \in Tiers : j # i => U[j] = T[j]
  <2>1. /\ U \in Seq(Seq(Event)) /\ Len(U) = 3 /\ DOMAIN U = Tiers
        /\ \A j \in Tiers : U[j] = u[j].entries
    BY <1>6, ListsIs
  <2>2. u[i].entries = r /\ \A j \in Tiers : j # i => u[j] = t[j]
    BY <1>6
  <2>3. \A j \in Tiers : T[j] = t[j].entries
    BY <1>2
  <2> HIDE DEF T, U, r
  <2>4. U[i] = r
    BY <2>1, <2>2
  <2>5. ASSUME NEW j \in Tiers, j # i PROVE U[j] = T[j]
    <3>1. u[j] = t[j]
      BY <2>2, <2>5
    <3> QED BY <2>1, <2>3, <3>1
  <2> QED BY <2>1, <2>4, <2>5
<1>10. Inserted(T, U, i, 1)
  <2>1. i \in 1..3 /\ T[i] = s /\ 1 \in 1..n + 1 /\ \A j \in 1..1 - 1 : FALSE
    BY <1>2 DEF Tiers
  <2> HIDE DEF T, U, r, s, n
  <2>2. \A m \in 1..3 : m # i => U[m] = T[m]
    BY <1>9 DEF Tiers
  <2> QED BY <1>2, <1>5, <1>9, <2>1, <2>2 DEF Inserted, n
<1>11. /\ \A x : HeldIn(U, x) <=> HeldIn(T, x) \/ x = U[i][1]
       /\ OnceIn(U) <=> OnceIn(T) /\ ~ HeldIn(T, U[i][1])
  BY <1>10, InsertIs
<1>12. U[i][1] = e
  BY <1>5, <1>9
<1> QED BY <1>1, <1>6, <1>8, <1>11, <1>12 DEF Exact

\* the last event of a tier is taken off it
LEMMA TierDropIs ==
    ASSUME NEW t, Exact(t), NEW i \in Tiers, t[i].entries # <<>>,
           NEW u, DropFrom(t, i, u),
           NEW d, d = t[i].entries[Len(t[i].entries)]
    PROVE  /\ Exact(u) /\ d \in Event
           /\ HeldIn(ListsOf(t), d) /\ ~ HeldIn(ListsOf(u), d)
           /\ \A x : HeldIn(ListsOf(u), x) => HeldIn(ListsOf(t), x)
<1> DEFINE s == t[i].entries
           n == Len(s)
           r == Without(s, n)
           p == PayloadLen[d]
           T == ListsOf(t)
           U == ListsOf(u)
<1>1. t \in [Tiers -> [entries : Seq(Event), used : Nat]] /\ OnceIn(T)
      /\ \A j \in Tiers : t[j].used = Bytes(t[j].entries)
  BY DEF Exact
<1>2. /\ T \in Seq(Seq(Event)) /\ Len(T) = 3 /\ DOMAIN T = Tiers
      /\ \A j \in Tiers : T[j] = t[j].entries
      /\ s \in Seq(Event) /\ t[i].used \in Nat /\ n \in Nat
  BY <1>1, ListsIs
<1>3. n \in 1..Len(s) /\ d = s[n] /\ d \in Event /\ p \in Nat
  <2>1. s # <<>> /\ d = s[n]
    OBVIOUS
  <2> HIDE DEF s
  <2>2. n \in 1..Len(s)
    BY <1>2, <2>1
  <2>3. d \in Event
    BY <1>2, <2>1, <2>2
  <2>4. p \in Nat
    BY <2>3, CacheAssumption
  <2> QED BY <2>1, <2>2, <2>3, <2>4
<1>4. r \in Seq(Event) /\ Len(r) = n - 1 /\ \A j \in 1..n - 1 : r[j] = s[j]
  BY <1>2, <1>3, WithoutIs, Zenon
<1>5. Bytes(r) = Bytes(s) - p /\ Bytes(r) \in Nat /\ Bytes(s) = t[i].used
  <2> HIDE DEF r, s
  <2>1. Len(r) = Len(s) - 1 /\ \A j \in n..Len(r) : r[j] = s[j + 1]
    BY <1>2, <1>4 DEF n
  <2>2. Bytes(r) = Bytes(s) - PayloadLen[s[n]]
    BY <1>2, <1>3, <1>4, <2>1, BytesErase, Zenon
  <2>3. Bytes(r) \in Nat
    BY <1>4, BytesType
  <2> QED BY <1>1, <1>3, <2>2, <2>3 DEF s
<1>6. /\ u \in [Tiers -> [entries : Seq(Event), used : Nat]]
      /\ u[i] = [entries |-> r, used |-> t[i].used - p]
      /\ \A j \in Tiers : j # i => u[j] = t[j]
  <2>1. TierRemove(t[i], n) = [entries |-> r, used |-> t[i].used - p]
    BY <1>3 DEF TierRemove
  <2>2. t[i].used - p \in Nat
    BY <1>5
  <2> QED BY <1>1, <1>4, <2>1, <2>2 DEF DropFrom
<1>7. \A j \in Tiers : u[j].used = Bytes(u[j].entries)
  <2>1. u[i].used = Bytes(u[i].entries)
    <3>1. u[i].used = t[i].used - p /\ u[i].entries = r
      BY <1>6
    <3> HIDE DEF r, s, p
    <3> QED BY <1>5, <3>1
  <2> QED BY <1>1, <1>6, <2>1, Zenon
<1>8. /\ U \in Seq(Seq(Event)) /\ Len(U) = 3 /\ DOMAIN U = Tiers
      /\ U[i] = r /\ \A j \in Tiers : j # i => U[j] = T[j]
  <2>1. /\ U \in Seq(Seq(Event)) /\ Len(U) = 3 /\ DOMAIN U = Tiers
        /\ \A j \in Tiers : U[j] = u[j].entries
    BY <1>6, ListsIs
  <2>2. u[i].entries = r /\ \A j \in Tiers : j # i => u[j] = t[j]
    BY <1>6
  <2>3. \A j \in Tiers : T[j] = t[j].entries
    BY <1>2
  <2> HIDE DEF T, U, r
  <2>4. U[i] = r
    BY <2>1, <2>2
  <2>5. ASSUME NEW j \in Tiers, j # i PROVE U[j] = T[j]
    <3>1. u[j] = t[j]
      BY <2>2, <2>5
    <3> QED BY <2>1, <2>3, <3>1
  <2> QED BY <2>1, <2>4, <2>5
<1>9. Inserted(U, T, i, n)
  <2>1. /\ i \in 1..3 /\ T[i] = s /\ n \in 1..Len(s) /\ Len(s) = (n - 1) + 1
        /\ \A j \in n..n - 1 : FALSE
    BY <1>2, <1>3 DEF Tiers
  <2> HIDE DEF T, U, r, s, n
  <2>2. \A m \in 1..3 : m # i => T[m] = U[m]
    BY <1>8 DEF Tiers
  <2> QED BY <1>2, <1>4, <1>8, <2>1, <2>2 DEF Inserted
<1>10. /\ \A x : HeldIn(T, x) <=> HeldIn(U, x) \/ x = T[i][n]
       /\ OnceIn(T) <=> OnceIn(U) /\ ~ HeldIn(U, T[i][n])
  BY <1>9, InsertIs
<1>11. T[i][n] = d
  BY <1>2, <1>3
<1> QED BY <1>1, <1>3, <1>6, <1>7, <1>10, <1>11 DEF Exact

\* the tiers are exact and hold events that were ingested; outside a demotion
\* the two lower ones are within their budgets
TierInv ==
    /\ Exact(tier)
    /\ \A e : HeldIn(ListsOf(tier), e) => e \in 1..born
    /\ call.at # "demote" => \A i \in 2..3 : tier[i].used <= Budgets[i]

\* empty tiers
LEMMA TierEmpty ==
    ASSUME NEW t, t = [i \in Tiers |-> [entries |-> <<>>, used |-> 0]]
    PROVE  /\ Exact(t) /\ \A e : ~ HeldIn(ListsOf(t), e)
           /\ \A i \in 2..3 : t[i].used <= Budgets[i]
<1>1. t \in [Tiers -> [entries : Seq(Event), used : Nat]]
  OBVIOUS
<1>2. \A i \in Tiers : t[i].entries = <<>> /\ t[i].used = 0
  OBVIOUS
<1>3. Bytes(<<>>) = 0
  <2>1. <<>> \in Seq(Event)
    OBVIOUS
  <2> QED BY <2>1, BytesType, Zenon
<1>4. \A i \in DOMAIN ListsOf(t) : DOMAIN ListsOf(t)[i] = {}
  <2>1. DOMAIN ListsOf(t) = Tiers /\ \A i \in Tiers : ListsOf(t)[i] = <<>>
    BY <1>1, <1>2, ListsIs, Zenon
  <2>2. \A s : s = <<>> => DOMAIN s = {}
    OBVIOUS
  <2> QED BY <2>1, <2>2
<1>5. Exact(t) /\ \A e : ~ HeldIn(ListsOf(t), e)
  BY <1>1, <1>2, <1>3, <1>4 DEF Exact, OnceIn, HeldIn
<1>6. \A i \in 2..3 : i \in Tiers /\ Budgets[i] \in Nat
  BY CacheAssumption, SMTT(20) DEF Tiers
<1> QED BY <1>2, <1>5, <1>6

\* an ingest puts the event into L1, unless there is no memory for it
LEMMA IngestTier ==
    ASSUME TypeInv, TierInv, NEW l, NEW ttl, NEW fault, Ingest(l, ttl, fault)
    PROVE  /\ Exact(tier')
           /\ \A x : HeldIn(ListsOf(tier), x) => HeldIn(ListsOf(tier'), x)
           /\ \A x : HeldIn(ListsOf(tier'), x) => HeldIn(ListsOf(tier), x) \/ x = born + 1
           /\ \A i \in 2..3 : tier'[i] = tier[i]
<1> DEFINE e == born + 1
<1>1. /\ tier' = IF fault = "hot" THEN tier ELSE [tier EXCEPT ![1] = TierPut(@, e)]
      /\ born < MaxEvents
  BY DEF Ingest
<1>2. CASE fault = "hot"
  BY <1>1, <1>2 DEF TierInv
<1>3. CASE fault # "hot"
  <2>1. e \in Event /\ e \notin 1..born
    <3>1. born \in 0..MaxEvents /\ MaxEvents \in Nat
      BY CacheAssumption DEF TypeInv
    <3> QED BY <1>1, <3>1 DEF Event
  <2>2. ~ HeldIn(ListsOf(tier), e)
    BY <2>1 DEF TierInv
  <2> HIDE DEF e
  <2>3. PutInto(tier, 1, e, tier') /\ 1 \in Tiers
    BY <1>1, <1>3 DEF Tiers, PutInto
  <2>4. /\ Exact(tier')
        /\ \A x : HeldIn(ListsOf(tier'), x) <=> HeldIn(ListsOf(tier), x) \/ x = e
        /\ \A j \in Tiers : j # 1 => tier'[j] = tier[j]
    BY <2>1, <2>2, <2>3, TierPutIs DEF TierInv
  <2>5. \A i \in 2..3 : tier'[i] = tier[i]
    BY <2>4 DEF Tiers
  <2> QED BY <2>4, <2>5 DEF e
<1> QED BY <1>2, <1>3

\* the events the tiers hold
LEMMA CachedIs ==
    ASSUME NEW t, Exact(t)
    PROVE  \A e : HeldIn(ListsOf(t), e) <=> \E i \in Tiers : e \in Range(t[i].entries)
BY ListsIs DEF Exact, HeldIn, Range

\* every step keeps that
LEMMA TierStep == ASSUME TypeInv, TierInv, Next PROVE TierInv'
<1>0. /\ Exact(tier) /\ tier \in [Tiers -> [entries : Seq(Event), used : Nat]]
      /\ \A e : HeldIn(ListsOf(tier), e) => e \in 1..born
  BY DEF TierInv, Exact
<1>1. ASSUME tier' = tier, born' = born \/ born' = born + 1,
             call.at # "demote" \/ call'.at = "demote"
      PROVE  TierInv'
  <2>1. \A e : e \in 1..born => e \in 1..born'
    BY <1>1 DEF TypeInv
  <2> QED BY <1>1, <2>1 DEF TierInv
<1>2. ASSUME NEW l, NEW ttl, NEW fault, Ingest(l, ttl, fault) PROVE TierInv'
  <2>1. /\ Exact(tier')
        /\ \A x : HeldIn(ListsOf(tier'), x) => HeldIn(ListsOf(tier), x) \/ x = born + 1
        /\ \A i \in 2..3 : tier'[i] = tier[i]
    BY <1>2, IngestTier
  <2>2. born' = born + 1 /\ call' = call /\ call.at # "demote"
    BY <1>2 DEF Ingest, MayIngest
  <2>3. \A x : x \in 1..born \/ x = born + 1 => x \in 1..born'
    BY <2>2, SMTT(20) DEF TypeInv
  <2> QED BY <1>0, <2>1, <2>2, <2>3 DEF TierInv
<1>3. CASE Demote
  <2> DEFINE i == Min(OverBudget)
             d == tier[i].entries[Len(tier[i].entries)]
             less == [tier EXCEPT ![i] = TierRemove(@, Len(@.entries))]
  <2>1. /\ call' = call /\ call.at = "demote" /\ born' = born /\ OverBudget # {}
        /\ tier' = IF i < 3 THEN [less EXCEPT ![i + 1] = TierPut(@, d)] ELSE less
    BY <1>3 DEF Demote, history
  <2>2. i \in Tiers /\ tier[i].entries # <<>>
    <3>1. OverBudget \subseteq Nat
      BY DEF OverBudget, Tiers
    <3>2. i \in OverBudget
      BY <2>1, <3>1, LeastIs, Zenon
    <3> QED BY <3>2 DEF OverBudget
  <2> HIDE DEF i
  <2>3. /\ Exact(less) /\ d \in Event
        /\ HeldIn(ListsOf(tier), d) /\ ~ HeldIn(ListsOf(less), d)
        /\ \A x : HeldIn(ListsOf(less), x) => HeldIn(ListsOf(tier), x)
    <3>1. DropFrom(tier, i, less)
      BY DEF DropFrom
    <3> HIDE DEF less
    <3> QED BY <1>0, <2>2, <3>1, TierDropIs
  <2> HIDE DEF d, less
  <2>4. CASE i < 3
    <3>1. i + 1 \in Tiers
      BY <2>2, <2>4 DEF Tiers
    <3>2. /\ Exact(tier')
          /\ \A x : HeldIn(ListsOf(tier'), x) <=> HeldIn(ListsOf(less), x) \/ x = d
      <4>1. PutInto(less, i + 1, d, tier')
        BY <2>1, <2>4 DEF PutInto
      <4> QED BY <2>3, <3>1, <4>1, TierPutIs
    <3> QED BY <1>0, <2>1, <2>3, <3>2, Zenon DEF TierInv
  <2>5. CASE ~ (i < 3)
    BY <1>0, <2>1, <2>3, <2>5, Zenon DEF TierInv
  <2> QED BY <2>4, <2>5
<1>4. CASE TickEnd
  <2>1. tier' = tier /\ born' = born /\ OverBudget = {}
    BY <1>4 DEF TickEnd, state, history
  <2>2. ASSUME NEW j \in 2..3 PROVE tier[j].used <= Budgets[j]
    <3>0. Budgets \in [Tiers -> Nat]
      BY CacheAssumption
    <3>1. j \in Tiers /\ Budgets[j] \in Nat
      BY <3>0 DEF Tiers
    <3>2. tier[j].used \in Nat /\ tier[j].used = Bytes(tier[j].entries)
      BY <1>0, <3>1 DEF Exact
    <3>3. tier[j].entries = <<>> => tier[j].used = 0
      <4>1. tier[j].entries \in Seq(Event)
        BY <1>0, <3>1
      <4> QED BY <3>2, <4>1, BytesType, Zenon
    <3>4. ~ (tier[j].used > Budgets[j]) \/ tier[j].entries = <<>>
      BY <2>1, <3>1 DEF OverBudget
    <3> QED BY <3>1, <3>2, <3>3, <3>4, SMTT(20)
  <2> QED BY <1>0, <2>1, <2>2 DEF TierInv
<1>5. CASE Restart
  <2>1. tier' = [i \in Tiers |-> [entries |-> <<>>, used |-> 0]]
    BY <1>5 DEF Restart
  <2> QED BY <2>1, TierEmpty DEF TierInv
<1>6. CASE \/ AddLayer \/ \E n \in 1..BlockAlign : IngestTorn(n)
           \/ \E n \in scene.batch : TickBegin(n)
           \/ LoopEnd \/ ClockTicks
  <2>1. /\ tier' = tier
        /\ born' = born \/ born' = born + 1
        /\ call.at # "demote" \/ call'.at = "demote"
    BY <1>6 DEF AddLayer, IngestTorn, MayIngest, TickBegin, LoopEnd, ClockTicks, state, history, NoCall
  <2> QED BY <1>1, <2>1
<1>7. CASE Dequeue \/ TurnSkips \/ TurnUnread \/ TurnCalls \/ \E ok \in BOOLEAN : Returns(ok)
  <2>1. tier' = tier /\ born' = born /\ call.at # "demote"
    BY <1>7 DEF Dequeue, TurnSkips, TurnUnread, TurnCalls, Returns, inTurn, history
  <2> QED BY <1>1, <2>1, ZenonT(30)
<1> QED BY <1>2, <1>3, <1>4, <1>5, <1>6, <1>7, Zenon DEF Next, TickStep

\* The tiers hold in every state.
THEOREM TierInvariance == Spec => []TierInv
<1>1. Init => TierInv
  BY TierEmpty DEF Init, TierInv
<1>2. TypeInv /\ TierInv /\ [Next]_vars => TierInv'
  <2>1. ASSUME TierInv, UNCHANGED vars PROVE TierInv'
    BY <2>1 DEF vars, history, TierInv
  <2> QED BY <2>1, TierStep
<1> QED BY <1>1, <1>2, HomeInvariance, PTL DEF Spec

\* The byte counters of the tiers are exact, no event is in two tiers or twice in
\* one, and a demotion leaves the two lower tiers within their budgets; all
\* variables keep their types (TiersExact).
THEOREM TiersExactHolds == Spec => []TiersExact
<1>1. TypeInv /\ HomeInv /\ TierInv => TiersExact
  <2> SUFFICES ASSUME TypeInv, HomeInv, TierInv PROVE TiersExact
    OBVIOUS
  <2> DEFINE T == ListsOf(tier)
  <2>1. /\ DOMAIN T = Tiers
        /\ \A i \in Tiers : T[i] = tier[i].entries /\ tier[i].used \in Nat
    BY ListsIs DEF TierInv, Exact
  <2>2. OnceIn(T) /\ \A e : HeldIn(T, e) => e \in 1..born
    BY DEF TierInv, Exact
  <2> HIDE DEF T
  <2>3. \A i \in Tiers : Range(tier[i].entries) \subseteq 1..born
    BY <2>1, <2>2 DEF Range, HeldIn
  <2>4. \A l \in Layers : Range(queue[l]) \subseteq 1..born
    <3>1. DOMAIN queue = Layers
      BY DEF TypeInv, Layers
    <3> QED BY <3>1 DEF Range, HeldIn, HomeInv
  <2>5. call.at \in {"idle", "loop", "turn", "callback", "demote"}
    BY DEF TypeInv, Calls, NoCall
  <2>6. \A e \in Event : Live(e) => meta[e].retries \in 0..MaxRetries
    BY MetaIs DEF Waiting
  <2>7. TypeOK
    BY <2>1, <2>3, <2>4, <2>5, <2>6, Zenon DEF TypeOK, TypeInv
  <2>8. ASSUME NEW e \in Event, NEW p \in Copies(e), NEW q \in Copies(e) PROVE p = q
    <3>1. PICK t \in Tiers : \E i \in DOMAIN tier[t].entries :
                               p = <<t, i>> /\ tier[t].entries[i] = e
      BY DEF Copies
    <3>2. PICK i \in DOMAIN tier[t].entries : p = <<t, i>> /\ tier[t].entries[i] = e
      BY <3>1
    <3>3. PICK v \in Tiers : \E j \in DOMAIN tier[v].entries :
                               q = <<v, j>> /\ tier[v].entries[j] = e
      BY DEF Copies
    <3>4. PICK j \in DOMAIN tier[v].entries : q = <<v, j>> /\ tier[v].entries[j] = e
      BY <3>3
    <3>5. /\ t \in DOMAIN T /\ v \in DOMAIN T /\ i \in DOMAIN T[t] /\ j \in DOMAIN T[v]
          /\ T[t][i] = T[v][j]
      BY <2>1, <3>2, <3>4
    <3>6. t = v /\ i = j
      BY <2>2, <3>5, Zenon DEF OnceIn
    <3> QED BY <3>2, <3>4, <3>6
  <2> QED BY <2>7, <2>8 DEF TiersExact, TierInv, Exact
<1> QED BY <1>1, HomeInvariance, TierInvariance, PTL

-----------------------------------------------------------------------------
(***************************************************************************)
(* The store                                                               *)
(***************************************************************************)

\* blocks lie below the end of the store and no two begin at one place; the block
\* of every event that waits is there; process_fn looks at the right payload, and
\* at one that a tier still holds or that was read for it
BlockInv ==
    /\ \A b, c \in store.blocks : b.off = c.off => b = c
    /\ \A b \in store.blocks : b.off < store.size
    /\ \A e \in Event : Live(e) => [off |-> meta[e].off, ev |-> e] \in store.blocks
    /\ call.at = "callback" => /\ call.payload = call.ev
                               /\ call.fromDisk \/ Cached(call.ev)

\* what a step does to the store: it appends a block or leaves them all, and its
\* end does not move back
LEMMA StoreStep ==
    ASSUME TypeInv, \A b \in store.blocks : b.off < store.size, Next
    PROVE  /\ store'.size >= store.size
           /\ \/ store'.blocks = store.blocks
              \/ /\ \E e \in Event :
                      store'.blocks = store.blocks \cup {[off |-> store.size, ev |-> e]}
                 /\ store'.size > store.size
           /\ \A e \in Event : store' = StoreAppend(e) =>
                                 [off |-> store.size, ev |-> e] \in store'.blocks
<1>1. /\ store \in [size : Nat, end : Nat, blocks : SUBSET [off : Nat, ev : Event]]
      /\ store.size \in Nat /\ store.end \in Nat /\ store.size <= store.end
  BY DEF TypeInv
<1>2. {b \in store.blocks : b.off < store.size} = store.blocks
  OBVIOUS
<1>3. \A e \in Event : store' = StoreAppend(e) =>
        /\ store'.blocks = store.blocks \cup {[off |-> store.size, ev |-> e]}
        /\ store'.size = store.size + DiskLen(e)
  BY <1>2 DEF StoreAppend
<1>4. ASSUME NEW e \in Event, store' = StoreAppend(e) PROVE store'.size > store.size
  <2>1. DiskLen(e) \in Nat \ {0}
    <3>1. 0 \in Nat
      OBVIOUS
    <3> QED BY <3>1, StoreTypes
  <2> QED BY <1>1, <1>3, <1>4, <2>1, SMTT(20)
<1>5. ASSUME NEW l, NEW ttl, NEW fault, Ingest(l, ttl, fault)
      PROVE  born + 1 \in Event /\ store' = StoreAppend(born + 1)
  <2>1. store' = StoreAppend(born + 1) /\ born < MaxEvents
    BY <1>5 DEF Ingest
  <2>2. born \in 0..MaxEvents /\ MaxEvents \in Nat
    BY CacheAssumption DEF TypeInv
  <2> QED BY <2>1, <2>2, SMTT(20) DEF Event
<1>6. ASSUME NEW n, IngestTorn(n) PROVE store'.blocks = store.blocks /\ store'.size = store.size
  BY <1>1, <1>2, <1>6, Zenon DEF IngestTorn, AppendTorn
<1>7. CASE Restart
  <2>1. store'.blocks = store.blocks /\ store'.size = store.end
    BY <1>1, <1>7 DEF Restart, StoreInit
  <2> QED BY <1>1, <1>3, <2>1
<1>8. CASE store' = store
  BY <1>1, <1>3, <1>8, SMTT(20)
<1>9. CASE \E l \in Layers, ttl \in scene.ttls, fault \in {"none", "meta", "hot", "queue"} :
             Ingest(l, ttl, fault)
  <2>1. born + 1 \in Event /\ store' = StoreAppend(born + 1)
    BY <1>5, <1>9
  <2>2. store'.size > store.size /\ store'.size \in Int
    <3>1. DiskLen(born + 1) \in Nat
      <4>1. 0 \in Nat
        OBVIOUS
      <4> QED BY <2>1, <4>1, StoreTypes, Zenon
    <3>2. store'.size = store.size + DiskLen(born + 1)
      BY <1>3, <2>1
    <3> QED BY <1>1, <1>4, <2>1, <3>1, <3>2, SMTT(20)
  <2>3. store'.size >= store.size
    BY <1>1, <2>2
  <2> QED BY <1>3, <2>1, <2>2, <2>3
<1>10. CASE \E n \in 1..BlockAlign : IngestTorn(n)
  <2>1. store'.blocks = store.blocks /\ store'.size = store.size
    BY <1>6, <1>10, ZenonT(30)
  <2> QED BY <1>1, <1>3, <2>1
<1>11. \/ Restart \/ store' = store
       \/ \E l \in Layers, ttl \in scene.ttls, fault \in {"none", "meta", "hot", "queue"} :
            Ingest(l, ttl, fault)
       \/ \E n \in 1..BlockAlign : IngestTorn(n)
  BY Zenon DEF Next, TickStep, AddLayer, TickBegin, Dequeue, TurnSkips, TurnUnread, TurnCalls, LoopEnd,
         Demote, TickEnd, Returns, ClockTicks, inTurn, state
<1> QED BY <1>7, <1>8, <1>9, <1>10, <1>11, Zenon

\* the block of an event that waits reads back as that event
LEMMA BlockAtIs ==
    ASSUME BlockInv, NEW e \in Event, Live(e) PROVE BlockAt(meta[e].off) = {e}
<1> DEFINE n == [off |-> meta[e].off, ev |-> e]
<1>1. n \in store.blocks /\ n.off = meta[e].off /\ n.ev = e
  BY Zenon DEF BlockInv
<1> HIDE DEF n
<1>2. {c \in store.blocks : c.off = meta[e].off} = {n}
  BY <1>1 DEF BlockInv
<1> QED BY <1>1, <1>2, ZenonT(30) DEF BlockAt

\* the payload in process_fn's hands stays the right one
LEMMA CallbackStep ==
    ASSUME TypeInv, HomeInv, TierInv, BlockInv, Next, call'.at = "callback"
    PROVE  call'.payload = call'.ev /\ (call'.fromDisk \/ Cached(call.ev)')
<1>1. ASSUME call' = call, \A x : Cached(x) => \E i \in Tiers : x \in Range(tier'[i].entries)
      PROVE  call'.payload = call'.ev /\ (call'.fromDisk \/ Cached(call.ev)')
  BY <1>1 DEF BlockInv, Cached
<1>2. CASE TurnCalls
  <2> DEFINE e == call.ev
  <2>1. PICK p \in IF Cached(e) THEN {e} ELSE BlockAt(meta[e].off) :
           call' = [at |-> "callback", now |-> call.now, left |-> call.left, ev |-> e,
                    layer |-> call.layer, payload |-> p, fromDisk |-> ~ Cached(e)]
    BY <1>2, Zenon DEF TurnCalls
  <2>2. tier' = tier /\ Live(e) /\ e \in Event
    BY <1>2, TurnIs, Zenon DEF TurnCalls, inTurn, InTurn
  <2>3. p = e
    <3>1. BlockAt(meta[e].off) = {e}
      BY <2>2, BlockAtIs, Zenon
    <3> QED BY <2>1, <3>1
  <2>4. call'.payload = p /\ call'.ev = e /\ (call'.fromDisk <=> ~ Cached(e))
    BY <2>1, Zenon
  <2>5. Cached(call.ev)' <=> Cached(e)
    BY <2>2, <2>4 DEF Cached
  <2> QED BY <2>3, <2>4, <2>5, Zenon
<1>3. ASSUME NEW l, NEW ttl, NEW fault, Ingest(l, ttl, fault)
      PROVE  call'.payload = call'.ev /\ (call'.fromDisk \/ Cached(call.ev)')
  <2>1. call' = call
    BY <1>3, Zenon DEF Ingest
  <2>2. /\ Exact(tier') /\ Exact(tier)
        /\ \A x : HeldIn(ListsOf(tier), x) => HeldIn(ListsOf(tier'), x)
    BY <1>3, IngestTier DEF TierInv
  <2>3. \A x : Cached(x) => \E i \in Tiers : x \in Range(tier'[i].entries)
    BY <2>2, CachedIs, Zenon DEF Cached
  <2> QED BY <1>1, <2>1, <2>3
<1>4. CASE AddLayer \/ (\E n \in 1..BlockAlign : IngestTorn(n)) \/ ClockTicks
  <2>1. call' = call /\ tier' = tier
    BY <1>4 DEF AddLayer, IngestTorn, ClockTicks, state
  <2> QED BY <1>1, <2>1 DEF Cached
<1>5. CASE \/ \E n \in scene.batch : TickBegin(n)
           \/ Dequeue \/ TurnSkips \/ TurnUnread \/ LoopEnd \/ Demote \/ TickEnd \/ Restart
           \/ \E ok \in BOOLEAN : Returns(ok)
  <2>1. CASE (\E n \in scene.batch : TickBegin(n)) \/ LoopEnd \/ Demote \/ TickEnd \/ Restart
    <3>1. call'.at # "callback"
      BY <2>1, SMTT(20) DEF TickBegin, LoopEnd, Demote, TickEnd, Restart, NoCall
    <3> QED BY <3>1, Zenon
  <2>2. CASE Dequeue \/ TurnSkips \/ TurnUnread \/ \E ok \in BOOLEAN : Returns(ok)
    <3>1. call'.at # "callback"
      BY <2>2, SMTT(20) DEF Dequeue, TurnSkips, TurnUnread, Returns, NextTurn
    <3> QED BY <3>1
  <2> QED BY <1>5, <2>1, <2>2
<1> QED BY <1>2, <1>3, <1>4, <1>5, Zenon DEF Next, TickStep

\* every step keeps the blocks
LEMMA BlockStep == ASSUME TypeInv, TypeInv', HomeInv, TierInv, BlockInv, Next PROVE BlockInv'
<1>1. /\ store.size \in Nat /\ store'.size \in Nat /\ store'.size >= store.size
      /\ \A b \in store.blocks : b.off \in Nat /\ b.off < store.size
  BY StoreStep, Zenon DEF BlockInv, TypeInv
<1>2. /\ \A b, c \in store'.blocks : b.off = c.off => b = c
      /\ \A b \in store'.blocks : b.off < store'.size
      /\ store.blocks \subseteq store'.blocks
  <2>1. CASE store'.blocks = store.blocks
    <3>1. \A b \in store'.blocks : b.off < store'.size
      BY <1>1, <2>1, SMTT(20)
    <3> QED BY <2>1, <3>1 DEF BlockInv
  <2>2. CASE /\ store'.size > store.size
             /\ \E e \in Event :
                  store'.blocks = store.blocks \cup {[off |-> store.size, ev |-> e]}
    <3>1. PICK e \in Event :
                  store'.blocks = store.blocks \cup {[off |-> store.size, ev |-> e]}
      BY <2>2
    <3> DEFINE n == [off |-> store.size, ev |-> e]
    <3>2. n.off = store.size
      OBVIOUS
    <3> HIDE DEF n
    <3>3. \A b \in store.blocks : b.off # n.off /\ b.off < store'.size
      BY <1>1, <3>2
    <3>4. n.off < store'.size
      BY <1>1, <2>2, <3>2
    <3>5. store'.blocks = store.blocks \cup {n}
      BY <3>1 DEF n
    <3> QED BY <3>3, <3>4, <3>5, Zenon DEF BlockInv
  <2> QED BY <2>1, <2>2, StoreStep DEF BlockInv
<1>3. ASSUME NEW e \in Event, Live(e)'
      PROVE  [off |-> meta'[e].off, ev |-> e] \in store'.blocks
  <2>1. meta'[e] \in Waiting
    BY <1>3, LiveNext
  <2>2. meta'[e] \notin {None, Settled("DONE"), Settled("DROPPED")} /\ meta'[e] # Settled("EXPIRED")
    BY <2>1, MetasAre, Zenon DEF Terminal
  <2>3. \/ meta'[e] = meta[e]
        \/ meta[e] \in Waiting /\ meta'[e].off = meta[e].off
        \/ store' = StoreAppend(e) /\ meta'[e].off = store.size
    BY <2>2, EventStep, Zenon
  <2>4. CASE meta[e] \in Waiting /\ meta'[e].off = meta[e].off
    <3>1. Live(e)
      BY <2>4, MetaIs
    <3>2. [off |-> meta[e].off, ev |-> e] \in store.blocks
      BY <3>1 DEF BlockInv
    <3> QED BY <1>2, <2>4, <3>2
  <2>5. CASE store' = StoreAppend(e) /\ meta'[e].off = store.size
    BY <2>5, StoreStep DEF BlockInv
  <2> QED BY <2>1, <2>3, <2>4, <2>5
<1>4. call'.at = "callback" => call'.payload = call'.ev /\ (call'.fromDisk \/ Cached(call.ev)')
  BY CallbackStep
<1> QED BY <1>2, <1>3, <1>4, Zenon DEF BlockInv

\* The store holds in every state.
THEOREM BlockInvariance == Spec => []BlockInv
<1>1. Init => BlockInv
  <2> SUFFICES ASSUME Init PROVE BlockInv
    OBVIOUS
  <2>1. store.blocks = {} /\ call.at = "idle" /\ \A e \in Event : meta[e] = None
    BY DEF Init, NoCall
  <2>2. \A e \in Event : ~ Live(e)
    BY <2>1 DEF Live, Status, None
  <2> QED BY <2>1, <2>2 DEF BlockInv
<1>2. TypeInv /\ TypeInv' /\ HomeInv /\ TierInv /\ BlockInv /\ [Next]_vars => BlockInv'
  <2>1. ASSUME BlockInv, UNCHANGED vars PROVE BlockInv'
    BY <2>1 DEF vars, history, BlockInv, Live, Status, Cached
  <2> QED BY <2>1, BlockStep, Zenon
<1> QED BY <1>1, <1>2, HomeInvariance, TierInvariance, PTL DEF Spec

\* process_fn gets the payload ingested under the key it is called for, which no
\* tier has let go of meanwhile, and the block of every waiting event can be read
\* back, whatever appends fell short before (PayloadIsIngested).
THEOREM PayloadIsIngestedHolds == Spec => []PayloadIsIngested
<1>1. BlockInv => PayloadIsIngested
  BY BlockAtIs DEF BlockInv, PayloadIsIngested
<1> QED BY <1>1, BlockInvariance, PTL

\* A block once written stays, through failed appends and through a crash and a
\* new start on the file (AppendOnly).
THEOREM AppendOnlyHolds == Spec => AppendOnly
<1>1. TypeInv /\ BlockInv /\ [Next]_vars => [store.blocks \subseteq store'.blocks]_vars
  <2> SUFFICES ASSUME TypeInv, BlockInv, Next PROVE store.blocks \subseteq store'.blocks
    OBVIOUS
  <2> QED BY StoreStep DEF BlockInv
<1> QED BY <1>1, HomeInvariance, BlockInvariance, PTL DEF Spec, AppendOnly

-----------------------------------------------------------------------------
(***************************************************************************)
(* Retries and drops                                                       *)
(***************************************************************************)
Extra(e) == IF InFlight(e) /\ call.at = "callback" THEN 1 ELSE 0

\* the attempts made on an event and those left
TryOf(e) ==
    /\ meta[e] = None => tries[e] = 0
    /\ tries[e] <= MaxRetries + 1
    /\ Live(e) => tries[e] + meta[e].retries = MaxRetries + Extra(e)

\* the events dropped with attempts left
InCut(e) == Status(e) = "DROPPED" /\ tries[e] <= MaxRetries
Cut == {e \in Event : InCut(e)}

\* dropped_events counts these, and it counts nothing else as long as every event
\* in a queue has its metadata, which takes a failed allocation to break
RetryInv ==
    /\ \A e \in Event : TryOf(e)
    /\ Cardinality(Cut) <= dropped
    /\ faults = 0 => /\ Cardinality(Cut) = dropped
                     /\ \A e \in Event : HeldIn(queue, e) => meta[e] # None

\* sets of events are finite
LEMMA EventsFinite ==
    ASSUME NEW S, S \subseteq Event PROVE IsFiniteSet(S) /\ Cardinality(S) \in Nat
<1>1. MaxEvents \in Nat
  BY CacheAssumption
<1>2. IsFiniteSet(Event)
  BY <1>1, FS_Interval DEF Event
<1>3. IsFiniteSet(S)
  BY <1>2, FS_Subset
<1> QED BY <1>3, FS_CardinalityType

\* an event nothing happens to
LEMMA TryKept ==
    ASSUME NEW e, TryOf(e), meta'[e] = meta[e], tries'[e] = tries[e], Extra(e)' = Extra(e)
    PROVE  TryOf(e)' /\ (InCut(e)' <=> InCut(e))
BY DEF TryOf, InCut, Live, Status

\* steps that touch neither metadata nor attempts
LEMMA RetrySame ==
    ASSUME TypeInv, RetryInv, meta' = meta, tries' = tries, dropped' = dropped,
           faults' = 0 => faults = 0, \A x : HeldIn(queue', x) => HeldIn(queue, x),
           call' = call \/ (call.at # "callback" /\ call'.at # "callback")
    PROVE  RetryInv'
<1>1. \A x : Extra(x)' = Extra(x)
  BY DEF Extra, InFlight
<1>2. \A x \in Event : TryOf(x)' /\ (InCut(x)' <=> InCut(x))
  BY <1>1, TryKept DEF RetryInv
<1>3. Cut' = Cut
  BY <1>2, Zenon DEF Cut
<1> QED BY <1>2, <1>3 DEF RetryInv

\* steps of a turn, which touch its event only and do not leave it cut
LEMMA RetryTurn ==
    ASSUME TypeInv, TypeInv', HomeInv, RetryInv, InTurn, NEW e \in Event, e = call.ev,
           ~ InTurn' \/ call'.ev = e,
           \A x \in Event : x # e => meta'[x] = meta[x] /\ tries'[x] = tries[x],
           dropped' = dropped, faults' = faults,
           \A x : HeldIn(queue', x) => HeldIn(queue, x) \/ x = e,
           Live(e) => meta'[e] # None, ~ HeldIn(queue', e) \/ Live(e),
           TryOf(e)', ~ InCut(e)'
    PROVE  RetryInv'
<1>1. \A x \in Event : x # e => Extra(x)' = Extra(x)
  BY Zenon DEF Extra, InFlight, InTurn
<1>2. \A x \in Event : x # e => TryOf(x)' /\ (InCut(x)' <=> InCut(x))
  BY <1>1, TryKept, Zenon DEF RetryInv
<1>3. ~ InCut(e)
  <2>1. Live(e) \/ meta[e] = None
    BY DEF HomeInv
  <2>2. Status(e) # "DROPPED"
    BY <2>1, SMTT(20) DEF Live, Status, None
  <2> QED BY <2>2, ZenonT(30) DEF InCut
<1>4. Cut' = Cut
  BY <1>2, <1>3, Zenon DEF Cut
<1>5. ASSUME faults = 0, NEW x \in Event, HeldIn(queue', x) PROVE meta'[x] # None
  <2>1. CASE x = e
    BY <1>5, <2>1, Zenon
  <2>2. CASE x # e
    BY <1>5, <2>2, Zenon DEF RetryInv
  <2> QED BY <2>1, <2>2, Zenon
<1> QED BY <1>2, <1>4, <1>5, Zenon DEF RetryInv

\* an event in a queue has an attempt left
LEMMA QueuedTries ==
    ASSUME TypeInv, HomeInv, RetryInv, NEW d \in Event, HeldIn(queue, d)
    PROVE  Extra(d) = 0 /\ tries[d] <= MaxRetries /\ ~ InCut(d)
<1>1. Extra(d) = 0
  BY DEF Extra, InFlight, InTurn, HomeInv
<1>2. tries[d] \in Nat /\ MaxRetries \in Nat
  BY CacheAssumption DEF TypeInv
<1>3. TryOf(d) /\ (Live(d) \/ meta[d] = None)
  BY DEF RetryInv, HomeInv
<1>4. CASE Live(d)
  <2>1. meta[d].retries \in 0..MaxRetries
    BY <1>4, MetaIs DEF Waiting
  <2>2. tries[d] + meta[d].retries = MaxRetries + 0
    BY <1>1, <1>3, <1>4, Zenon DEF TryOf
  <2>3. tries[d] <= MaxRetries
    BY <1>2, <2>1, <2>2, SMTT(20)
  <2> QED BY <1>1, <1>4, <2>3, Zenon DEF InCut, Live
<1>5. CASE meta[d] = None
  <2>1. tries[d] = 0
    BY <1>3, <1>5 DEF TryOf
  <2> QED BY <1>1, <1>2, <1>5, <2>1, SMTT(20) DEF InCut, Status, None
<1> QED BY <1>3, <1>4, <1>5

\* an ingest starts the count of the new event and may cut one off
LEMMA RetryIngest ==
    ASSUME TypeInv, TypeInv', HomeInv, RetryInv, NEW l \in Layers, NEW ttl \in scene.ttls,
           NEW fault, Ingest(l, ttl, fault)
    PROVE  RetryInv'
<1> DEFINE b == born + 1
           k == Kept(l, ttl, fault)
           q == Put(queue, l, b)
<1>1. /\ b \in Event /\ b \notin 1..born /\ l \in 1..Len(queue) /\ queue \in Seq(Seq(Event))
      /\ q \in Seq(Seq(Event)) /\ Len(q) = Len(queue)
  BY IngestIs, ZenonT(30) DEF TypeInv
<1>2. /\ tries' = tries /\ call' = call
      /\ faults' = faults + (IF fault = "none" THEN 0 ELSE 1)
  BY DEF Ingest
<1>3. faults' = 0 => faults = 0 /\ fault = "none"
  <2>1. faults \in Nat
    BY DEF TypeInv
  <2> QED BY <1>2, <2>1, SMTT(20)
<1>4. meta[b] = None /\ tries[b] = 0 /\ Extra(b) = 0
  <2>1. meta[b] = None
    BY <1>1, Zenon DEF HomeInv
  <2>2. Extra(b) = 0
    BY <1>1, Zenon DEF Extra, InFlight, InTurn, HomeInv
  <2> QED BY <1>1, <2>1, <2>2, Zenon DEF RetryInv, TryOf
<1>5. /\ DOMAIN k = Event /\ \A x \in Event : x # b => k[x] = meta[x]
      /\ fault = "meta" => k[b] = None
      /\ fault # "meta" => k[b] \in Waiting /\ k[b].retries = MaxRetries
  <2>1. meta \in [Event -> Metas]
    BY Zenon DEF TypeInv
  <2>2. fault # "meta" => k[b] = NewMeta(b, l, ttl)
    BY <1>1, <2>1, Zenon DEF Kept
  <2>3. NewMeta(b, l, ttl) \in Waiting /\ NewMeta(b, l, ttl).retries = MaxRetries
    BY NewMetaIs, Zenon
  <2>4. DOMAIN k = Event /\ \A x \in Event : x # b => k[x] = meta[x]
    BY <2>1 DEF Kept
  <2>5. fault = "meta" => k[b] = None
    BY <1>4 DEF Kept
  <2> QED BY <2>2, <2>3, <2>4, <2>5, Zenon
<1>6. \A x : Extra(x)' = Extra(x)
  BY <1>2 DEF Extra, InFlight
<1>7. \A x : HeldIn(q, x) <=> HeldIn(queue, x) \/ x = b
  BY <1>1, PutIs, Zenon
<1>8. MaxRetries \in Nat /\ dropped \in Nat /\ Cardinality(Cut) \in Nat
  BY CacheAssumption, EventsFinite, Zenon DEF TypeInv, Cut
<1>9. \/ dropped' = dropped /\ meta' = k /\ (queue' = queue \/ queue' = q)
      \/ \E f \in 1..Len(q) :
           /\ q[f] # <<>> /\ queue' = Take(q, f) /\ dropped' = dropped + 1
           /\ meta' = IF k[Head(q[f])] = None THEN k
                      ELSE [k EXCEPT ![Head(q[f])] = Settled("DROPPED")]
  BY <1>1, IngestIs, ZenonT(30)
<1> HIDE DEF b, k, q
<1>10. ASSUME NEW x \in Event, meta'[x] = k[x] PROVE TryOf(x)' /\ (InCut(x)' <=> InCut(x))
  <2>1. CASE x # b
    BY <1>2, <1>5, <1>6, <1>10, <2>1, TryKept, Zenon DEF RetryInv
  <2>2. CASE x = b /\ fault = "meta"
    BY <1>2, <1>4, <1>5, <1>6, <1>10, <2>2, TryKept, Zenon DEF RetryInv
  <2>3. CASE x = b /\ fault # "meta"
    <3>1. meta'[x] \in Waiting /\ meta'[x].retries = MaxRetries /\ tries'[x] = 0 /\ Extra(x)' = 0
      BY <1>2, <1>4, <1>5, <1>6, <1>10, <2>3, Zenon
    <3>2. meta'[x] # None /\ meta'[x].status # "DROPPED"
      BY <3>1, MetasAre, Zenon DEF Waiting
    <3>3. TryOf(x)'
      BY <1>8, <3>1, <3>2, SMTT(20) DEF TryOf
    <3>4. None.status # "DROPPED"
      BY DEF None
    <3>5. ~ InCut(x)
      BY <1>4, <2>3, <3>4, Zenon DEF InCut, Status
    <3>6. ~ InCut(x)'
      BY <3>2, Zenon DEF InCut, Status
    <3> QED BY <3>3, <3>5, <3>6
  <2> QED BY <2>1, <2>2, <2>3, Zenon
<1>11. ASSUME faults' = 0 PROVE \A x \in Event : HeldIn(q, x) => k[x] # None
  <2>1. k[b] # None
    BY <1>3, <1>5, <1>11, MetasAre, Zenon
  <2>2. \A x \in Event : HeldIn(queue, x) => meta[x] # None
    BY <1>3, <1>11, Zenon DEF RetryInv
  <2>3. ~ HeldIn(queue, b)
    BY <1>1, Zenon DEF HomeInv
  <2> QED BY <1>5, <1>7, <2>1, <2>2, <2>3, Zenon
<1>12. CASE dropped' = dropped /\ meta' = k /\ (queue' = queue \/ queue' = q)
  <2>1. \A x \in Event : TryOf(x)' /\ (InCut(x)' <=> InCut(x))
    BY <1>10, <1>12
  <2>2. Cut' = Cut
    BY <2>1 DEF Cut
  <2>3. faults' = 0 => \A x \in Event : HeldIn(queue', x) => meta'[x] # None
    BY <1>7, <1>11, <1>12
  <2> QED BY <1>3, <1>12, <2>1, <2>2, <2>3, Zenon DEF RetryInv
<1>13. ASSUME NEW f \in 1..Len(q), q[f] # <<>>, queue' = Take(q, f), dropped' = dropped + 1,
              meta' = IF k[Head(q[f])] = None THEN k
                      ELSE [k EXCEPT ![Head(q[f])] = Settled("DROPPED")]
       PROVE  RetryInv'
  <2>0. Head(q[f]) \in Event /\ HeldIn(q, Head(q[f])) /\ \A x : HeldIn(queue', x) => HeldIn(q, x)
    BY <1>1, <1>13, TakeIs, Zenon
  <2>1. PICK d \in Event : d = Head(q[f]) /\ HeldIn(q, d) /\ \A x : HeldIn(queue', x) => HeldIn(q, x)
    BY <2>0, Zenon
  <2>2. meta' = IF k[d] = None THEN k ELSE [k EXCEPT ![d] = Settled("DROPPED")]
    BY <1>13, <2>1, Zenon
  <2>3. faults' = 0 => \A x \in Event : HeldIn(queue', x) => meta'[x] # None
    <3>1. Settled("DROPPED") # None
      BY MetasAre DEF Terminal
    <3>2. \A x \in Event : k[x] # None => meta'[x] # None
      BY <1>5, <2>2, <3>1, Zenon
    <3> QED BY <1>11, <2>1, <3>2, Zenon
  <2>4. CASE k[d] = None
    <3>1. meta' = k /\ faults' # 0
      BY <1>11, <2>1, <2>2, <2>4, Zenon
    <3>2. \A x \in Event : TryOf(x)' /\ (InCut(x)' <=> InCut(x))
      BY <1>10, <3>1, Zenon
    <3>3. Cut' = Cut
      BY <3>2 DEF Cut
    <3>4. Cardinality(Cut) <= dropped + 1
      BY <1>8, SMTT(20) DEF RetryInv
    <3> QED BY <1>13, <3>1, <3>2, <3>3, <3>4, Zenon DEF RetryInv
  <2>5. CASE k[d] # None
    <3>1. meta' = [k EXCEPT ![d] = Settled("DROPPED")]
      BY <2>2, <2>5, Zenon
    <3>2. \A x \in Event : x # d => TryOf(x)' /\ (InCut(x)' <=> InCut(x))
      <4>1. \A x \in Event : x # d => meta'[x] = k[x]
        BY <1>5, <3>1, Zenon
      <4> QED BY <1>10, <4>1, Zenon
    <3>3. tries[d] <= MaxRetries /\ ~ InCut(d) /\ tries[d] \in Nat
      <4>1. tries[d] \in Nat
        BY <2>1, Zenon DEF TypeInv
      <4>2. CASE d = b
        BY <1>4, <1>8, <4>1, <4>2 DEF InCut, Status, None
      <4>3. CASE HeldIn(queue, d)
        BY <2>1, <4>1, <4>3, QueuedTries, Zenon
      <4> QED BY <1>7, <2>1, <4>2, <4>3, Zenon
    <3>4. meta'[d] = Settled("DROPPED") /\ Settled("DROPPED").status = "DROPPED"
      BY <1>5, <2>1, <3>1, Zenon DEF Settled
    <3>5. TryOf(d)'
      <4>1. meta'[d] # None /\ ~ Live(d)'
        BY <3>4, MetasAre, Zenon DEF Terminal, Live, Status
      <4>2. tries'[d] <= MaxRetries + 1
        BY <1>2, <1>8, <3>3, SMTT(20)
      <4> QED BY <4>1, <4>2, Zenon DEF TryOf
    <3>6. InCut(d)'
      BY <1>2, <3>3, <3>4, Zenon DEF InCut, Status
    <3>7. Cut' = Cut \cup {d} /\ d \notin Cut
      BY <2>1, <3>2, <3>3, <3>6, Zenon DEF Cut
    <3>8. Cardinality(Cut') = Cardinality(Cut) + 1
      <4>1. IsFiniteSet(Cut)
        BY EventsFinite DEF Cut
      <4> QED BY <3>7, <4>1, FS_AddElement, Zenon
    <3>9. Cardinality(Cut) <= dropped /\ (faults = 0 => Cardinality(Cut) = dropped)
      BY DEF RetryInv
    <3>10. Cardinality(Cut') <= dropped' /\ (faults' = 0 => Cardinality(Cut') = dropped')
      BY <1>3, <1>8, <1>13, <3>8, <3>9, SMTT(20)
    <3> QED BY <2>3, <3>2, <3>5, <3>10, Zenon DEF RetryInv
  <2> QED BY <2>4, <2>5, Zenon
<1> QED BY <1>9, <1>12, <1>13, Zenon

\* a failed attempt takes one retry, or drops the event when none is left
LEMMA RetryFails ==
    ASSUME TypeInv, TypeInv', HomeInv, RetryInv, InTurn, Live(call.ev), Retry, NextTurn,
           dropped' = dropped, faults' = faults,
           \/ call.at = "turn" /\ Attempt
           \/ call.at = "callback" /\ tries' = tries
    PROVE  RetryInv'
<1>1. PICK e \in Event : e = call.ev
  BY TurnIs
<1>2. ~ InTurn' /\ Extra(e)' = 0
  BY NextTurnIs, Zenon DEF Extra, InFlight, InTurn
<1>3. tries \in [Event -> Nat] /\ MaxRetries \in Nat /\ meta \in [Event -> Metas] /\ Live(e)
  BY <1>1, CacheAssumption, Zenon DEF TypeInv
<1>4. meta[e] \in Waiting /\ meta[e].retries \in 0..MaxRetries
  BY <1>3, MetaIs DEF Waiting
<1>5. tries[e] + meta[e].retries = MaxRetries + Extra(e)
  BY <1>3 DEF RetryInv, TryOf
<1>6. /\ tries'[e] = tries[e] + 1 - Extra(e) /\ Extra(e) \in {0, 1}
      /\ \A x \in Event : x # e => tries'[x] = tries[x]
  <2>1. CASE call.at = "turn" /\ Attempt
    BY <1>1, <1>3, <2>1 DEF Attempt, Extra
  <2>2. CASE call.at = "callback" /\ tries' = tries
    <3>1. Extra(e) = 1 /\ tries[e] \in Nat
      BY <1>1, <1>3, <2>2 DEF Extra, InFlight
    <3> QED BY <2>2, <3>1
  <2> QED BY <2>1, <2>2
<1>7. tries'[e] + meta[e].retries = MaxRetries + 1 /\ tries'[e] \in Nat
  <2> DEFINE t == tries[e]
             r == meta[e].retries
             x == Extra(e)
             u == tries'[e]
  <2>1. t \in Nat /\ r \in Nat /\ x \in {0, 1} /\ t + r = MaxRetries + x /\ u = t + 1 - x
    BY <1>3, <1>4, <1>5, <1>6, SMTT(20)
  <2>2. u \in Nat
    BY DEF TypeInv
  <2> HIDE DEF t, r, x, u
  <2>3. u + r = MaxRetries + 1
    BY <1>3, <2>1, SMTT(20)
  <2> QED BY <2>2, <2>3, Zenon DEF r, u
<1>8. CASE /\ meta[e].retries > 0 /\ queue' = Put(queue, call.layer, e)
           /\ \E w \in Waiting : /\ meta' = [meta EXCEPT ![e] = w]
                                 /\ w.retries = meta[e].retries - 1
  <2>1. meta'[e] \in Waiting /\ meta'[e].retries = meta[e].retries - 1
    BY <1>3, <1>8
  <2>2. \A x \in Event : x # e => meta'[x] = meta[x]
    BY <1>3, <1>8, Zenon
  <2>3. meta'[e] # None /\ meta'[e].status # "DROPPED"
    BY <2>1, MetasAre, Zenon DEF Waiting
  <2>4. tries'[e] <= MaxRetries + 1 /\ tries'[e] + meta'[e].retries = MaxRetries + 0
    BY <1>3, <1>4, <1>7, <2>1, SMTT(20)
  <2>5. TryOf(e)' /\ ~ InCut(e)'
    BY <1>2, <2>3, <2>4, Zenon DEF TryOf, InCut, Status
  <2>6. \A x : HeldIn(queue', x) => HeldIn(queue, x) \/ x = e
    <3>1. queue \in Seq(Seq(Event)) /\ call.layer \in 1..Len(queue)
      BY TurnIs, Zenon DEF TypeInv
    <3> QED BY <1>8, <3>1, PutIs, Zenon
  <2> QED BY <1>1, <1>2, <1>3, <1>6, <2>2, <2>3, <2>5, <2>6, RetryTurn, Zenon
<1>9. CASE /\ meta[e].retries = 0 /\ queue' = queue
           /\ meta' = [meta EXCEPT ![e] = Settled("DROPPED")]
  <2>1. meta'[e] = Settled("DROPPED") /\ \A x \in Event : x # e => meta'[x] = meta[x]
    BY <1>3, <1>9, Zenon
  <2>2. meta'[e] # None /\ ~ Live(e)'
    BY <2>1, MetasAre, LiveNext, ZenonT(30) DEF Terminal
  <2>3. tries'[e] = MaxRetries + 1
    BY <1>3, <1>7, <1>9, SMTT(20)
  <2>4. TryOf(e)' /\ ~ InCut(e)'
    BY <1>3, <2>2, <2>3, SMTT(20) DEF TryOf, InCut
  <2> QED BY <1>1, <1>2, <1>3, <1>6, <1>9, <2>1, <2>2, <2>4, RetryTurn, Zenon
<1> QED BY <1>1, <1>8, <1>9, RetryIs, Zenon

\* every step keeps the counts
LEMMA RetryStep == ASSUME TypeInv, TypeInv', HomeInv, RetryInv, Next PROVE RetryInv'
<1>0. /\ meta \in [Event -> Metas] /\ tries \in [Event -> Nat] /\ faults \in Nat
      /\ MaxRetries \in Nat /\ queue \in Seq(Seq(Event))
  BY CacheAssumption, Zenon DEF TypeInv
<1>1. CASE AddLayer
  <2>1. \A x : HeldIn(queue', x) => HeldIn(queue, x)
    BY <1>0, <1>1, GrowIs DEF AddLayer
  <2>2. meta' = meta /\ tries' = tries /\ dropped' = dropped /\ faults' = faults /\ call' = call
    BY <1>1, Zenon DEF AddLayer, history
  <2> QED BY <2>1, <2>2, RetrySame
<1>2. ASSUME NEW l \in Layers, NEW ttl \in scene.ttls,
             NEW fault \in {"none", "meta", "hot", "queue"}, Ingest(l, ttl, fault)
      PROVE  RetryInv'
  BY <1>2, RetryIngest
<1>3. CASE \E n \in 1..BlockAlign : IngestTorn(n)
  <2>1. /\ meta' = meta /\ tries' = tries /\ dropped' = dropped /\ call' = call
        /\ faults' = faults + 1 /\ queue' = queue
    BY <1>3 DEF IngestTorn
  <2>2. faults' # 0
    BY <1>0, <2>1
  <2> QED BY <2>1, <2>2, RetrySame
<1>4. CASE \/ \E n \in scene.batch : TickBegin(n)
           \/ LoopEnd \/ Demote \/ TickEnd \/ ClockTicks
  <2>1. meta' = meta /\ tries' = tries /\ dropped' = dropped /\ faults' = faults /\ queue' = queue
    BY <1>4, Zenon DEF TickBegin, LoopEnd, Demote, TickEnd, ClockTicks, state, history
  <2>2. call' = call \/ (call.at # "callback" /\ call'.at # "callback")
    BY <1>4, OtherCalls, Zenon
  <2> QED BY <2>1, <2>2, RetrySame, Zenon
<1>5. CASE Dequeue
  <2>1. /\ meta' = meta /\ tries' = tries /\ dropped' = dropped /\ faults' = faults
        /\ call.at # "callback" /\ call'.at # "callback" /\ queue' = Take(queue, NextLayer)
    BY <1>5, Zenon DEF Dequeue, history, Take
  <2>2. NextLayer \in 1..Len(queue) /\ queue[NextLayer] # <<>>
    BY <1>5, NextLayerIs, Zenon DEF Dequeue, TypeInv
  <2>3. \A x : HeldIn(queue', x) => HeldIn(queue, x)
    BY <1>0, <2>1, <2>2, TakeIs, Zenon
  <2> QED BY <2>1, <2>3, RetrySame, Zenon
<1>6. ASSUME InTurn, NEW s \in {"EXPIRED", "DONE"}, NextTurn, queue' = queue, tries' = tries,
             dropped' = dropped, faults' = faults,
             meta' = [meta EXCEPT ![call.ev] = Settled(s)]
      PROVE  RetryInv'
  <2>1. PICK e \in Event : e = call.ev
    BY <1>6, TurnIs
  <2>2. meta'[e] = Settled(s) /\ \A x \in Event : x # e => meta'[x] = meta[x]
    BY <1>0, <1>6, <2>1, Zenon
  <2>3. meta'[e] # None /\ meta'[e] \notin Waiting /\ meta'[e].status # "DROPPED"
    BY <2>2, MetasAre, Zenon DEF Terminal, Settled
  <2>4. TryOf(e)' /\ ~ InCut(e)'
    <3>1. tries'[e] <= MaxRetries + 1
      BY <1>6 DEF RetryInv, TryOf
    <3>2. ~ Live(e)'
      BY <2>3, LiveNext, ZenonT(30)
    <3> QED BY <2>3, <3>1, <3>2, ZenonT(30) DEF TryOf, InCut, Status
  <2>5. ~ InTurn' /\ ~ HeldIn(queue', e)
    BY <1>6, <2>1, NextTurnIs DEF HomeInv
  <2> QED BY <1>6, <2>1, <2>2, <2>3, <2>4, <2>5, RetryTurn, Zenon
<1>7. CASE TurnSkips
  <2>1. /\ InTurn /\ call.at = "turn" /\ NextTurn /\ queue' = queue /\ tries' = tries
        /\ dropped' = dropped /\ faults' = faults
    BY <1>7 DEF TurnSkips, InTurn, inTurn
  <2>2. CASE meta' = [meta EXCEPT ![call.ev] = Settled("EXPIRED")]
    BY <1>6, <2>1, <2>2, Zenon
  <2>3. CASE meta' = meta
    <3>1. call'.at = "loop"
      BY <2>1, NextTurnIs
    <3> QED BY <2>1, <2>3, <3>1, RetrySame, Zenon
  <2> QED BY <1>7, <2>2, <2>3, ZenonT(30) DEF TurnSkips
<1>8. CASE TurnUnread
  <2>1. /\ InTurn /\ call.at = "turn" /\ Live(call.ev) /\ Retry /\ NextTurn /\ Attempt
        /\ dropped' = dropped /\ faults' = faults
    BY <1>8, Zenon DEF TurnUnread, InTurn, inTurn
  <2> QED BY <2>1, RetryFails
<1>9. CASE TurnCalls
  <2>1. /\ InTurn /\ call.at = "turn" /\ Live(call.ev) /\ Attempt
        /\ dropped' = dropped /\ faults' = faults /\ queue' = queue /\ meta' = meta
    BY <1>9 DEF TurnCalls, InTurn, inTurn
  <2>2. PICK e \in Event : e = call.ev
    BY <2>1, TurnIs, Zenon
  <2>3. call'.at = "callback" /\ call'.ev = e
    BY <1>9, <2>2, TurnCallsIs, Zenon
  <2>4. Extra(e) = 0 /\ Extra(e)' = 1 /\ Live(e)
    BY <2>1, <2>2, <2>3, Zenon DEF Extra, InFlight
  <2>5. tries'[e] = tries[e] + 1 /\ \A x \in Event : x # e => tries'[x] = tries[x]
    BY <1>0, <2>1, <2>2, ZenonT(30) DEF Attempt
  <2>6. tries[e] + meta[e].retries = MaxRetries + 0
    BY <2>4 DEF RetryInv, TryOf
  <2>7. meta[e].retries \in 0..MaxRetries /\ tries[e] \in Nat
    BY <1>0, <2>4, MetaIs, Zenon DEF Waiting
  <2>8. tries'[e] + meta[e].retries = MaxRetries + 1 /\ tries'[e] <= MaxRetries + 1
    <3> DEFINE n == tries[e]
               r == meta[e].retries
               u == tries'[e]
    <3>1. n \in Nat /\ r \in Nat /\ u = n + 1 /\ n + r = MaxRetries + 0
      BY <2>5, <2>6, <2>7
    <3> HIDE DEF n, r, u
    <3>2. u + r = MaxRetries + 1 /\ u <= MaxRetries + 1
      BY <1>0, <3>1
    <3> QED BY <3>2 DEF r, u
  <2>9. meta'[e] # None /\ meta'[e].status # "DROPPED"
    BY <2>1, <2>4, SMTT(20) DEF Live, Status, None
  <2>10. TryOf(e)' /\ ~ InCut(e)'
    BY <2>1, <2>4, <2>8, <2>9, Zenon DEF TryOf, InCut, Status
  <2> QED BY <2>1, <2>2, <2>3, <2>4, <2>5, <2>9, <2>10, RetryTurn, Zenon
<1>10. ASSUME NEW ok \in BOOLEAN, Returns(ok) PROVE RetryInv'
  <2>1. /\ InTurn /\ call.at = "callback" /\ NextTurn /\ tries' = tries
        /\ dropped' = dropped /\ faults' = faults
    BY <1>10 DEF Returns, InTurn, inTurn
  <2>2. Live(call.ev)
    BY <2>1 DEF HomeInv
  <2>3. CASE Retry
    BY <2>1, <2>2, <2>3, RetryFails, Zenon
  <2>4. CASE meta' = [meta EXCEPT ![call.ev] = Settled("DONE")] /\ queue' = queue
    BY <1>6, <2>1, <2>4, Zenon
  <2> QED BY <1>10, <2>3, <2>4 DEF Returns
<1>11. CASE Restart
  <2>1. /\ \A e \in Event : meta'[e] = None /\ tries'[e] = 0
        /\ dropped' = 0 /\ DOMAIN queue' = {}
    BY <1>11, SMTT(20) DEF Restart
  <2>2. \A e \in Event : TryOf(e)' /\ ~ InCut(e)'
    BY <1>0, <2>1 DEF TryOf, InCut, Live, Status, None
  <2>3. Cut' = {}
    BY <2>2 DEF Cut
  <2>4. Cardinality(Cut') = 0
    BY <2>3, FS_EmptySet
  <2>5. Cardinality(Cut') = dropped' /\ Cardinality(Cut') <= dropped'
    BY <2>1, <2>4
  <2>6. \A e : ~ HeldIn(queue', e)
    BY <2>1, Zenon DEF HeldIn
  <2> QED BY <2>2, <2>5, <2>6, Zenon DEF RetryInv
<1> QED BY <1>1, <1>2, <1>3, <1>4, <1>5, <1>7, <1>8, <1>9, <1>10, <1>11, Zenon DEF Next, TickStep

\* An event is attempted once and then retried at most MaxRetries times, and
\* dropped_events counts exactly the events that an overflow dropped with attempts
\* left, or more of them after an allocation failed (RetriesExact).
THEOREM RetriesExactHolds == Spec => []RetriesExact
<1>1. Init => RetryInv
  <2> SUFFICES ASSUME Init PROVE RetryInv
    OBVIOUS
  <2>1. /\ \A e \in Event : meta[e] = None /\ tries[e] = 0
        /\ dropped = 0 /\ DOMAIN queue = {} /\ MaxRetries \in Nat
    BY CacheAssumption, SMTT(20) DEF Init
  <2>2. \A e \in Event : TryOf(e) /\ ~ InCut(e)
    BY <2>1 DEF TryOf, InCut, Live, Status, None
  <2>3. Cut = {}
    BY <2>2 DEF Cut
  <2>4. Cardinality(Cut) = 0
    BY <2>3, FS_EmptySet
  <2> QED BY <2>1, <2>2, <2>4, SMTT(20) DEF RetryInv, HeldIn
<1>2. TypeInv /\ TypeInv' /\ HomeInv /\ RetryInv /\ [Next]_vars => RetryInv'
  <2>1. ASSUME TypeInv, RetryInv, UNCHANGED vars PROVE RetryInv'
    <3>1. /\ meta' = meta /\ tries' = tries /\ dropped' = dropped /\ faults' = faults
          /\ queue' = queue /\ call' = call
      BY <2>1, ZenonT(30) DEF vars, history
    <3> QED BY <2>1, <3>1, RetrySame, Zenon
  <2> QED BY <2>1, RetryStep, Zenon
<1>3. RetryInv => RetriesExact
  BY DEF RetryInv, RetriesExact, TryOf, Extra, Cut, InCut
<1> QED BY <1>1, <1>2, <1>3, HomeInvariance, PTL DEF Spec

=============================================================================
