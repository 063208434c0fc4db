---------------------------- MODULE SeqOpsProofs ----------------------------
(***************************************************************************)
(* Lemmas about the sequence operators the models share.  What a recursive *)
(* definition computes is proved by induction on the length; the induction *)
(* principle is stated with a set in place of a predicate, and comes from  *)
(* the well-foundedness of < on the naturals.                              *)
(***************************************************************************)
EXTENDS SeqOps, Integers, WellFoundedInduction, TLAPS

\* a non-empty set of naturals has a smallest element
LEMMA SmallestExists ==
    ASSUME NEW T, T \subseteq Nat, T # {}
    PROVE  \E x \in T : \A y \in T : x <= y
<1> DEFINE R == OpToRel(<, Nat)
<1>1. IsWellFoundedOn(R, Nat)
  BY NatLessThanWellFounded, Zenon
<1>2. \E x \in T : \A y \in T : ~ (<<y, x>> \in R)
  <2> HIDE DEF R
  <2> QED BY <1>1, WFMin, Zenon
<1>3. \A x, y \in Nat : <<y, x>> \in R <=> y < x
  BY DEF OpToRel
<1> HIDE DEF R
<1>4. \E x \in T : \A y \in T : ~ (y < x)
  BY <1>2, <1>3, Zenon
<1> QED BY <1>4

\* a set that contains 0 and the successor of each of its naturals contains all
LEMMA SetInduction ==
    ASSUME NEW T, 0 \in T, \A n \in Nat : n \in T => n + 1 \in T
    PROVE  Nat \subseteq T
<1> SUFFICES ASSUME ~(Nat \subseteq T) PROVE FALSE
  OBVIOUS
<1> DEFINE B == {n \in Nat : n \notin T}
<1>1. PICK x \in B : \A y \in B : x <= y
  <2>1. B \subseteq Nat /\ B # {}
    OBVIOUS
  <2> HIDE DEF B
  <2> QED BY <2>1, SmallestExists, Zenon
<1>2. x \in Nat /\ x # 0 /\ x \notin T
  BY <1>1
<1>3. x - 1 \in Nat /\ x - 1 \notin B
  BY <1>1, <1>2
<1>4. x - 1 \in T
  BY <1>3
<1>5. (x - 1) + 1 \in T
  BY <1>3, <1>4
<1> QED BY <1>2, <1>5

-----------------------------------------------------------------------------
\* f is the walk of Keep over the first n elements of s
Walk(s, S, n, f) ==
    f = [i \in 0 .. n |->
            IF i = 0 THEN <<>>
            ELSE IF s[i] \in S THEN Append(f[i - 1], s[i])
                               ELSE f[i - 1]]

\* the walk is defined for every length
LEMMA WalkExists ==
    ASSUME NEW s, NEW S
    PROVE  \A n \in Nat : \E f : Walk(s, S, n, f)
<1> DEFINE T == {n \in Nat : \E f : Walk(s, S, n, f)}
<1>1. 0 \in T
  <2> DEFINE f == [i \in 0 .. 0 |-> <<>>]
  <2>1. Walk(s, S, 0, f)
    BY DEF Walk
  <2> QED BY <2>1
<1>2. ASSUME NEW n \in Nat, n \in T PROVE n + 1 \in T
  <2>1. PICK f : Walk(s, S, n, f)
    BY <1>2
  <2> DEFINE last == IF s[n + 1] \in S THEN Append(f[n], s[n + 1]) ELSE f[n]
  <2> DEFINE g == [i \in 0 .. n + 1 |-> IF i <= n THEN f[i] ELSE last]
  <2>2. \A i \in 0 .. n : f[i] = IF i = 0 THEN <<>>
            ELSE IF s[i] \in S THEN Append(f[i - 1], s[i]) ELSE f[i - 1]
    BY <2>1, Zenon DEF Walk
  <2> HIDE DEF last
  <2>3. g[n + 1] = last /\ \A i \in 0 .. n : g[i] = f[i]
    OBVIOUS
  <2>4. \A i \in 0 .. n + 1 : g[i] = IF i = 0 THEN <<>>
            ELSE IF s[i] \in S THEN Append(g[i - 1], s[i]) ELSE g[i - 1]
    <3> HIDE DEF g
    <3>1. ASSUME NEW i \in 0 .. n
          PROVE  g[i] = IF i = 0 THEN <<>>
            ELSE IF s[i] \in S THEN Append(g[i - 1], s[i]) ELSE g[i - 1]
      <4>1. g[i] = f[i] /\ (i # 0 => g[i - 1] = f[i - 1])
        BY <2>3
      <4> QED BY <4>1, <2>2
    <3>2. g[n + 1] = IF s[n + 1] \in S THEN Append(g[n], s[n + 1]) ELSE g[n]
      BY <2>3 DEF last
    <3>3. (n + 1) - 1 = n /\ n + 1 # 0
      OBVIOUS
    <3> QED BY <3>1, <3>2, <3>3
  <2>5. Walk(s, S, n + 1, g)
    BY <2>4 DEF Walk
  <2> QED BY <2>5
<1> HIDE DEF T
<1>3. Nat \subseteq T
  BY <1>1, <1>2, SetInduction
<1> QED BY <1>3 DEF T

\* Keep(s, S) is where the walk over the whole of s ends
LEMMA KeepIsWalk ==
    ASSUME NEW s, NEW S, Len(s) \in Nat
    PROVE  \E f : Walk(s, S, Len(s), f) /\ Keep(s, S) = f[Len(s)]
<1> DEFINE c == CHOOSE f : Walk(s, S, Len(s), f)
<1>1. Walk(s, S, Len(s), c)
  BY WalkExists
<1>2. Keep(s, S) = c[Len(s)]
  BY DEF Keep, Walk
<1> QED BY <1>1, <1>2, Zenon

\* f places the sequence k in the first n elements of s: in order, and on
\* exactly the elements that are in S
Places(f, k, s, S, n) ==
    /\ f \in [1 .. Len(k) -> 1 .. n]
    /\ \A i \in 1 .. Len(k) : k[i] = s[f[i]] /\ s[f[i]] \in S
    /\ \A i, j \in 1 .. Len(k) : i < j => f[i] < f[j]
    /\ \A j \in 1 .. n : s[j] \in S => \E i \in 1 .. Len(k) : f[i] = j

\* Keep(s, S) is a sequence over the type of s, placed in s in order and on
\* exactly the elements in S: nothing is moved, dropped, repeated or invented
LEMMA KeepPlaces ==
    ASSUME NEW X, NEW s \in Seq(X), NEW S
    PROVE  /\ Keep(s, S) \in Seq(X)
           /\ \E f : Places(f, Keep(s, S), s, S, Len(s))
<1>1. PICK w : Walk(s, S, Len(s), w) /\ Keep(s, S) = w[Len(s)]
  BY KeepIsWalk
<1>2. \A i \in 0 .. Len(s) : w[i] = IF i = 0 THEN <<>>
            ELSE IF s[i] \in S THEN Append(w[i - 1], s[i]) ELSE w[i - 1]
  BY <1>1, Zenon DEF Walk
<1> DEFINE T == {n \in Nat : n <= Len(s) =>
                   w[n] \in Seq(X) /\ \E f : Places(f, w[n], s, S, n)}
<1>3. 0 \in T
  <2>1. w[0] = <<>>
    BY <1>2
  <2>2. Places(<<>>, <<>>, s, S, 0)
    BY DEF Places
  <2>3. <<>> \in Seq(X)
    OBVIOUS
  <2>4. w[0] \in Seq(X) /\ \E f : Places(f, w[0], s, S, 0)
    BY <2>1, <2>2, <2>3, Zenon
  <2> QED BY <2>4
<1>4. ASSUME NEW n \in Nat, n \in T PROVE n + 1 \in T
  <2> SUFFICES ASSUME n + 1 <= Len(s)
               PROVE  w[n + 1] \in Seq(X) /\ \E f : Places(f, w[n + 1], s, S, n + 1)
    OBVIOUS
  <2>1. PICK f : w[n] \in Seq(X) /\ Places(f, w[n], s, S, n)
    BY <1>4
  <2>2. s[n + 1] \in X
    OBVIOUS
  <2>3. CASE s[n + 1] \in S
    <3> DEFINE k == Append(w[n], s[n + 1])
    <3>1. w[n + 1] = k
      <4>1. (n + 1) - 1 = n /\ n + 1 # 0 /\ n + 1 \in 0 .. Len(s)
        OBVIOUS
      <4> QED BY <1>2, <2>3, <4>1, Zenon
    <3> DEFINE g == [i \in 1 .. Len(w[n]) + 1 |-> IF i = Len(w[n]) + 1 THEN n + 1 ELSE f[i]]
    <3>2. Len(k) = Len(w[n]) + 1 /\ k[Len(k)] = s[n + 1] /\ Len(w[n]) \in Nat
          /\ \A i \in 1 .. Len(w[n]) : k[i] = w[n][i]
      BY <2>1, <2>2
    <3>3. k \in Seq(X)
      BY <2>1, <2>2
    <3> HIDE DEF k
    <3>4. \A i \in 1 .. Len(w[n]) : f[i] \in 1 .. n
      BY <2>1 DEF Places
    <3>5. g \in [1 .. Len(k) -> 1 .. n + 1]
      BY <3>2, <3>4
    <3>6. g[Len(k)] = n + 1 /\ \A i \in 1 .. Len(w[n]) : g[i] = f[i]
      BY <3>2
    <3> HIDE DEF g
    <3>7. \A i \in 1 .. Len(k) : k[i] = s[g[i]] /\ s[g[i]] \in S
      <4> TAKE i \in 1 .. Len(k)
      <4>1. CASE i = Len(k)
        BY <4>1, <3>2, <3>6, <2>3
      <4>2. CASE i \in 1 .. Len(w[n])
        BY <4>2, <3>2, <3>6, <2>1 DEF Places
      <4> QED BY <4>1, <4>2, <3>2
    <3>8. \A i, j \in 1 .. Len(k) : i < j => g[i] < g[j]
      <4> TAKE i, j \in 1 .. Len(k)
      <4> HAVE i < j
      <4>0. i \in 1 .. Len(w[n])
        BY <3>2
      <4>1. CASE j = Len(k)
        BY <4>0, <4>1, <3>2, <3>4, <3>6
      <4>2. CASE j \in 1 .. Len(w[n])
        BY <4>0, <4>2, <3>6, <2>1 DEF Places
      <4> QED BY <4>1, <4>2, <3>2
    <3>9. \A j \in 1 .. n + 1 : s[j] \in S => \E i \in 1 .. Len(k) : g[i] = j
      <4> TAKE j \in 1 .. n + 1
      <4> HAVE s[j] \in S
      <4>1. CASE j = n + 1
        BY <4>1, <3>2, <3>6
      <4>2. CASE j \in 1 .. n
        <5>1. PICK i \in 1 .. Len(w[n]) : f[i] = j
          BY <4>2, <2>1 DEF Places
        <5>2. g[i] = j
          BY <5>1, <3>6
        <5>3. i \in 1 .. Len(k)
          BY <3>2
        <5> QED BY <5>2, <5>3
      <4> QED BY <4>1, <4>2
    <3>10. Places(g, k, s, S, n + 1)
      BY <3>5, <3>7, <3>8, <3>9 DEF Places
    <3> QED BY <3>1, <3>3, <3>10
  <2>4. CASE s[n + 1] \notin S
    <3>1. w[n + 1] = w[n]
      BY <1>2, <2>4
    <3>2. Places(f, w[n], s, S, n + 1)
      <4>1. f \in [1 .. Len(w[n]) -> 1 .. n + 1]
        BY <2>1 DEF Places
      <4>2. \A j \in 1 .. n + 1 : s[j] \in S => j \in 1 .. n
        BY <2>4
      <4> QED BY <4>1, <4>2, <2>1 DEF Places
    <3> QED BY <3>1, <3>2, <2>1
  <2> QED BY <2>3, <2>4
<1> HIDE DEF T
<1>5. Nat \subseteq T
  BY <1>3, <1>4, SetInduction
<1> QED BY <1>1, <1>5 DEF T


-----------------------------------------------------------------------------
\* two walks agree as far as their sequences do
LEMMA WalksAgree ==
    ASSUME NEW s, NEW S, NEW n \in Nat, NEW f, Walk(s, S, n, f),
           NEW t, NEW T, NEW k \in Nat, NEW g, Walk(t, T, k, g), k <= n,
           \A i \in 1 .. k : s[i] = t[i] /\ (s[i] \in S <=> t[i] \in T)
    PROVE  \A i \in 0 .. k : f[i] = g[i]
<1>1. \A i \in 0 .. n : f[i] = IF i = 0 THEN <<>>
            ELSE IF s[i] \in S THEN Append(f[i - 1], s[i]) ELSE f[i - 1]
  BY Zenon DEF Walk
<1>2. \A i \in 0 .. k : g[i] = IF i = 0 THEN <<>>
            ELSE IF t[i] \in T THEN Append(g[i - 1], t[i]) ELSE g[i - 1]
  BY Zenon DEF Walk
<1> DEFINE A == {i \in Nat : i <= k => f[i] = g[i]}
<1>3. 0 \in A
  BY <1>1, <1>2
<1>4. ASSUME NEW i \in Nat, i \in A PROVE i + 1 \in A
  <2> SUFFICES ASSUME i + 1 <= k PROVE f[i + 1] = g[i + 1]
    OBVIOUS
  <2>1. f[i] = g[i] /\ i + 1 \in 0 .. n /\ i + 1 \in 0 .. k /\ i + 1 \in 1 .. k
        /\ (i + 1) - 1 = i /\ i + 1 # 0
    BY <1>4
  <2>2. f[i + 1] = IF s[i + 1] \in S THEN Append(f[i], s[i + 1]) ELSE f[i]
    BY <1>1, <2>1
  <2>3. g[i + 1] = IF t[i + 1] \in T THEN Append(g[i], t[i + 1]) ELSE g[i]
    BY <1>2, <2>1
  <2>4. s[i + 1] = t[i + 1] /\ (s[i + 1] \in S <=> t[i + 1] \in T)
    BY <2>1
  <2> QED BY <2>1, <2>2, <2>3, <2>4
<1> HIDE DEF A
<1>5. Nat \subseteq A
  BY <1>3, <1>4, SetInduction
<1> QED BY <1>5 DEF A

\* only which elements of s are in S matters
LEMMA KeepSame ==
    ASSUME NEW X, NEW s \in Seq(X), NEW S, NEW T,
           \A i \in 1 .. Len(s) : s[i] \in S <=> s[i] \in T
    PROVE  Keep(s, S) = Keep(s, T)
<1>1. PICK f : Walk(s, S, Len(s), f) /\ Keep(s, S) = f[Len(s)]
  BY KeepIsWalk
<1>2. PICK g : Walk(s, T, Len(s), g) /\ Keep(s, T) = g[Len(s)]
  BY KeepIsWalk
<1> DEFINE n == Len(s)
<1>3. n \in Nat /\ n <= n
  OBVIOUS
<1>4. Walk(s, S, n, f) /\ Walk(s, T, n, g)
  BY <1>1, <1>2
<1>5. \A i \in 1 .. n : s[i] = s[i] /\ (s[i] \in S <=> s[i] \in T)
  OBVIOUS
<1> HIDE DEF n
<1>6. \A i \in 0 .. n : f[i] = g[i]
  BY <1>3, <1>4, <1>5, WalksAgree
<1> QED BY <1>1, <1>2, <1>3, <1>6 DEF n

\* Keep of the first n elements is where the walk is after n steps
LEMMA KeepPrefix ==
    ASSUME NEW X, NEW s \in Seq(X), NEW S, NEW f, Walk(s, S, Len(s), f)
    PROVE  \A n \in 0 .. Len(s) : Keep(SubSeq(s, 1, n), S) = f[n]
<1> TAKE n \in 0 .. Len(s)
<1> DEFINE t == SubSeq(s, 1, n)
<1>1. Len(t) = n /\ n \in Nat /\ \A i \in 1 .. n : t[i] = s[i]
  OBVIOUS
<1> HIDE DEF t
<1>2. PICK g : Walk(t, S, n, g) /\ Keep(t, S) = g[n]
  BY <1>1, KeepIsWalk
<1>3. \A i \in 1 .. n : s[i] = t[i] /\ (s[i] \in S <=> t[i] \in S)
  BY <1>1
<1>4. n <= Len(s) /\ Len(s) \in Nat
  BY <1>1
<1>5. \A i \in 0 .. n : f[i] = g[i]
  BY <1>1, <1>2, <1>3, <1>4, WalksAgree
<1> QED BY <1>1, <1>2, <1>5 DEF t

\* one element more is carried over or left out
LEMMA KeepNext ==
    ASSUME NEW X, NEW s \in Seq(X), NEW S
    PROVE  /\ Keep(SubSeq(s, 1, 0), S) = <<>>
           /\ \A n \in 0 .. Len(s) - 1 :
                 Keep(SubSeq(s, 1, n + 1), S) =
                    IF s[n + 1] \in S THEN Append(Keep(SubSeq(s, 1, n), S), s[n + 1])
                                      ELSE Keep(SubSeq(s, 1, n), S)
<1>1. PICK f : Walk(s, S, Len(s), f)
  <2>1. Len(s) \in Nat
    OBVIOUS
  <2> QED BY <2>1, WalkExists, Zenon
<1>2. \A i \in 0 .. Len(s) : f[i] = IF i = 0 THEN <<>>
            ELSE IF s[i] \in S THEN Append(f[i - 1], s[i]) ELSE f[i - 1]
  BY <1>1, Zenon DEF Walk
<1>3. \A n \in 0 .. Len(s) : Keep(SubSeq(s, 1, n), S) = f[n]
  BY <1>1, KeepPrefix
<1>4. Keep(SubSeq(s, 1, 0), S) = <<>>
  BY <1>2, <1>3
<1>5. ASSUME NEW n \in 0 .. Len(s) - 1
      PROVE  Keep(SubSeq(s, 1, n + 1), S) =
                IF s[n + 1] \in S THEN Append(Keep(SubSeq(s, 1, n), S), s[n + 1])
                                  ELSE Keep(SubSeq(s, 1, n), S)
  <2>1. n + 1 \in 0 .. Len(s) /\ n \in 0 .. Len(s) /\ (n + 1) - 1 = n /\ n + 1 # 0
    OBVIOUS
  <2>2. f[n + 1] = IF s[n + 1] \in S THEN Append(f[n], s[n + 1]) ELSE f[n]
    BY <1>2, <2>1
  <2> QED BY <1>3, <2>1, <2>2
<1> QED BY <1>4, <1>5

\* all of s is kept when all of it is in S
LEMMA KeepAll ==
    ASSUME NEW X, NEW s \in Seq(X), NEW S, \A i \in 1 .. Len(s) : s[i] \in S
    PROVE  Keep(s, S) = s
<1> DEFINE A == {n \in Nat : n <= Len(s) => Keep(SubSeq(s, 1, n), S) = SubSeq(s, 1, n)}
<1>1. 0 \in A
  <2>1. SubSeq(s, 1, 0) = <<>>
    OBVIOUS
  <2> QED BY <2>1, KeepNext, Zenon
<1>2. ASSUME NEW n \in Nat, n \in A PROVE n + 1 \in A
  <2> SUFFICES ASSUME n + 1 <= Len(s)
               PROVE  Keep(SubSeq(s, 1, n + 1), S) = SubSeq(s, 1, n + 1)
    OBVIOUS
  <2>1. n \in 0 .. Len(s) - 1 /\ n + 1 \in 1 .. Len(s)
    OBVIOUS
  <2>2. Keep(SubSeq(s, 1, n + 1), S) = Append(Keep(SubSeq(s, 1, n), S), s[n + 1])
    BY <2>1, KeepNext, Zenon
  <2>3. Append(SubSeq(s, 1, n), s[n + 1]) = SubSeq(s, 1, n + 1)
    BY <2>1
  <2> QED BY <1>2, <2>1, <2>2, <2>3
<1> HIDE DEF A
<1>3. Nat \subseteq A
  BY <1>1, <1>2, SetInduction
<1>4. SubSeq(s, 1, Len(s)) = s /\ Len(s) \in Nat /\ Len(s) <= Len(s)
  OBVIOUS
<1>5. Len(s) \in A
  BY <1>3, <1>4
<1>6. Keep(SubSeq(s, 1, Len(s)), S) = SubSeq(s, 1, Len(s))
  BY <1>4, <1>5 DEF A
<1> QED BY <1>4, <1>6, Zenon

\* the walk can be cut anywhere: the front and the rest are kept one by one
LEMMA KeepSplit ==
    ASSUME NEW X, NEW s \in Seq(X), NEW S, NEW n \in 0 .. Len(s)
    PROVE  Keep(s, S) = Keep(SubSeq(s, 1, n), S) \o Keep(SubSeq(s, n + 1, Len(s)), S)
<1> DEFINE t == SubSeq(s, n + 1, Len(s))
           front == Keep(SubSeq(s, 1, n), S)
           A == {i \in Nat : n + i <= Len(s) =>
                    Keep(SubSeq(s, 1, n + i), S) = front \o Keep(SubSeq(t, 1, i), S)}
<1>1. t \in Seq(X) /\ Len(t) = Len(s) - n /\ \A i \in 1 .. Len(t) : t[i] = s[n + i]
  OBVIOUS
<1>2. front \in Seq(X)
  <2>1. SubSeq(s, 1, n) \in Seq(X)
    OBVIOUS
  <2> QED BY <2>1, KeepPlaces, Zenon
<1> HIDE DEF t, front
<1>3. \A j \in 0 .. Len(s) - 1 :
         Keep(SubSeq(s, 1, j + 1), S) =
            IF s[j + 1] \in S THEN Append(Keep(SubSeq(s, 1, j), S), s[j + 1])
                              ELSE Keep(SubSeq(s, 1, j), S)
  BY KeepNext, Zenon
<1>4. \A j \in 0 .. Len(t) - 1 :
         Keep(SubSeq(t, 1, j + 1), S) =
            IF t[j + 1] \in S THEN Append(Keep(SubSeq(t, 1, j), S), t[j + 1])
                              ELSE Keep(SubSeq(t, 1, j), S)
  BY <1>1, KeepNext, Zenon
<1>5. 0 \in A
  <2>1. Keep(SubSeq(t, 1, 0), S) = <<>> /\ front \o <<>> = front
    BY <1>1, <1>2, KeepNext
  <2>2. n + 0 = n
    OBVIOUS
  <2> QED BY <2>1, <2>2, Zenon DEF front
<1>6. ASSUME NEW i \in Nat, i \in A PROVE i + 1 \in A
  <2> SUFFICES ASSUME n + (i + 1) <= Len(s)
               PROVE  Keep(SubSeq(s, 1, n + (i + 1)), S) = front \o Keep(SubSeq(t, 1, i + 1), S)
    OBVIOUS
  <2> DEFINE k == Keep(SubSeq(t, 1, i), S)
  <2>1. /\ n + i \in 0 .. Len(s) - 1 /\ i \in 0 .. Len(t) - 1 /\ i + 1 \in 1 .. Len(t)
        /\ n + (i + 1) = (n + i) + 1
    BY <1>1
  <2>2. Keep(SubSeq(s, 1, n + i), S) = front \o k
    BY <1>6, <2>1
  <2>3. k \in Seq(X) /\ t[i + 1] \in X /\ t[i + 1] = s[(n + i) + 1]
    <3>1. SubSeq(t, 1, i) \in Seq(X)
      BY <1>1, <2>1
    <3>2. k \in Seq(X)
      BY <3>1, KeepPlaces, Zenon
    <3> QED BY <3>2, <1>1, <2>1
  <2>4. Keep(SubSeq(t, 1, i + 1), S) = IF t[i + 1] \in S THEN Append(k, t[i + 1]) ELSE k
    BY <1>4, <2>1
  <2>5. Keep(SubSeq(s, 1, (n + i) + 1), S) =
            IF t[i + 1] \in S THEN Append(front \o k, t[i + 1]) ELSE front \o k
    <3>1. Keep(SubSeq(s, 1, (n + i) + 1), S) =
            IF s[(n + i) + 1] \in S
            THEN Append(Keep(SubSeq(s, 1, n + i), S), s[(n + i) + 1])
            ELSE Keep(SubSeq(s, 1, n + i), S)
      BY <1>3, <2>1
    <3> QED BY <3>1, <2>2, <2>3, Zenon
  <2> HIDE DEF k
  <2>6. Append(front \o k, t[i + 1]) = front \o Append(k, t[i + 1])
    <3> DEFINE x == t[i + 1]
    <3>1. front \in Seq(X) /\ k \in Seq(X) /\ x \in X
      BY <1>2, <2>3
    <3> HIDE DEF x
    <3> DEFINE u == Append(front \o k, x)
               v == front \o Append(k, x)
    <3>2. u \in Seq(X) /\ v \in Seq(X)
      BY <3>1
    <3>3. Len(u) = Len(front) + Len(k) + 1 /\ Len(v) = Len(front) + Len(k) + 1
      BY <3>1
    <3>4. ASSUME NEW j \in 1 .. Len(front) + Len(k) + 1 PROVE u[j] = v[j]
      <4>1. CASE j <= Len(front)
        BY <3>1, <4>1
      <4>2. CASE j > Len(front) /\ j <= Len(front) + Len(k)
        BY <3>1, <4>2
      <4>3. CASE j = Len(front) + Len(k) + 1
        BY <3>1, <4>3
      <4> QED BY <3>1, <4>1, <4>2, <4>3
    <3> HIDE DEF u, v
    <3>5. u = v
      BY <3>2, <3>3, <3>4
    <3> QED BY <3>5, Zenon DEF u, v, x
  <2> QED BY <2>1, <2>4, <2>5, <2>6, Zenon
<1> HIDE DEF A
<1>7. Nat \subseteq A
  BY <1>5, <1>6, SetInduction
<1>8. /\ Len(s) - n \in Nat /\ n + (Len(s) - n) = Len(s)
      /\ SubSeq(s, 1, Len(s)) = s /\ SubSeq(t, 1, Len(t)) = t
  BY <1>1
<1>9. Keep(SubSeq(s, 1, n + (Len(s) - n)), S) = front \o Keep(SubSeq(t, 1, Len(s) - n), S)
  BY <1>7, <1>8, SMTT(20) DEF A
<1> QED BY <1>1, <1>8, <1>9, Zenon DEF t, front

\* what is left without the i-th entry
LEMMA WithoutIs ==
    ASSUME NEW X, NEW s \in Seq(X), NEW i \in 1..Len(s)
    PROVE  /\ Without(s, i) \in Seq(X)
           /\ Len(Without(s, i)) = Len(s) - 1
           /\ \A j \in 1..i - 1 : Without(s, i)[j] = s[j]
           /\ \A j \in i..Len(s) - 1 : Without(s, i)[j] = s[j + 1]
<1> DEFINE a == SubSeq(s, 1, i - 1)
           b == SubSeq(s, i + 1, Len(s))
<1>1. i \in 1..Len(s) /\ Len(s) \in Nat
  OBVIOUS
<1>2. a \in Seq(X) /\ Len(a) = i - 1 /\ \A j \in 1..i - 1 : a[j] = s[j]
  BY <1>1
<1>3. b \in Seq(X) /\ Len(b) = Len(s) - i /\ \A j \in 1..Len(s) - i : b[j] = s[j + i]
  BY <1>1
<1> DEFINE r == Without(s, i)
<1>4. r = a \o b
  BY DEF Without
<1> HIDE DEF r, a, b
<1>5. r \in Seq(X) /\ Len(r) = Len(s) - 1
  BY <1>1, <1>2, <1>3, <1>4
<1>6. ASSUME NEW j \in 1..i - 1 PROVE r[j] = s[j]
  BY <1>1, <1>2, <1>3, <1>4, <1>5
<1>7. ASSUME NEW j \in i..Len(s) - 1 PROVE r[j] = s[j + 1]
  <2> DEFINE m == j - (i - 1)
  <2>0. m \in 1..Len(b) /\ j = Len(a) + m /\ Len(a) \in Nat /\ Len(b) = Len(s) - i
    <3>1. m \in 1..Len(s) - i /\ j = (i - 1) + m /\ i - 1 \in Nat
      BY <1>1
    <3> HIDE DEF m
    <3> QED BY <1>2, <1>3, <3>1
  <2> HIDE DEF m
  <2>1. r[j] = b[m]
    <3>1. \A k \in 1..Len(b) : (a \o b)[Len(a) + k] = b[k]
      BY <1>2, <1>3
    <3> QED BY <1>4, <2>0, <3>1
  <2>2. (j - (i - 1)) + i = j + 1
    BY <1>1
  <2>3. m + i = j + 1
    BY <2>2 DEF m
  <2> QED BY <1>3, <2>0, <2>1, <2>3
<1> QED BY <1>5, <1>6, <1>7 DEF r

-----------------------------------------------------------------------------
(***************************************************************************)
(* Totals of sequences of numbers                                          *)
(***************************************************************************)
\* f holds the partial sums of the first n entries of v
Sums(v, n, f) == f = [i \in 0..n |-> IF i = 0 THEN 0 ELSE f[i - 1] + v[i]]

\* f holds the partial sums of v
Adds(v, f) ==
    /\ f \in [0..Len(v) -> Nat]
    /\ f[0] = 0
    /\ \A i \in 1..Len(v) : f[i] = f[i - 1] + v[i]

\* partial sums are defined for every length
LEMMA SumsExist ==
    ASSUME NEW v PROVE \A n \in Nat : \E f : Sums(v, n, f)
<1> DEFINE T == {n \in Nat : \E f : Sums(v, n, f)}
<1>1. 0 \in T
  <2> DEFINE f == [i \in 0..0 |-> 0]
  <2>1. Sums(v, 0, f)
    BY DEF Sums
  <2> QED BY <2>1
<1>2. ASSUME NEW n \in Nat, n \in T PROVE n + 1 \in T
  <2>1. PICK f : Sums(v, n, f)
    BY <1>2
  <2> DEFINE last == f[n] + v[n + 1]
  <2> DEFINE g == [i \in 0..n + 1 |-> IF i <= n THEN f[i] ELSE last]
  <2>2. \A i \in 0..n : f[i] = IF i = 0 THEN 0 ELSE f[i - 1] + v[i]
    BY <2>1 DEF Sums
  <2> HIDE DEF last
  <2>3. g[n + 1] = last /\ \A i \in 0..n : g[i] = f[i]
    OBVIOUS
  <2>4. \A i \in 0..n + 1 : g[i] = IF i = 0 THEN 0 ELSE g[i - 1] + v[i]
    <3> HIDE DEF g
    <3>1. ASSUME NEW i \in 0..n PROVE g[i] = IF i = 0 THEN 0 ELSE g[i - 1] + v[i]
      <4>1. g[i] = f[i] /\ (i # 0 => g[i - 1] = f[i - 1])
        BY <2>3
      <4> QED BY <4>1, <2>2
    <3>2. g[n + 1] = g[n] + v[n + 1]
      BY <2>3 DEF last
    <3>3. (n + 1) - 1 = n /\ n + 1 # 0
      OBVIOUS
    <3> QED BY <3>1, <3>2, <3>3
  <2>5. Sums(v, n + 1, g)
    BY <2>4 DEF Sums
  <2> QED BY <2>5
<1> HIDE DEF T
<1>3. Nat \subseteq T
  BY <1>1, <1>2, SetInduction
<1> QED BY <1>3 DEF T

\* Total(v) is the last of the partial sums, which are natural numbers
LEMMA TotalAdds ==
    ASSUME NEW v \in Seq(Nat)
    PROVE  \E f : Adds(v, f) /\ Total(v) = f[Len(v)]
<1> DEFINE f == CHOOSE g : Sums(v, Len(v), g)
<1>0. Len(v) \in Nat
  OBVIOUS
<1>1. Sums(v, Len(v), f)
  BY <1>0, SumsExist, Zenon
<1>2. Total(v) = f[Len(v)]
  BY DEF Total, Sums
<1> HIDE DEF f
<1>3. \A i \in 0..Len(v) : f[i] = IF i = 0 THEN 0 ELSE f[i - 1] + v[i]
  BY <1>1, SMTT(20) DEF Sums
<1>4. f[0] = 0 /\ \A i \in 1..Len(v) : f[i] = f[i - 1] + v[i]
  BY <1>3
<1> DEFINE A == {n \in Nat : n <= Len(v) => f[n] \in Nat}
<1>5. 0 \in A
  BY <1>4
<1>6. ASSUME NEW n \in Nat, n \in A PROVE n + 1 \in A
  <2> SUFFICES ASSUME n + 1 <= Len(v) PROVE f[n + 1] \in Nat
    OBVIOUS
  <2>1. n + 1 \in 1..Len(v) /\ (n + 1) - 1 = n /\ f[n] \in Nat
    BY <1>6
  <2>2. f[n + 1] = f[n] + v[n + 1]
    BY <1>4, <2>1
  <2>3. v[n + 1] \in Nat
    BY <2>1
  <2> QED BY <2>1, <2>2, <2>3
<1> HIDE DEF A
<1>7. Nat \subseteq A
  BY <1>5, <1>6, SetInduction, Zenon
<1>8. \A i \in 0..Len(v) : f[i] \in Nat
  BY <1>7 DEF A
<1>9. f = [i \in 0..Len(v) |-> f[i]]
  BY <1>1 DEF Sums
<1>10. f \in [0..Len(v) -> Nat]
  BY <1>8, <1>9
<1> QED BY <1>2, <1>4, <1>10, SMTT(20) DEF Adds

\* a total is a natural number
LEMMA TotalType == ASSUME NEW v \in Seq(Nat) PROVE Total(v) \in Nat
BY TotalAdds DEF Adds

\* the m entries of v behind the k-th are the m entries of w behind the j-th
Stretch(v, k, w, j, m) ==
    /\ k + m <= Len(v) /\ j + m <= Len(w)
    /\ \A i \in 1..m : w[j + i] = v[k + i]

\* equal stretches of two sequences add up to the same
LEMMA SameSums ==
    ASSUME NEW v \in Seq(Nat), NEW w \in Seq(Nat), NEW f, NEW g, Adds(v, f), Adds(w, g)
    PROVE  \A k, j, m \in Nat :
              Stretch(v, k, w, j, m) => g[j + m] - g[j] = f[k + m] - f[k]
<1> SUFFICES ASSUME NEW k \in Nat, NEW j \in Nat, NEW m \in Nat, Stretch(v, k, w, j, m)
             PROVE  g[j + m] - g[j] = f[k + m] - f[k]
  OBVIOUS
<1> DEFINE A == {n \in Nat : n <= m => g[j + n] - g[j] = f[k + n] - f[k]}
           a == Len(v)
           b == Len(w)
<1>a. a \in Nat /\ b \in Nat /\ k + m <= a /\ j + m <= b
  BY DEF Stretch
<1>b. /\ \A i \in 0..a : f[i] \in Nat
      /\ \A i \in 0..b : g[i] \in Nat
      /\ \A i \in 1..a : f[i] = f[i - 1] + v[i]
      /\ \A i \in 1..b : g[i] = g[i - 1] + w[i]
  BY Zenon DEF Adds
<1>c. /\ \A i \in 1..a : v[i] \in Nat
      /\ \A i \in 1..m : w[j + i] = v[k + i]
  BY DEF Stretch
<1> HIDE DEF a, b
<1>0. k \in 0..a /\ j \in 0..b /\ f[k] \in Nat /\ g[j] \in Nat
  <2>1. k \in 0..a /\ j \in 0..b
    BY <1>a
  <2> QED BY <2>1, <1>b
<1>1. 0 \in A
  <2>1. j + 0 = j /\ k + 0 = k
    OBVIOUS
  <2> QED BY <1>0, <2>1
<1>2. ASSUME NEW n \in Nat, n \in A PROVE n + 1 \in A
  <2> SUFFICES ASSUME n + 1 <= m PROVE g[j + (n + 1)] - g[j] = f[k + (n + 1)] - f[k]
    OBVIOUS
  <2>1. /\ j + (n + 1) \in 1..b /\ (j + (n + 1)) - 1 = j + n
        /\ k + (n + 1) \in 1..a /\ (k + (n + 1)) - 1 = k + n
        /\ j + n \in 0..b /\ k + n \in 0..a /\ n + 1 \in 1..m
    BY <1>a
  <2>0. g[j + n] - g[j] = f[k + n] - f[k]
    BY <1>2
  <2>2. g[j + (n + 1)] = g[j + n] + w[j + (n + 1)]
    BY <2>1, <1>b
  <2>3. f[k + (n + 1)] = f[k + n] + v[k + (n + 1)]
    BY <2>1, <1>b
  <2>4. w[j + (n + 1)] = v[k + (n + 1)] /\ v[k + (n + 1)] \in Nat
    BY <2>1, <1>c, Zenon
  <2>5. g[j + n] \in Nat /\ f[k + n] \in Nat
    BY <1>b, <2>1
  <2> DEFINE gn == g[j + n]
             fn == f[k + n]
             x == v[k + (n + 1)]
             gm == g[j + (n + 1)]
             fm == f[k + (n + 1)]
             gj == g[j]
             fk == f[k]
  <2>6. gn - gj = fn - fk /\ gm = gn + x /\ fm = fn + x
    BY <2>0, <2>2, <2>3, <2>4
  <2>7. gn \in Nat /\ fn \in Nat /\ x \in Nat /\ gj \in Nat /\ fk \in Nat
    BY <1>0, <2>4, <2>5
  <2> HIDE DEF gn, fn, x, gm, fm, gj, fk
  <2>8. gm - gj = fm - fk
    BY <2>6, <2>7
  <2> QED BY <2>8 DEF gm, gj, fm, fk
<1> HIDE DEF A
<1>3. Nat \subseteq A
  BY <1>1, <1>2, SetInduction, Zenon
<1> QED BY <1>3 DEF A

\* The sum up to b is the one up to a less x: gi and gb are sums of the one
\* sequence, fi, fj and fa of the other, which has x besides.
LEMMA OneLess ==
    \A gi, fi, fj, gb, fa, x \in Nat :
        gi - 0 = fi - 0 /\ gb - gi = fa - fj /\ fj = fi + x => gb = fa - x
OBVIOUS

\* an entry taken out of v takes its value off the total
LEMMA TotalErase ==
    ASSUME NEW v \in Seq(Nat), NEW w \in Seq(Nat), NEW i \in 1..Len(v),
           Len(w) = Len(v) - 1,
           \A j \in 1..i - 1 : w[j] = v[j],
           \A j \in i..Len(w) : w[j] = v[j + 1]
    PROVE  Total(w) = Total(v) - v[i]
<1>1. PICK f : Adds(v, f) /\ Total(v) = f[Len(v)]
  BY TotalAdds
<1>2. PICK g : Adds(w, g) /\ Total(w) = g[Len(w)]
  BY TotalAdds, Zenon
<1> DEFINE a == Len(v)
           b == Len(w)
<1>0. a \in Nat /\ b \in Nat /\ b = a - 1 /\ i \in 1..a
  OBVIOUS
<1>s. \A k, j, m \in Nat : Stretch(v, k, w, j, m) => g[j + m] - g[j] = f[k + m] - f[k]
  BY <1>1, <1>2, SameSums
<1>3. Stretch(v, 0, w, 0, i - 1)
  <2>1. \A j \in 1..i - 1 : 0 + j = j
    BY <1>0
  <2> QED BY <1>0, <2>1 DEF Stretch
<1>4. Stretch(v, i, w, i - 1, a - i)
  <2>1. ASSUME NEW j \in 1..a - i PROVE w[(i - 1) + j] = v[i + j]
    <3>1. (i - 1) + j \in i..b /\ ((i - 1) + j) + 1 = i + j
      <4> HIDE DEF a, b
      <4> QED BY <1>0, SMTT(20)
    <3> QED BY <3>1, Zenon
  <2>2. i + (a - i) <= Len(v) /\ (i - 1) + (a - i) <= Len(w)
    BY <1>0
  <2> QED BY <2>1, <2>2, SMTT(20) DEF Stretch
<1>5. /\ f[i] = f[i - 1] + v[i]
      /\ f[0] = 0 /\ g[0] = 0
  BY <1>1, <1>2, <1>0 DEF Adds
<1>6. /\ f[i] \in Nat /\ f[i - 1] \in Nat /\ g[i - 1] \in Nat
      /\ f[a] \in Nat /\ g[b] \in Nat
  <2>1. i \in 0..a /\ i - 1 \in 0..a /\ i - 1 \in 0..b /\ a \in 0..a /\ b \in 0..b
    <3> HIDE DEF a, b
    <3> QED BY <1>0
  <2> QED BY <1>1, <1>2, <2>1, Zenon DEF Adds
<1>7. v[i] \in Nat
  OBVIOUS
<1>8. Total(v) = f[a] /\ Total(w) = g[b]
  BY <1>1, <1>2
<1> HIDE DEF a, b
<1>9. i - 1 \in Nat /\ a - i \in Nat /\ i \in Nat
  BY <1>0
<1>10. g[0 + (i - 1)] - g[0] = f[0 + (i - 1)] - f[0]
  BY <1>s, <1>3, <1>9
<1>11. g[(i - 1) + (a - i)] - g[i - 1] = f[i + (a - i)] - f[i]
  BY <1>s, <1>4, <1>9
<1>12. 0 + (i - 1) = i - 1 /\ (i - 1) + (a - i) = b /\ i + (a - i) = a
  BY <1>0
<1>13. g[i - 1] - g[0] = f[i - 1] - f[0] /\ g[b] - g[i - 1] = f[a] - f[i]
  BY <1>10, <1>11, <1>12
<1> DEFINE gi == g[i - 1]
           fi == f[i - 1]
           fj == f[i]
           gb == g[b]
           fa == f[a]
           x == v[i]
<1>14. gi - 0 = fi - 0 /\ gb - gi = fa - fj /\ fj = fi + x
  BY <1>5, <1>13
<1>15. gi \in Nat /\ fi \in Nat /\ fj \in Nat /\ gb \in Nat /\ fa \in Nat /\ x \in Nat
  BY <1>6, <1>7
<1> HIDE DEF gi, fi, fj, gb, fa, x
<1>16. gb = fa - x
  BY <1>14, <1>15, OneLess
<1> QED BY <1>8, <1>16 DEF gb, fa, x

\* The place after one from i on is another place than i.
LEMMA NextPlace ==
    \A n \in Nat : \A i \in 1..n : \A j \in i..n - 1 : j + 1 \in 1..n /\ j + 1 # i
OBVIOUS

\* an entry that changes changes the total by as much
LEMMA TotalChange ==
    ASSUME NEW v \in Seq(Nat), NEW w \in Seq(Nat), NEW i \in 1..Len(v),
           Len(w) = Len(v), \A j \in 1..Len(v) : j # i => w[j] = v[j]
    PROVE  Total(w) = Total(v) - v[i] + w[i]
<1> DEFINE u == Without(v, i)
<1>1. u \in Seq(Nat) /\ Len(u) = Len(v) - 1
  BY WithoutIs
<1>2. /\ \A j \in 1..i - 1 : u[j] = v[j]
      /\ \A j \in i..Len(u) : u[j] = v[j + 1]
  BY WithoutIs, Zenon
<1> HIDE DEF u
<1>3. Total(u) = Total(v) - v[i]
  BY <1>1, <1>2, TotalErase, Zenon
<1>4. Total(u) = Total(w) - w[i]
  <2>1. ASSUME NEW j \in 1..i - 1 PROVE u[j] = w[j]
    <3>1. j \in 1..Len(v) /\ j # i
      OBVIOUS
    <3> QED BY <1>2, <3>1, Zenon
  <2>2. ASSUME NEW j \in i..Len(u) PROVE u[j] = w[j + 1]
    <3>0. Len(v) \in Nat
      OBVIOUS
    <3>1. j + 1 \in 1..Len(v) /\ j + 1 # i
      BY <1>1, <3>0, NextPlace, Zenon
    <3> QED BY <1>2, <3>1, Zenon
  <2>3. i \in 1..Len(w) /\ Len(u) = Len(w) - 1
    BY <1>1
  <2> QED BY <1>1, <2>1, <2>2, <2>3, TotalErase, Zenon
<1>5. Total(u) \in Nat /\ Total(v) \in Nat /\ Total(w) \in Nat
  BY <1>1, TotalType
<1>6. v[i] \in Nat /\ w[i] \in Nat
  OBVIOUS
<1> QED BY <1>3, <1>4, <1>5, <1>6

\* no entry is more than the total, and a total above zero has such an entry
LEMMA TotalBounds ==
    ASSUME NEW v \in Seq(Nat)
    PROVE  /\ \A i \in 1..Len(v) : v[i] <= Total(v)
           /\ Total(v) > 0 => \E i \in 1..Len(v) : v[i] > 0
<1>1. ASSUME NEW i \in 1..Len(v) PROVE v[i] <= Total(v)
  <2> DEFINE u == Without(v, i)
  <2>1. u \in Seq(Nat) /\ Len(u) = Len(v) - 1
    BY WithoutIs
  <2>2. /\ \A j \in 1..i - 1 : u[j] = v[j]
        /\ \A j \in i..Len(u) : u[j] = v[j + 1]
    BY WithoutIs
  <2> HIDE DEF u
  <2>3. Total(u) = Total(v) - v[i]
    BY <2>1, <2>2, TotalErase, Zenon
  <2>4. Total(u) \in Nat /\ Total(v) \in Nat /\ v[i] \in Nat
    BY <2>1, TotalType
  <2> QED BY <2>3, <2>4
<1>2. ASSUME \A i \in 1..Len(v) : ~ (v[i] > 0) PROVE Total(v) = 0
  <2>1. PICK f : Adds(v, f) /\ Total(v) = f[Len(v)]
    BY TotalAdds
  <2> DEFINE A == {n \in Nat : n <= Len(v) => f[n] = 0}
  <2>2. 0 \in A
    BY <2>1 DEF Adds
  <2>3. ASSUME NEW n \in Nat, n \in A PROVE n + 1 \in A
    <3> SUFFICES ASSUME n + 1 <= Len(v) PROVE f[n + 1] = 0
      OBVIOUS
    <3>1. n + 1 \in 1..Len(v) /\ (n + 1) - 1 = n /\ f[n] = 0
      BY <2>3
    <3>2. f[n + 1] = f[n] + v[n + 1]
      BY <2>1, <3>1 DEF Adds
    <3>3. v[n + 1] = 0
      BY <1>2, <3>1
    <3> QED BY <3>1, <3>2, <3>3
  <2> HIDE DEF A
  <2>4. Nat \subseteq A
    BY <2>2, <2>3, SetInduction, SMTT(20)
  <2> QED BY <2>1, <2>4 DEF A
<1> QED BY <1>1, <1>2

\* nothing comes to nothing
LEMMA TotalEmpty == ASSUME NEW v \in Seq(Nat), Len(v) = 0 PROVE Total(v) = 0
<1>1. PICK f : Adds(v, f) /\ Total(v) = f[Len(v)]
  BY TotalAdds, Zenon
<1>2. f[0] = 0
  BY <1>1 DEF Adds
<1> QED BY <1>1, <1>2
=============================================================================
