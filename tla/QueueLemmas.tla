---------------------------- MODULE QueueLemmas ----------------------------
(***************************************************************************)
(* Facts about queues: what appending at the end, taking from the front    *)
(* and removing from the middle do to the first element and to the set of  *)
(* elements.                                                               *)
(***************************************************************************)
EXTENDS Integers, SequencesExt, SequenceTheorems, WellFoundedInduction,
        TLAPS

\* The provers that a leaf is given, in turn.
USE SMT, Zenon, SMTT(6), SMTT(7), SMTT(8)

\* Nothing is queued twice.
Distinct(q) == \A i, j \in DOMAIN q : q[i] = q[j] => i = j

\* push of an element that is not queued
LEMMA AppendDistinct ==
  ASSUME NEW S, NEW a \in S, NEW q \in Seq(S), Distinct(q), a \notin ToSet(q)
  PROVE  /\ Append(q, a) \in Seq(S) /\ Distinct(Append(q, a))
         /\ ToSet(Append(q, a)) = ToSet(q) \cup {a}
  BY DEF Distinct, ToSet

\* shift of the first element
LEMMA TailDistinct ==
  ASSUME NEW S, NEW q \in Seq(S), Distinct(q), q # <<>>
  PROVE  /\ Tail(q) \in Seq(S) /\ Distinct(Tail(q)) /\ Head(q) \in S
         /\ Head(q) \in ToSet(q)
         /\ ToSet(Tail(q)) = ToSet(q) \ {Head(q)}
  <1>1. /\ Tail(q) \in Seq(S) /\ Len(Tail(q)) = Len(q) - 1
        /\ \A i \in 1 .. Len(q) - 1 : Tail(q)[i] = q[i + 1]
        /\ Head(q) = q[1] /\ Len(q) \in Nat \ {0} /\ DOMAIN q = 1 .. Len(q)
        /\ DOMAIN Tail(q) = 1 .. Len(q) - 1
    OBVIOUS
  <1>2. Distinct(Tail(q)) /\ Head(q) \in S /\ Head(q) \in ToSet(q)
    BY <1>1 DEF Distinct, ToSet
  <1>3. ASSUME NEW x \in ToSet(Tail(q)) PROVE x \in ToSet(q) \ {Head(q)}
    BY <1>1, <1>3 DEF Distinct, ToSet
  <1>4. ASSUME NEW x \in ToSet(q) \ {Head(q)} PROVE x \in ToSet(Tail(q))
    <2>1. PICK i \in 2 .. Len(q) : q[i] = x
      BY <1>1 DEF ToSet
    <2>2. i - 1 \in 1 .. Len(q) - 1 /\ Tail(q)[i - 1] = x
      BY <1>1, <2>1
    <2> QED BY <1>1, <2>2 DEF ToSet
  <1> QED BY <1>1, <1>2, <1>3, <1>4

\* indexOf followed by splice
LEMMA RemoveFirstDistinct ==
  ASSUME NEW S, NEW a \in S, NEW q \in Seq(S), Distinct(q)
  PROVE  /\ RemoveFirst(q, a) \in Seq(S) /\ Distinct(RemoveFirst(q, a))
         /\ ToSet(RemoveFirst(q, a)) = ToSet(q) \ {a}
  <1>1. CASE \A i \in 1 .. Len(q) : q[i] # a
    <2>1. RemoveFirst(q, a) = q
      BY <1>1 DEF RemoveFirst
    <2>2. a \notin ToSet(q)
      BY <1>1 DEF ToSet
    <2> QED BY <2>1, <2>2
  <1>2. ASSUME NEW k \in 1 .. Len(q), q[k] = a
        PROVE  /\ RemoveFirst(q, a) \in Seq(S) /\ Distinct(RemoveFirst(q, a))
               /\ ToSet(RemoveFirst(q, a)) = ToSet(q) \ {a}
    <2>1. {i \in 1 .. Len(q) : q[i] = a} = {k}
      BY <1>2 DEF Distinct
    <2>2. SelectInSeq(q, LAMBDA v : v = a) = k
      <3>1. Min({k}) = k
        BY DEF Min
      <3> QED BY <2>1, <3>1 DEF SelectInSeq
    <2>3. RemoveFirst(q, a) = SubSeq(q, 1, k - 1) \o SubSeq(q, k + 1, Len(q))
      BY <1>2, <2>2 DEF RemoveFirst, RemoveAt
    <2> DEFINE p == RemoveFirst(q, a)
    <2>4. /\ p \in Seq(S) /\ Len(p) = Len(q) - 1
          /\ \A j \in 1 .. Len(q) - 1 : p[j] = IF j < k THEN q[j] ELSE q[j + 1]
      <3> DEFINE u == SubSeq(q, 1, k - 1)
                 t == SubSeq(q, k + 1, Len(q))
      <3>1. u \in Seq(S) /\ Len(u) = k - 1 /\ \A j \in 1 .. k - 1 : u[j] = q[j]
        BY <1>2
      <3>2. /\ t \in Seq(S) /\ Len(t) = Len(q) - k
            /\ \A j \in 1 .. Len(q) - k : t[j] = q[k + j]
        BY <1>2
      <3> HIDE DEF u, t
      <3>3. p = u \o t
        BY <2>3 DEF u, t
      <3>4. /\ u \o t \in Seq(S) /\ Len(u \o t) = Len(u) + Len(t)
            /\ \A j \in 1 .. Len(u) + Len(t) :
                 (u \o t)[j] = IF j <= Len(u) THEN u[j] ELSE t[j - Len(u)]
        BY <3>1, <3>2, ConcatProperties
      <3>5. \A j \in 1 .. Len(q) - 1 : (u \o t)[j] = IF j < k THEN u[j] ELSE t[j - (k - 1)]
        BY <1>2, <3>1, <3>2, <3>4
      <3> QED BY <1>2, <3>1, <3>2, <3>3, <3>4, <3>5
    <2> HIDE DEF p
    <2>5. Distinct(p)
      BY <1>2, <2>4 DEF Distinct
    <2>6. ToSet(p) = ToSet(q) \ {a}
      <3>1. ASSUME NEW x \in ToSet(p) PROVE x \in ToSet(q) \ {a}
        <4>1. PICK j \in 1 .. Len(q) - 1 : p[j] = x
          BY <2>4 DEF ToSet
        <4>2. PICK i \in 1 .. Len(q) : q[i] = x /\ i # k
          BY <1>2, <2>4, <4>1
        <4> QED BY <1>2, <4>2 DEF Distinct, ToSet
      <3>2. ASSUME NEW x \in ToSet(q) \ {a} PROVE x \in ToSet(p)
        <4>1. PICK i \in 1 .. Len(q) : q[i] = x /\ i # k
          BY <1>2 DEF ToSet
        <4>2. CASE i < k
          <5>1. i \in 1 .. Len(q) - 1 /\ p[i] = x
            BY <1>2, <2>4, <4>1, <4>2
          <5> QED BY <2>4, <5>1 DEF ToSet
        <4>3. CASE i > k
          <5>1. i - 1 \in 1 .. Len(q) - 1 /\ p[i - 1] = x
            BY <1>2, <2>4, <4>1, <4>3
          <5> QED BY <2>4, <5>1 DEF ToSet
        <4> QED BY <1>2, <4>1, <4>2, <4>3
      <3> QED BY <3>1, <3>2
    <2> QED BY <2>4, <2>5, <2>6 DEF p
  <1> QED BY <1>1, <1>2

----------------------------------------------------------------------------
(* Queues with repeated elements *)

\* The least element of a set of natural numbers, as Min chooses it.
LEMMA NatMin ==
  ASSUME NEW I \in SUBSET Nat, I # {}
  PROVE  Min(I) \in I /\ \A i \in I : Min(I) <= i
  <1> DEFINE R == OpToRel(<, Nat)
  <1>1. R = {ss \in Nat \X Nat : ss[1] < ss[2]}
    BY DEF OpToRel
  <1>2. IsWellFoundedOn(R, Nat)
    BY NatLessThanWellFounded
  <1> HIDE DEF R
  <1>3. PICK x \in I : \A y \in I : ~ (<<y, x>> \in R)
    BY <1>2, WFMin
  <1>4. \A y \in I : x <= y
    <2>1. ASSUME NEW y \in I, y < x PROVE FALSE
      <3>1. <<y, x>> \in R
        BY <1>1, <2>1
      <3> QED BY <1>3, <3>1
    <2> QED BY <2>1
  <1> QED BY <1>4 DEF Min

\* The greatest element of a bounded set of natural numbers, as Max chooses it.
LEMMA NatMax ==
  ASSUME NEW n \in Nat, NEW I \in SUBSET (0 .. n), I # {}
  PROVE  Max(I) \in I /\ \A i \in I : i <= Max(I)
  <1> DEFINE J == {j \in 0 .. n : n - j \in I}
  <1>1. \A i \in I : i \in 0 .. n /\ n - i \in 0 .. n /\ n - (n - i) = i
    OBVIOUS
  <1>2. J \in SUBSET Nat /\ J # {}
    <2>1. PICK i \in I : TRUE
      OBVIOUS
    <2>2. n - i \in J
      BY <1>1
    <2>3. J \subseteq 0 .. n
      OBVIOUS
    <2> QED BY <2>2, <2>3
  <1>3. PICK m \in J : \A j \in J : m <= j
    BY <1>2, NatMin
  <1>4. n - m \in I /\ \A i \in I : n - m >= i
    BY <1>1, <1>3
  <1> QED BY <1>4 DEF Max

\* SelectInSeq finds an occurrence of an element that occurs.
LEMMA FirstIndex ==
  ASSUME NEW S, NEW q \in Seq(S), NEW o, NEW i \in 1 .. Len(q), q[i] = o
  PROVE SelectInSeq(q, LAMBDA v : v = o) \in 1 .. Len(q) /\ q[SelectInSeq(q, LAMBDA v : v = o)] = o
  <1> DEFINE I == {j \in 1 .. Len(q) : q[j] = o}
  <1>1. I \in SUBSET Nat /\ i \in I
    OBVIOUS
  <1>2. Min(I) \in I
    BY <1>1, NatMin
  <1>3. SelectInSeq(q, LAMBDA v : v = o) = Min(I)
    <2>1. i \in I
      BY <1>1
    <2> QED BY <2>1 DEF SelectInSeq
  <1> QED BY <1>2, <1>3

\* What lines up behind a queue leaves the first element and all others in place.
LEMMA LineUp ==
  ASSUME NEW S, NEW q \in Seq(S), NEW s \in Seq(S)
  PROVE  /\ q \o s \in Seq(S)
         /\ q # <<>> => q \o s # <<>> /\ Head(q \o s) = Head(q)
         /\ ToSet(q) \subseteq ToSet(q \o s) /\ ToSet(s) \subseteq ToSet(q \o s)
  <1>1. /\ q \o s \in Seq(S) /\ Len(q \o s) = Len(q) + Len(s)
        /\ \A i \in 1 .. Len(q) + Len(s) :
             (q \o s)[i] = IF i <= Len(q) THEN q[i] ELSE s[i - Len(q)]
    BY ConcatProperties
  <1>2. Len(q) \in Nat /\ Len(s) \in Nat
    OBVIOUS
  <1>3. q # <<>> => q \o s # <<>> /\ Head(q \o s) = Head(q)
    BY <1>1, <1>2
  <1>4. ToSet(q) \subseteq ToSet(q \o s)
    BY <1>1, <1>2 DEF ToSet
  <1>5. ASSUME NEW x \in ToSet(s) PROVE x \in ToSet(q \o s)
    <2>1. PICK i \in 1 .. Len(s) : s[i] = x
      BY DEF ToSet
    <2>2. Len(q) + i \in 1 .. Len(q) + Len(s) /\ (q \o s)[Len(q) + i] = x
      BY <1>1, <1>2, <2>1
    <2> QED BY <1>1, <2>2 DEF ToSet
  <1> QED BY <1>1, <1>3, <1>4, <1>5

\* The elements of a queue are what stands at its positions.
LEMMA Occurs ==
  ASSUME NEW S, NEW q \in Seq(S)
  PROVE  /\ \A i \in 1 .. Len(q) : q[i] \in ToSet(q)
         /\ \A x \in ToSet(q) : \E i \in 1 .. Len(q) : q[i] = x
  <1>1. DOMAIN q = 1 .. Len(q)
    OBVIOUS
  <1>2. ToSet(q) = {q[i] : i \in 1 .. Len(q)}
    BY <1>1 DEF ToSet
  <1> QED BY <1>2

\* An element that leaves takes no other one with it, and leaves the first one in
\* place unless it is the first itself.
LEMMA Leave ==
  ASSUME NEW S, NEW q \in Seq(S), NEW o
  PROVE  /\ RemoveFirst(q, o) \in Seq(S)
         /\ q # <<>> /\ Head(q) # o =>
              RemoveFirst(q, o) # <<>> /\ Head(RemoveFirst(q, o)) = Head(q)
         /\ \A x \in ToSet(q) : x # o => x \in ToSet(RemoveFirst(q, o))
  <1>1. CASE \A i \in 1 .. Len(q) : q[i] # o
    <2>1. RemoveFirst(q, o) = q
      BY <1>1 DEF RemoveFirst
    <2> QED BY <2>1
  <1>2. CASE \E i \in 1 .. Len(q) : q[i] = o
    <2> DEFINE k == SelectInSeq(q, LAMBDA v : v = o)
               u == SubSeq(q, 1, k - 1)
               t == SubSeq(q, k + 1, Len(q))
    <2>2. k \in 1 .. Len(q) /\ q[k] = o
      BY <1>2, FirstIndex
    <2> HIDE DEF k
    <2>3. u \in Seq(S) /\ Len(u) = k - 1 /\ \A j \in 1 .. k - 1 : u[j] = q[j]
      BY <2>2
    <2>4. /\ t \in Seq(S) /\ Len(t) = Len(q) - k
          /\ \A j \in 1 .. Len(q) - k : t[j] = q[k + j]
      BY <2>2
    <2> HIDE DEF u, t
    <2>5. RemoveFirst(q, o) = u \o t
      BY <1>2 DEF RemoveFirst, RemoveAt, k, u, t
    <2>6. /\ u \o t \in Seq(S) /\ Len(u \o t) = Len(q) - 1
          /\ \A j \in 1 .. Len(q) - 1 : (u \o t)[j] = IF j < k THEN q[j] ELSE q[j + 1]
      <3>1. /\ u \o t \in Seq(S) /\ Len(u \o t) = Len(u) + Len(t)
            /\ \A j \in 1 .. Len(u) + Len(t) :
                 (u \o t)[j] = IF j <= Len(u) THEN u[j] ELSE t[j - Len(u)]
        BY <2>3, <2>4, ConcatProperties
      <3>2. Len(q) \in Nat /\ k \in Nat
        BY <2>2
      <3>3. ASSUME NEW j \in 1 .. Len(q) - 1
            PROVE  (u \o t)[j] = IF j < k THEN q[j] ELSE q[j + 1]
        <4>1. j \in 1 .. Len(u) + Len(t)
          BY <2>3, <2>4, <3>2
        <4>2. CASE j < k
          <5>1. j <= Len(u) /\ u[j] = q[j]
            BY <2>3, <3>2, <4>2
          <5> QED BY <3>1, <4>1, <4>2, <5>1
        <4>3. CASE ~ (j < k)
          <5>1. ~ (j <= Len(u)) /\ j - Len(u) \in 1 .. Len(q) - k /\ k + (j - Len(u)) = j + 1
            BY <2>3, <3>2, <4>3
          <5>2. t[j - Len(u)] = q[j + 1]
            BY <2>4, <5>1
          <5> QED BY <3>1, <4>1, <4>3, <5>1, <5>2
        <4> QED BY <4>2, <4>3
      <3>4. Len(u \o t) = Len(q) - 1
        BY <2>3, <2>4, <3>1, <3>2
      <3> QED BY <3>1, <3>3, <3>4
    <2>7. PICK p : p = u \o t
      OBVIOUS
    <2>8. /\ p \in Seq(S) /\ Len(p) = Len(q) - 1
          /\ \A j \in 1 .. Len(q) - 1 : p[j] = IF j < k THEN q[j] ELSE q[j + 1]
      BY <2>6, <2>7
    <2>9. ASSUME q # <<>>, Head(q) # o PROVE p # <<>> /\ Head(p) = Head(q)
      <3>1. 1 < k
        BY <2>2, <2>9
      <3>2. Len(p) >= 1 /\ p[1] = q[1]
        BY <2>2, <2>8, <3>1
      <3> QED BY <2>8, <2>9, <3>2
    <2>10. ASSUME NEW x \in ToSet(q), x # o PROVE x \in ToSet(p)
      <3>1. PICK i \in 1 .. Len(q) : q[i] = x
        BY Occurs
      <3>2. CASE i < k
        <4>1. i \in 1 .. Len(p) /\ p[i] = x
          BY <2>2, <2>8, <3>1, <3>2
        <4> QED BY <2>8, <4>1, Occurs
      <3>3. CASE i > k
        <4>1. i - 1 \in 1 .. Len(p) /\ p[i - 1] = x
          BY <2>2, <2>8, <3>1, <3>3
        <4> QED BY <2>8, <4>1, Occurs
      <3> QED BY <2>2, <2>10, <3>1, <3>2, <3>3
    <2> QED BY <2>5, <2>7, <2>8, <2>9, <2>10
  <1> QED BY <1>1, <1>2

----------------------------------------------------------------------------
(* What a filter leaves of a sequence *)

\* kept[i] is what a filter keeps of the first i elements.
Filters(kept, s, S, n) ==
  kept = [i \in 0 .. n |->
            IF i = 0 THEN <<>>
            ELSE IF s[i] \in S THEN Append(kept[i - 1], s[i]) ELSE kept[i - 1]]

\* r consists of elements of s, each occurrence at most once.
Within(r, s) ==
  \E f \in [1 .. Len(r) -> 1 .. Len(s)] :
    /\ \A i \in 1 .. Len(r) : r[i] = s[f[i]]
    /\ \A i, j \in 1 .. Len(r) : f[i] = f[j] => i = j

\* The prefixes of a filtered sequence exist.
LEMMA FilterExists ==
  ASSUME NEW T, NEW s \in Seq(T), NEW S, NEW n \in 0 .. Len(s)
  PROVE  \E kept : Filters(kept, s, S, n)
  <1> DEFINE P(m) == \E kept : kept = [i \in 0 .. m |->
               IF i = 0 THEN <<>>
               ELSE IF s[i] \in S THEN Append(kept[i - 1], s[i]) ELSE kept[i - 1]]
  <1> SUFFICES P(n)
    BY DEF Filters
  <1> HIDE DEF P
  <1> DEFINE I == {m \in Nat : ~P(m)}
  <1>1. SUFFICES ASSUME I # {} PROVE FALSE
    OBVIOUS
  <1>2. PICK m : m = Min(I)
    OBVIOUS
  <1>3. m \in Nat /\ ~P(m) /\ \A i \in Nat : i < m => P(i)
    <2>1. I \in SUBSET Nat
      OBVIOUS
    <2>2. m \in I /\ \A i \in I : m <= i
      BY <1>1, <1>2, <2>1, NatMin
    <2>3. m \in Nat /\ ~P(m)
      BY <2>2
    <2>4. ASSUME NEW i \in Nat, i < m, ~P(i) PROVE FALSE
      BY <2>2, <2>3, <2>4
    <2> QED BY <2>3, <2>4
  <1>4. CASE m = 0
    <2>1. P(0)
      <3> DEFINE u == [i \in 0 .. 0 |-> <<>>]
      <3>1. u = [i \in 0 .. 0 |->
                   IF i = 0 THEN <<>>
                   ELSE IF s[i] \in S THEN Append(u[i - 1], s[i]) ELSE u[i - 1]]
        OBVIOUS
      <3> HIDE DEF u
      <3> QED BY <3>1 DEF P
    <2> QED BY <1>3, <1>4, <2>1
  <1>5. CASE m # 0
    <2>1. P(m - 1)
      BY <1>3, <1>5
    <2>2. PICK t : t = [i \in 0 .. m - 1 |->
                          IF i = 0 THEN <<>>
                          ELSE IF s[i] \in S THEN Append(t[i - 1], s[i]) ELSE t[i - 1]]
      BY <2>1 DEF P
    <2> DEFINE u == [i \in 0 .. m |->
                       IF i = m THEN IF s[m] \in S THEN Append(t[m - 1], s[m]) ELSE t[m - 1]
                       ELSE t[i]]
    <2>3. ASSUME NEW i \in 0 .. m
          PROVE  u[i] = IF i = 0 THEN <<>>
                        ELSE IF s[i] \in S THEN Append(u[i - 1], s[i]) ELSE u[i - 1]
      <3>1. \A j \in 0 .. m - 1 : u[j] = t[j]
        BY <1>3
      <3>2. CASE i = m
        <4>1. u[m] = IF s[m] \in S THEN Append(t[m - 1], s[m]) ELSE t[m - 1]
          BY <1>3
        <4>2. u[m - 1] = t[m - 1]
          BY <1>3, <1>5, <3>1
        <4> QED BY <1>5, <3>2, <4>1, <4>2
      <3>3. CASE i < m
        <4>1. u[i] = t[i] /\ (i # 0 => u[i - 1] = t[i - 1])
          BY <1>3, <3>1, <3>3
        <4>2. i \in 0 .. m - 1
          BY <1>3, <3>3
        <4>3. t[i] = IF i = 0 THEN <<>>
                     ELSE IF s[i] \in S THEN Append(t[i - 1], s[i]) ELSE t[i - 1]
          BY <2>2, <4>2
        <4> QED BY <4>1, <4>3
      <3> QED BY <1>3, <3>2, <3>3
    <2>4. u = [i \in 0 .. m |->
                 IF i = 0 THEN <<>>
                 ELSE IF s[i] \in S THEN Append(u[i - 1], s[i]) ELSE u[i - 1]]
      BY <2>3
    <2> HIDE DEF u
    <2>5. P(m)
      BY <2>4 DEF P
    <2> QED BY <1>3, <2>5
  <1> QED BY <1>3, <1>4, <1>5

\* The filter keeps the elements that pass, each occurrence once.
LEMMA FilterKeeps ==
  ASSUME NEW T, NEW s \in Seq(T), NEW S, NEW kept,
         Filters(kept, s, S, Len(s))
  PROVE  /\ kept[Len(s)] \in Seq(T) /\ Len(kept[Len(s)]) <= Len(s)
         /\ ToSet(kept[Len(s)]) = ToSet(s) \cap S
         /\ Within(kept[Len(s)], s)
  <1>0. /\ kept[0] = <<>>
        /\ \A n \in 1 .. Len(s) :
             kept[n] = IF s[n] \in S THEN Append(kept[n - 1], s[n]) ELSE kept[n - 1]
    <2>1. \A i \in 0 .. Len(s) :
            kept[i] = IF i = 0 THEN <<>>
                      ELSE IF s[i] \in S THEN Append(kept[i - 1], s[i]) ELSE kept[i - 1]
      BY DEF Filters
    <2> QED BY <2>1
  <1> DEFINE P(n) ==
        /\ kept[n] \in Seq(T) /\ Len(kept[n]) <= n
        /\ ToSet(kept[n]) = {s[i] : i \in 1 .. n} \cap S
        /\ \E f \in [1 .. Len(kept[n]) -> 1 .. n] :
             /\ \A i \in 1 .. Len(kept[n]) : kept[n][i] = s[f[i]]
             /\ \A i, j \in 1 .. Len(kept[n]) : f[i] = f[j] => i = j
  <1>2. P(0)
    <2>1. kept[0] = <<>> /\ Len(<<>>) = 0
      BY <1>0
    <2>2. ToSet(kept[0]) = {} /\ {s[i] : i \in 1 .. 0} = {}
      BY <2>1 DEF ToSet
    <2> DEFINE e == [i \in 1 .. 0 |-> i]
    <2>3. e \in [1 .. Len(kept[0]) -> 1 .. 0]
      BY <2>1
    <2>4. kept[0] \in Seq(T) /\ Len(kept[0]) <= 0
      BY <2>1
    <2>5. \E f \in [1 .. Len(kept[0]) -> 1 .. 0] :
             /\ \A i \in 1 .. Len(kept[0]) : kept[0][i] = s[f[i]]
             /\ \A i, j \in 1 .. Len(kept[0]) : f[i] = f[j] => i = j
      <3>1. 1 .. Len(kept[0]) = {}
        BY <2>1
      <3> QED BY <2>3, <3>1
    <2> QED BY <2>2, <2>4, <2>5
  <1>3. ASSUME NEW n \in 1 .. Len(s), P(n - 1) PROVE P(n)
    <2>1. kept[n] = IF s[n] \in S THEN Append(kept[n - 1], s[n]) ELSE kept[n - 1]
      BY <1>0
    <2>2. PICK r : r = kept[n - 1]
      OBVIOUS
    <2>3. PICK f \in [1 .. Len(r) -> 1 .. n - 1] :
             /\ \A i \in 1 .. Len(r) : r[i] = s[f[i]]
             /\ \A i, j \in 1 .. Len(r) : f[i] = f[j] => i = j
      <3>1. \E f \in [1 .. Len(kept[n - 1]) -> 1 .. n - 1] :
               /\ \A i \in 1 .. Len(kept[n - 1]) : kept[n - 1][i] = s[f[i]]
               /\ \A i, j \in 1 .. Len(kept[n - 1]) : f[i] = f[j] => i = j
        BY <1>3
      <3> QED BY <2>2, <3>1
    <2>4. /\ r \in Seq(T) /\ Len(r) <= n - 1
          /\ ToSet(r) = {s[i] : i \in 1 .. n - 1} \cap S
      BY <1>3, <2>2
    <2>5. {s[i] : i \in 1 .. n} = {s[i] : i \in 1 .. n - 1} \cup {s[n]}
      OBVIOUS
    <2>6. CASE s[n] \notin S
      <3>1. f \in [1 .. Len(r) -> 1 .. n]
        BY <2>3
      <3>2. kept[n] = r
        BY <2>1, <2>2, <2>6
      <3>3. ToSet(r) = {s[i] : i \in 1 .. n} \cap S
        BY <2>4, <2>5, <2>6
      <3>4. r \in Seq(T) /\ Len(r) <= n
        BY <2>4
      <3> QED BY <2>3, <3>1, <3>2, <3>3, <3>4
    <2>7. CASE s[n] \in S
      <3>1. PICK q : q = Append(r, s[n])
        OBVIOUS
      <3>2. /\ q \in Seq(T) /\ Len(q) = Len(r) + 1 /\ q[Len(r) + 1] = s[n]
            /\ \A i \in 1 .. Len(r) : q[i] = r[i]
        BY <2>4, <3>1
      <3>3. kept[n] = q
        BY <2>1, <2>2, <2>7, <3>1
      <3>4. ToSet(q) = ToSet(r) \cup {s[n]}
        <4>1. DOMAIN q = 1 .. Len(r) + 1 /\ DOMAIN r = 1 .. Len(r) /\ Len(r) \in Nat
          BY <2>4, <3>2
        <4>2. DOMAIN q = DOMAIN r \cup {Len(r) + 1}
          BY <4>1
        <4>3. ToSet(q) = {q[i] : i \in DOMAIN r} \cup {q[Len(r) + 1]}
          BY <4>2 DEF ToSet
        <4>4. {q[i] : i \in DOMAIN r} = ToSet(r)
          BY <3>2, <4>1 DEF ToSet
        <4> QED BY <3>2, <4>3, <4>4
      <3>5. ToSet(q) = {s[i] : i \in 1 .. n} \cap S
        BY <2>4, <2>5, <2>7, <3>4
      <3> DEFINE g == [i \in 1 .. Len(r) + 1 |-> IF i = Len(r) + 1 THEN n ELSE f[i]]
      <3>6. g \in [1 .. Len(q) -> 1 .. n]
        BY <2>3, <2>4, <3>2
      <3>7. \A i \in 1 .. Len(q) : q[i] = s[g[i]]
        BY <2>3, <2>4, <3>2
      <3>8. \A i, j \in 1 .. Len(q) : g[i] = g[j] => i = j
        <4>0. Len(r) \in Nat /\ n \in Nat
          BY <2>4
        <4>1. ASSUME NEW i \in 1 .. Len(r) PROVE g[i] = f[i] /\ f[i] \in 1 .. n - 1
          <5>1. i \in 1 .. Len(r) + 1 /\ i # Len(r) + 1
            BY <4>0
          <5> QED BY <2>3, <5>1
        <4>2. g[Len(r) + 1] = n
          BY <4>0
        <4>3. \A i \in 1 .. Len(r) : g[i] # g[Len(r) + 1]
          BY <4>0, <4>1, <4>2
        <4>4. \A i, j \in 1 .. Len(r) : g[i] = g[j] => i = j
          BY <2>3, <4>1
        <4>5. \A i \in 1 .. Len(q) : i \in 1 .. Len(r) \/ i = Len(r) + 1
          BY <3>2, <4>0
        <4> HIDE DEF g
        <4>6. SUFFICES ASSUME NEW i \in 1 .. Len(q), NEW j \in 1 .. Len(q), g[i] = g[j]
                       PROVE  i = j
          OBVIOUS
        <4>7. CASE i \in 1 .. Len(r) /\ j \in 1 .. Len(r)
          BY <4>4, <4>6, <4>7
        <4>8. CASE i = Len(r) + 1 /\ j = Len(r) + 1
          BY <4>8
        <4>9. CASE i = Len(r) + 1 /\ j \in 1 .. Len(r)
          BY <4>3, <4>6, <4>9
        <4>10. CASE i \in 1 .. Len(r) /\ j = Len(r) + 1
          BY <4>3, <4>6, <4>10
        <4> QED BY <4>5, <4>7, <4>8, <4>9, <4>10
      <3> HIDE DEF g
      <3>9. Len(q) <= n
        BY <2>4, <3>2
      <3>10. \E h \in [1 .. Len(q) -> 1 .. n] :
               /\ \A i \in 1 .. Len(q) : q[i] = s[h[i]]
               /\ \A i, j \in 1 .. Len(q) : h[i] = h[j] => i = j
        BY <3>6, <3>7, <3>8
      <3>11. kept[n] \in Seq(T) /\ Len(kept[n]) <= n
        BY <3>2, <3>3, <3>9
      <3>12. ToSet(kept[n]) = {s[i] : i \in 1 .. n} \cap S
        BY <3>3, <3>5
      <3>13. \E h \in [1 .. Len(kept[n]) -> 1 .. n] :
               /\ \A i \in 1 .. Len(kept[n]) : kept[n][i] = s[h[i]]
               /\ \A i, j \in 1 .. Len(kept[n]) : h[i] = h[j] => i = j
        BY <3>3, <3>10
      <3> QED BY <3>11, <3>12, <3>13
    <2> QED BY <2>6, <2>7
  <1> HIDE DEF P
  <1>4. ASSUME NEW n \in 0 .. Len(s), ~P(n) PROVE FALSE
    <2> DEFINE I == {m \in 0 .. Len(s) : ~P(m)}
    <2>1. I \in SUBSET Nat /\ I # {}
      BY <1>4
    <2>2. PICK m \in I : \A i \in I : m <= i
      BY <2>1, NatMin
    <2>3. m \in 0 .. Len(s) /\ ~P(m) /\ \A i \in 0 .. Len(s) : i < m => P(i)
      <3>1. m \in I /\ \A i \in I : m <= i
        BY <2>2
      <3>2. m \in 0 .. Len(s) /\ ~P(m)
        BY <3>1
      <3>3. ASSUME NEW i \in 0 .. Len(s), i < m, ~P(i) PROVE FALSE
        BY <3>1, <3>2, <3>3
      <3> QED BY <3>2, <3>3
    <2>4. m # 0
      BY <1>2, <2>3
    <2>5. m - 1 \in 0 .. Len(s) /\ m \in 1 .. Len(s) /\ m - 1 < m
      BY <2>3, <2>4
    <2> QED BY <1>3, <2>3, <2>5
  <1>5. P(Len(s))
    BY <1>4
  <1>6. ToSet(s) = {s[i] : i \in 1 .. Len(s)}
    BY DEF ToSet
  <1> QED BY <1>5, <1>6 DEF P, Within

============================================================================
