------------------------------ MODULE ListProofs ------------------------------
(***************************************************************************)
(* What the list operators of the model return, for lists of any length.   *)
(***************************************************************************)
EXTENDS Integers, Functions, Lists, FiniteSetTheorems, WellFoundedInduction, TLAPS

\* Every set of naturals has a least element: a property of every natural number
\* is proved by looking at the least number that lacks it.
LEMMA NatLeast ==
  ASSUME NEW T \in SUBSET Nat, T # {} PROVE \E n \in T : \A m \in T : n <= m
<1> DEFINE R == {ss \in Nat \X Nat : ss[1] < ss[2]}
<1>1. IsWellFoundedOn(R, Nat)
  BY NatLessThanWellFounded DEF OpToRel
<1>2. PICK n \in T : \A m \in T : ~(<<m, n>> \in R)
  BY <1>1, WFMin
<1>3. ASSUME NEW m \in T PROVE n <= m
  <2>1. m \in Nat /\ n \in Nat /\ <<m, n>> \in Nat \X Nat /\ <<m, n>>[1] = m /\ <<m, n>>[2] = n
    OBVIOUS
  <2>2. ~(m < n)
    BY <1>2, <2>1
  <2> QED
    BY <2>1, <2>2
<1> QED
  BY <1>3

\* Appending adds one element to the range, and keeps the elements apart when it
\* is a new one.
LEMMA AppendRange ==
  ASSUME NEW S, NEW s \in Seq(S), NEW e \in S
  PROVE  /\ Append(s, e) \in Seq(S) /\ Len(Append(s, e)) = Len(s) + 1
         /\ Range(Append(s, e)) = Range(s) \cup {e}
         /\ IsInjective(s) /\ e \notin Range(s) => IsInjective(Append(s, e))
<1> DEFINE t == Append(s, e)
<1>1. t \in Seq(S) /\ Len(s) \in Nat /\ DOMAIN s = 1..Len(s) /\ DOMAIN t = 1..(Len(s) + 1) /\ Len(t) = Len(s) + 1
  OBVIOUS
<1>2. t[Len(s) + 1] = e /\ \A i \in 1..Len(s) : t[i] = s[i]
  OBVIOUS
<1> HIDE DEF t
<1>3. Range(t) = {t[i] : i \in 1..(Len(s) + 1)} /\ Range(s) = {s[i] : i \in 1..Len(s)}
  BY <1>1 DEF Range
<1>4. 1..(Len(s) + 1) = (1..Len(s)) \cup {Len(s) + 1}
  BY <1>1
<1>5. Range(t) = Range(s) \cup {e}
  BY <1>2, <1>3, <1>4
<1>6. ASSUME IsInjective(s), e \notin Range(s), NEW i \in DOMAIN t, NEW j \in DOMAIN t, t[i] = t[j] PROVE i = j
  <2>1. (i \in 1..Len(s) \/ i = Len(s) + 1) /\ (j \in 1..Len(s) \/ j = Len(s) + 1)
    BY <1>1, <1>4, <1>6
  <2>2. \A k \in 1..Len(s) : t[k] # e
    BY <1>2, <1>3, <1>6
  <2>3. \A k, l \in 1..Len(s) : s[k] = s[l] => k = l
    BY <1>1, <1>6 DEF IsInjective
  <2> QED
    BY <1>2, <1>6, <2>1, <2>2, <2>3
<1> QED
  BY <1>1, <1>5, <1>6 DEF t, IsInjective

\* What is kept of a list: the elements of keep, apart when they were, and no more
\* of them than there were.
LEMMA KeptIs ==
  ASSUME NEW S, NEW s \in Seq(S), NEW keep
  PROVE  /\ Kept(s, keep) \in Seq(S) /\ Len(Kept(s, keep)) <= Len(s)
         /\ Range(Kept(s, keep)) = Range(s) \cap keep
         /\ IsInjective(s) => IsInjective(Kept(s, keep))
<1> DEFINE N == Len(s)
           Step(f, n) == IF n = 0 THEN <<>> ELSE IF s[n] \in keep THEN Append(f[n - 1], s[n]) ELSE f[n - 1]
           Rec(f, n) == f = [k \in 0..n |-> Step(f, k)]
<1>1. N \in Nat /\ DOMAIN s = 1..N /\ \A k \in 1..N : s[k] \in S
  OBVIOUS
<1> HIDE DEF N
<1>2. \A n \in 0..N : \E f : Rec(f, n)
  <2> DEFINE T == {n \in 0..N : ~\E f : Rec(f, n)}
  <2>0. ASSUME T # {} PROVE FALSE
    <3>1. T \in SUBSET Nat
      BY <1>1
    <3> HIDE DEF T
    <3>2. PICK n \in T : \A m \in T : n <= m
      BY <2>0, <3>1, NatLeast
    <3> USE DEF T
    <3> HIDE DEF Rec
    <3>3. n \in 0..N /\ n \in Nat /\ ~\E f : Rec(f, n)
      BY <1>1, <3>2
    <3>4. CASE n = 0
      <4> DEFINE z == [k \in 0..0 |-> <<>>]
      <4>1. \A k \in 0..0 : Step(z, k) = <<>>
        OBVIOUS
      <4> HIDE DEF Step
      <4>2. z = [k \in 0..0 |-> Step(z, k)]
        BY <4>1
      <4>3. Rec(z, 0)
        BY <4>2 DEF Rec
      <4> QED
        BY <3>3, <3>4, <4>3
    <3>5. CASE n # 0
      <4>1. n - 1 \in 0..N /\ n - 1 \notin T
        BY <1>1, <3>2, <3>3, <3>5
      <4>2. PICK f : Rec(f, n - 1)
        BY <4>1
      <4> DEFINE g == [k \in 0..n |-> IF k = n THEN Step(f, n) ELSE f[k]]
      <4>3. \A k \in 0..n : Step(g, k) = Step(f, k)
        BY <3>3, <3>5
      <4>4. \A k \in 0..n : g[k] = Step(g, k)
        <5> SUFFICES ASSUME NEW k \in 0..n PROVE g[k] = Step(g, k)
          OBVIOUS
        <5>1. CASE k = n
          BY <4>3, <5>1
        <5>2. CASE k # n
          <6>1. k \in 0..(n - 1)
            BY <3>3, <5>2
          <6>2. f[k] = Step(f, k)
            <7> HIDE DEF Step
            <7> QED
              BY <4>2, <6>1 DEF Rec
          <6>3. g[k] = f[k]
            BY <5>2
          <6> QED
            BY <4>3, <6>2, <6>3
        <5> QED
          BY <5>1, <5>2
      <4>5. g = [k \in 0..n |-> g[k]]
        OBVIOUS
      <4> HIDE DEF g, Step
      <4>6. Rec(g, n)
        BY <4>4, <4>5 DEF Rec
      <4> QED
        BY <3>3, <4>6
    <3> QED
      BY <3>4, <3>5
  <2> QED
    BY <2>0
<1> DEFINE kept == CHOOSE f : Rec(f, N)
<1>3. Rec(kept, N)
  <2> HIDE DEF Rec
  <2>1. N \in 0..N
    BY <1>1
  <2>2. \E f : Rec(f, N)
    BY <1>2, <2>1
  <2> QED
    BY <2>2
<1>4. Kept(s, keep) = kept[N]
  BY DEF Kept, N
<1> HIDE DEF kept
<1>5. \A n \in 0..N : kept[n] = Step(kept, n)
  <2> HIDE DEF Step
  <2> QED
    BY <1>3
<1> HIDE DEF Rec
<1> DEFINE Upto(n) == {s[i] : i \in 1..n}
           Good(n) == /\ kept[n] \in Seq(S) /\ Len(kept[n]) <= n /\ Range(kept[n]) = Upto(n) \cap keep
                      /\ IsInjective(s) => IsInjective(kept[n])
<1>6. Good(0)
  <2>1. kept[0] = <<>>
    BY <1>1, <1>5
  <2>2. Range(<<>>) = {}
    BY DEF Range
  <2>3. IsInjective(<<>>)
    BY DEF IsInjective
  <2> QED
    BY <2>1, <2>2, <2>3
<1>7. ASSUME NEW n \in 1..N, Good(n - 1) PROVE Good(n)
  <2>1. n \in 0..N /\ n # 0 /\ n \in Nat /\ s[n] \in S
    BY <1>1
  <2> DEFINE a == kept[n - 1]
  <2> HIDE DEF a
  <2>2. a \in Seq(S) /\ Len(a) <= n - 1 /\ Range(a) = Upto(n - 1) \cap keep /\ (IsInjective(s) => IsInjective(a))
    BY <1>7 DEF a
  <2>3. CASE s[n] \notin keep
    <3>1. kept[n] = a
      BY <1>5, <2>1, <2>3 DEF a
    <3>2. Upto(n) \cap keep = Upto(n - 1) \cap keep
      BY <2>1, <2>3
    <3>3. Len(a) <= n
      BY <2>1, <2>2
    <3> QED
      BY <2>2, <3>1, <3>2, <3>3
  <2>4. CASE s[n] \in keep
    <3>1. kept[n] = Append(a, s[n])
      BY <1>5, <2>1, <2>4 DEF a
    <3>2. Upto(n) \cap keep = (Upto(n - 1) \cap keep) \cup {s[n]}
      BY <2>1, <2>4
    <3>3. /\ Append(a, s[n]) \in Seq(S) /\ Len(Append(a, s[n])) = Len(a) + 1
          /\ Range(Append(a, s[n])) = Range(a) \cup {s[n]}
          /\ IsInjective(a) /\ s[n] \notin Range(a) => IsInjective(Append(a, s[n]))
      BY <2>1, <2>2, AppendRange
    <3>4. ASSUME IsInjective(s) PROVE s[n] \notin Range(a)
      <4>1. ASSUME NEW i \in 1..(n - 1) PROVE s[i] # s[n]
        BY <1>1, <2>1, <3>4 DEF IsInjective
      <4> QED
        BY <2>2, <4>1
    <3>5. Len(a) + 1 <= n
      BY <2>1, <2>2
    <3> HIDE DEF Upto
    <3>6. IsInjective(s) => IsInjective(kept[n])
      BY <2>2, <3>1, <3>3, <3>4
    <3>7. Range(kept[n]) = Upto(n) \cap keep
      BY <2>2, <3>1, <3>2, <3>3
    <3> QED
      BY <3>1, <3>3, <3>5, <3>6, <3>7
  <2> QED
    BY <2>3, <2>4
<1> HIDE DEF Upto
<1>8. \A n \in 0..N : Good(n)
  <2> DEFINE T == {n \in 0..N : ~Good(n)}
  <2> HIDE DEF Good
  <2>0. ASSUME T # {} PROVE FALSE
    <3>1. T \in SUBSET Nat
      BY <1>1
    <3> HIDE DEF T
    <3>2. PICK n \in T : \A m \in T : n <= m
      BY <2>0, <3>1, NatLeast
    <3> USE DEF T
    <3>3. n \in 1..N /\ n - 1 \in 0..N /\ n - 1 \notin T
      BY <1>1, <1>6, <3>2
    <3> QED
      BY <1>7, <3>2, <3>3
  <2> QED
    BY <2>0
<1> QED
  <2>1. Good(N)
    <3> HIDE DEF Good
    <3>1. N \in 0..N
      BY <1>1
    <3> QED
      BY <1>8, <3>1
  <2>2. Range(s) = Upto(N)
    BY <1>1 DEF Range, Upto
  <2> QED
    BY <1>4, <2>1, <2>2 DEF N
\* A list of different elements has as many of them as it is long.
LEMMA DistinctSize ==
  ASSUME NEW S, NEW s \in Seq(S), IsInjective(s)
  PROVE  Cardinality(Range(s)) = Len(s)
<1>1. Len(s) \in Nat /\ DOMAIN s = 1..Len(s) /\ s = [i \in 1..Len(s) |-> s[i]]
  OBVIOUS
<1>2. \A i \in 1..Len(s) : s[i] \in Range(s)
  BY <1>1 DEF Range
<1>3. s \in [1..Len(s) -> Range(s)]
  BY <1>1, <1>2
<1>4. \A t \in Range(s) : \E i \in 1..Len(s) : s[i] = t
  BY <1>1 DEF Range
<1>5. s \in Bijection(1..Len(s), Range(s))
  BY <1>3, <1>4 DEF Bijection, Injection, Surjection
<1>6. ExistsBijection(1..Len(s), Range(s))
  BY <1>5 DEF ExistsBijection
<1> QED
  BY <1>1, <1>6, FS_CountingElements

-----------------------------------------------------------------------------
(* Definitions by recursion.                                               *)

\* f starts at first, and F makes each of its values from the one before.
Unfolds(f, N, S, first, F) ==
  f \in [0..N -> S] /\ f[0] = first /\ \A n \in 1..N : f[n] = F[n][f[n - 1]]

\* A definition by recursion from 0 up to a bound has a value at every step.
LEMMA Recursion ==
  ASSUME NEW N \in Nat, NEW S, NEW first \in S, NEW F \in [1..N -> [S -> S]]
  PROVE  \E f : Unfolds(f, N, S, first, F)
<1> DEFINE Rec(f, n) == f \in [0..n -> S] /\ f[0] = first /\ \A k \in 1..n : f[k] = F[k][f[k - 1]]
           T == {n \in 0..N : ~\E f : Rec(f, n)}
<1>1. ASSUME T # {} PROVE FALSE
  <2>1. T \in SUBSET Nat
    OBVIOUS
  <2> HIDE DEF T
  <2>2. PICK n \in T : \A m \in T : n <= m
    BY <1>1, <2>1, NatLeast
  <2> USE DEF T
  <2> HIDE DEF Rec
  <2>3. n \in 0..N /\ n \in Nat /\ ~\E f : Rec(f, n)
    BY <2>2
  <2>4. CASE n = 0
    <3>1. Rec([k \in 0..0 |-> first], 0)
      BY DEF Rec
    <3> QED
      BY <2>3, <2>4, <3>1
  <2>5. CASE n # 0
    <3>1. n - 1 \in 0..N /\ n - 1 \notin T
      BY <2>2, <2>3, <2>5
    <3>2. PICK f : Rec(f, n - 1)
      BY <3>1
    <3>3. F[n] \in [S -> S] /\ f[n - 1] \in S
      BY <2>3, <2>5, <3>2 DEF Rec
    <3> DEFINE g == [k \in 0..n |-> IF k = n THEN F[n][f[n - 1]] ELSE f[k]]
    <3>4. g[n] = F[n][g[n - 1]] /\ g[0] = first
      BY <2>3, <2>5, <3>2 DEF Rec
    <3>5. ASSUME NEW k \in 1..n, k # n PROVE g[k] = F[k][g[k - 1]]
      <4>1. k \in 1..(n - 1) /\ k \in 0..n /\ k - 1 \in 0..n /\ k - 1 # n
        BY <2>3, <3>5
      <4>2. g[k] = f[k] /\ g[k - 1] = f[k - 1]
        BY <3>5, <4>1
      <4> QED
        BY <3>2, <4>1, <4>2 DEF Rec
    <3>6. g \in [0..n -> S]
      <4> SUFFICES ASSUME NEW k \in 0..n PROVE g[k] \in S
        OBVIOUS
      <4>1. CASE k = n
        BY <3>3, <4>1
      <4>2. CASE k # n
        <5>1. k \in 0..(n - 1)
          BY <2>3, <4>2
        <5> QED
          BY <3>2, <4>2, <5>1 DEF Rec
      <4> QED
        BY <4>1, <4>2
    <3> HIDE DEF g
    <3>7. Rec(g, n)
      BY <3>4, <3>5, <3>6 DEF Rec
    <3> QED
      BY <2>3, <3>7
  <2> QED
    BY <2>4, <2>5
<1>2. N \in 0..N
  OBVIOUS
<1>3. \E f : Rec(f, N)
  <2> HIDE DEF Rec
  <2> QED
    BY <1>1, <1>2
<1> QED
  BY <1>3 DEF Unfolds

\* g takes the value of a place where the walk stops, and that of the next place elsewhere.
Walks(g, N, stop, value, next) == g = [c \in 0..N |-> IF c \in stop THEN value[c] ELSE g[next[c]]]

\* A walk that goes forward until it stops has a value at every place.
LEMMA Walk ==
  ASSUME NEW N \in Nat, NEW stop, NEW value, NEW next \in [0..N -> Nat],
         \A c \in 0..N : c \notin stop => next[c] \in 0..N /\ c < next[c]
  PROVE  \E g : Walks(g, N, stop, value, next)
<1> DEFINE Rec(g, n) == \A c \in 0..N : N - n < c => g[c] = IF c \in stop THEN value[c] ELSE g[next[c]]
           T == {n \in 0..(N + 1) : ~\E g : Rec(g, n)}
<1>1. ASSUME T # {} PROVE FALSE
  <2>1. T \in SUBSET Nat
    OBVIOUS
  <2> HIDE DEF T
  <2>2. PICK n \in T : \A m \in T : n <= m
    BY <1>1, <2>1, NatLeast
  <2> USE DEF T
  <2> HIDE DEF Rec
  <2>3. n \in 0..(N + 1) /\ n \in Nat /\ ~\E g : Rec(g, n)
    BY <2>2
  <2>4. n # 0
    <3>1. Rec(<<>>, 0)
      BY DEF Rec
    <3> QED
      BY <2>3, <3>1
  <2>5. n - 1 \in 0..(N + 1) /\ n - 1 \notin T
    BY <2>2, <2>3, <2>4
  <2>6. PICK f : Rec(f, n - 1)
    BY <2>5
  <2> DEFINE p == N - n + 1
             g == [c \in 0..N |-> IF c = p THEN IF p \in stop THEN value[p] ELSE f[next[p]] ELSE f[c]]
  <2>7. p \in 0..N
    BY <2>3, <2>4
  <2>8. ASSUME NEW c \in 0..N, N - n < c
        PROVE  g[c] = IF c \in stop THEN value[c] ELSE g[next[c]]
    <3>1. c \notin stop => next[c] \in 0..N /\ next[c] # p
      BY <2>3, <2>8
    <3>2. CASE c = p
      BY <3>1, <3>2
    <3>3. CASE c # p
      <4>1. N - (n - 1) < c
        BY <2>3, <2>8, <3>3
      <4>2. f[c] = IF c \in stop THEN value[c] ELSE f[next[c]]
        BY <2>6, <4>1 DEF Rec
      <4> QED
        BY <3>1, <3>3, <4>2
    <3> QED
      BY <3>2, <3>3
  <2> HIDE DEF g
  <2>9. Rec(g, n)
    BY <2>8 DEF Rec
  <2> QED
    BY <2>3, <2>9
<1>2. N + 1 \in 0..(N + 1)
  OBVIOUS
<1>3. PICK f : Rec(f, N + 1)
  <2> HIDE DEF Rec
  <2> QED
    BY <1>1, <1>2
<1>4. \A c \in 0..N : f[c] = IF c \in stop THEN value[c] ELSE f[next[c]]
  BY <1>3
<1> DEFINE g == [c \in 0..N |-> f[c]]
<1>5. \A c \in 0..N : g[c] = IF c \in stop THEN value[c] ELSE g[next[c]]
  BY <1>4
<1>6. g = [c \in 0..N |-> g[c]]
  OBVIOUS
<1> HIDE DEF g
<1>7. g = [c \in 0..N |-> IF c \in stop THEN value[c] ELSE g[next[c]]]
  BY <1>5, <1>6
<1> QED
  BY <1>7 DEF Walks

\* Two lists whose elements f counts through, one after the other.
LEMMA Concatenated ==
  ASSUME NEW f, NEW m \in Nat, NEW k \in Nat, NEW s, NEW t,
         s = [i \in 1..m |-> f[i]], t = [i \in 1..k |-> f[m + i]]
  PROVE  s \o t = [i \in 1..(m + k) |-> f[i]]
  OBVIOUS

\* What holds at 0 and is handed on at every step holds everywhere.
LEMMA Stays ==
  ASSUME NEW N \in Nat, NEW S, NEW f, f[0] \in S, \A n \in 1..N : f[n - 1] \in S => f[n] \in S
  PROVE  \A n \in 0..N : f[n] \in S
<1> DEFINE T == {n \in 0..N : f[n] \notin S}
<1>1. ASSUME T # {} PROVE FALSE
  <2>1. T \in SUBSET Nat
    OBVIOUS
  <2> HIDE DEF T
  <2>2. PICK n \in T : \A m \in T : n <= m
    BY <1>1, <2>1, NatLeast
  <2> USE DEF T
  <2>3. n \in 0..N /\ f[n] \notin S /\ n # 0
    BY <2>2
  <2>4. n - 1 \in 0..N /\ n - 1 \notin T /\ n \in 1..N
    BY <2>2, <2>3
  <2> QED
    BY <2>3, <2>4
<1> QED
  BY <1>1

LEMMA ProductIsNat == ASSUME NEW a \in Nat, NEW b \in Nat PROVE a * b \in Nat
  OBVIOUS

LEMMA ProductIsPositive == ASSUME NEW a \in Nat \ {0} PROVE a * a \in Nat \ {0}
  OBVIOUS

\* A number below the base is what division by the base leaves.
LEMMA DivMod ==
  ASSUME NEW b \in Nat \ {0}, NEW q \in Nat, NEW r \in 0..(b - 1)
  PROVE  (q * b + r) \div b = q /\ (q * b + r) % b = r
  BY SMTT(60)

-----------------------------------------------------------------------------
(* Sequences and what they begin with *)

\* Joined sequences.
LEMMA Join ==
  ASSUME NEW S, NEW s \in Seq(S), NEW t \in Seq(S)
  PROVE  s \o t \in Seq(S) /\ Len(s \o t) = Len(s) + Len(t) /\ Len(s) \in Nat /\ Len(t) \in Nat
  OBVIOUS

\* A stretch of a sequence.
LEMMA Stretch ==
  ASSUME NEW S, NEW s \in Seq(S), NEW m \in Nat, NEW n \in Nat, m + n <= Len(s)
  PROVE  /\ SubSeq(s, m + 1, m + n) \in Seq(S) /\ Len(SubSeq(s, m + 1, m + n)) = n
         /\ \A k \in 1..n : SubSeq(s, m + 1, m + n)[k] = s[m + k]
<1>1. Len(s) \in Nat
  OBVIOUS
<1>2. SubSeq(s, m + 1, m + n) = [k \in 1..n |-> s[m + k]]
  <2>1. m + n - (m + 1) + 1 = n
    OBVIOUS
  <2>2. \A k \in 1..n : k + (m + 1) - 1 = m + k
    OBVIOUS
  <2> QED
    BY <1>1, <2>1, <2>2
<1>3. \A k \in 1..n : s[m + k] \in S
  BY <1>1
<1> DEFINE x == [k \in 1..n |-> s[m + k]]
<1>4. x \in Seq(S) /\ Len(x) = n /\ \A k \in 1..n : x[k] = s[m + k]
  BY <1>3
<1> HIDE DEF x
<1>5. SubSeq(s, m + 1, m + n) = x
  BY <1>2 DEF x
<1> QED
  BY <1>4, <1>5

\* What holds at 0 and is handed on upwards holds of every number up to N.
LEMMA Upward ==
  ASSUME NEW N \in Nat, NEW T, 0 \in T, \A n \in 1..N : n - 1 \in T => n \in T
  PROVE  \A n \in 0..N : n \in T
<1> DEFINE f == [n \in 0..N |-> n]
<1>1. f[0] \in T /\ \A n \in 1..N : f[n] = n /\ f[n - 1] = n - 1
  OBVIOUS
<1>2. \A n \in 0..N : f[n] \in T
  <2> HIDE DEF f
  <2> QED
    BY <1>1, Stays
<1> QED
  BY <1>2

\* What holds at N and is handed on downwards holds of every number down to 0.
LEMMA Downward ==
  ASSUME NEW N \in Nat, NEW T, N \in T, \A n \in 1..N : n \in T => n - 1 \in T
  PROVE  \A n \in 0..N : n \in T
<1> DEFINE U == {n \in 0..N : N - n \in T}
<1>1. 0 \in U
  OBVIOUS
<1>2. ASSUME NEW n \in 1..N, n - 1 \in U PROVE n \in U
  <2>1. N - (n - 1) \in 1..N /\ N - (n - 1) - 1 = N - n /\ n \in 0..N
    OBVIOUS
  <2>2. N - (n - 1) \in T
    BY <1>2
  <2> QED
    BY <2>1, <2>2
<1>3. \A n \in 0..N : n \in U
  <2> HIDE DEF U
  <2> QED
    BY <1>1, <1>2, Upward
<1>4. ASSUME NEW n \in 0..N PROVE n \in T
  <2>1. N - n \in 0..N /\ N - (N - n) = n
    OBVIOUS
  <2>2. N - n \in U
    BY <1>3, <2>1
  <2> QED
    BY <2>1, <2>2
<1> QED
  BY <1>4

\* Two sequences with the same elements are one.
LEMMA Alike ==
  ASSUME NEW S, NEW s \in Seq(S), NEW t \in Seq(S), Len(s) = Len(t), \A k \in 1..Len(s) : s[k] = t[k]
  PROVE  s = t
  OBVIOUS

\* c starts with w.
Begins(c, w) == Len(w) <= Len(c) /\ \A k \in 1..Len(w) : c[k] = w[k]

\* What begins with s and t joined begins with s, and t is found behind it.
LEMMA BeginsShorter ==
  ASSUME NEW S, NEW c \in Seq(S), NEW s \in Seq(S), NEW t \in Seq(S), Begins(c, s \o t)
  PROVE  /\ Begins(c, s) /\ Len(s) + Len(t) <= Len(c) /\ Len(s \o t) = Len(s) + Len(t)
         /\ \A k \in 1..Len(t) : c[Len(s) + k] = t[k]
<1>1. /\ Len(s) \in Nat /\ Len(t) \in Nat /\ Len(c) \in Nat /\ Len(s \o t) = Len(s) + Len(t)
      /\ \A k \in 1..Len(s) : (s \o t)[k] = s[k]
  OBVIOUS
<1>2. \A k \in 1..Len(t) : (s \o t)[Len(s) + k] = t[k]
  OBVIOUS
<1> DEFINE w == s \o t
<1> HIDE DEF w
<1>3. Begins(c, w) /\ Len(w) = Len(s) + Len(t) /\ (\A k \in 1..Len(s) : w[k] = s[k])
      /\ \A k \in 1..Len(t) : w[Len(s) + k] = t[k]
  BY <1>1, <1>2 DEF w
<1>4. \A k \in 1..Len(s) : k \in 1..Len(w)
  BY <1>1, <1>3
<1>5. \A k \in 1..Len(t) : Len(s) + k \in 1..Len(w)
  BY <1>1, <1>3
<1>6. Begins(c, s)
  BY <1>1, <1>3, <1>4 DEF Begins
<1>7. \A k \in 1..Len(t) : c[Len(s) + k] = t[k]
  BY <1>1, <1>3, <1>5 DEF Begins
<1>8. Len(s) + Len(t) <= Len(c)
  BY <1>3 DEF Begins
<1> QED
  BY <1>1, <1>6, <1>7, <1>8

\* A sequence begins with itself, and with what its own beginning begins with.
LEMMA BeginsSelf == ASSUME NEW S, NEW s \in Seq(S) PROVE Begins(s, s)
<1>1. Len(s) \in Nat
  OBVIOUS
<1> QED
  BY <1>1 DEF Begins

LEMMA BeginsEach ==
  ASSUME NEW S, NEW c \in Seq(S), NEW s \in Seq(S), NEW t \in Seq(S), Begins(c, s), Begins(s, t)
  PROVE  Begins(c, t)
<1>1. Len(c) \in Nat /\ Len(s) \in Nat /\ Len(t) \in Nat
  OBVIOUS
<1> QED
  BY <1>1 DEF Begins

\* Two that start the same text start one another.
LEMMA Beside ==
  ASSUME NEW S, NEW b \in Seq(S), NEW c \in Seq(S), NEW w \in Seq(S), Begins(b, c), Begins(b, w)
  PROVE  IF Len(w) <= Len(c) THEN Begins(c, w) ELSE Begins(w, c)
<1>1. Len(b) \in Nat /\ Len(c) \in Nat /\ Len(w) \in Nat
  OBVIOUS
<1>2. \A k \in 1..Len(c) : b[k] = c[k]
  BY DEF Begins
<1>3. \A k \in 1..Len(w) : b[k] = w[k]
  BY DEF Begins
<1>4. CASE Len(w) <= Len(c)
  <2>1. \A k \in 1..Len(w) : k \in 1..Len(c)
    BY <1>1, <1>4
  <2> QED
    BY <1>2, <1>3, <1>4, <2>1 DEF Begins
<1>5. CASE ~(Len(w) <= Len(c))
  <2>1. Len(c) <= Len(w) /\ \A k \in 1..Len(c) : k \in 1..Len(w)
    BY <1>1, <1>5
  <2> QED
    BY <1>2, <1>3, <1>5, <2>1 DEF Begins
<1> QED
  BY <1>4, <1>5
=============================================================================
