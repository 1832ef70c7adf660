---------------------------- MODULE LikeCutProofs ----------------------------
(***************************************************************************)
(* Theorems about what is made of a pattern, for every pattern and text:   *)
(* the parts it is cut into and the regular expression that stands for it  *)
(* mean what LIKE means.                                                   *)
(***************************************************************************)
EXTENDS LikeCut, SequenceTheorems, FiniteSetTheorems, WellFoundedInduction, TLAPS

-----------------------------------------------------------------------------
(* Induction.                                                              *)

\* Every set of natural numbers that is not empty has a least element.
LEMMA LeastNat ==
    ASSUME NEW T \in SUBSET Nat, T # {}
    PROVE  \E x \in T : \A y \in T : x <= y
<1> DEFINE R == OpToRel(<, Nat)
<1>1. PICK x \in T : \A y \in T : <<y, x>> \notin R
  <2>1. IsWellFoundedOn(R, Nat)
    BY NatLessThanWellFounded
  <2> HIDE DEF R
  <2> QED
    BY <2>1, WFMin
<1>2. ASSUME NEW y \in T PROVE x <= y
  <2>1. x \in Nat /\ y \in Nat
    OBVIOUS
  <2>2. y < x => <<y, x>> \in R
    BY <2>1 DEF OpToRel
  <2>3. ~(y < x)
    <3> HIDE DEF R
    <3> QED
      BY <1>1, <2>2
  <2> QED
    BY <2>1, <2>3
<1> QED
  BY <1>2

\* What holds at m and, if it holds in front of i, at i, holds for all of
\* m .. n; the set S stands for what it holds for.
LEMMA Upwards ==
    ASSUME NEW m \in Nat, NEW n \in Nat, NEW S, m \in S,
           \A i \in m + 1 .. n : i - 1 \in S => i \in S
    PROVE  m .. n \subseteq S
<1> DEFINE Bad == (m .. n) \ S
<1> SUFFICES ASSUME Bad # {} PROVE FALSE
  OBVIOUS
<1>1. PICK k \in Bad : \A y \in Bad : k <= y
  <2>1. Bad \in SUBSET Nat
    OBVIOUS
  <2> HIDE DEF Bad
  <2> QED
    BY <2>1, LeastNat
<1>2. k \in m + 1 .. n /\ k - 1 \notin Bad
  BY <1>1
<1> QED
  BY <1>1, <1>2

\* What holds at i if it holds at all greater numbers up to n holds for all
\* of m .. n.
LEMMA Downwards ==
    ASSUME NEW m \in Nat, NEW n \in Nat, NEW S,
           \A i \in m .. n : i + 1 .. n \subseteq S => i \in S
    PROVE  m .. n \subseteq S
<1> DEFINE T == {d \in 0 .. n + 1 - m : (n + 1) - d .. n \subseteq S}
<1> SUFFICES ASSUME m <= n PROVE m .. n \subseteq S
  OBVIOUS
<1>1. 0 \in T
  OBVIOUS
<1>2. ASSUME NEW d \in 0 + 1 .. n + 1 - m, d - 1 \in T PROVE d \in T
  <2>1. (n + 1) - d \in m .. n /\ ((n + 1) - d) + 1 = (n + 1) - (d - 1)
    OBVIOUS
  <2>2. (n + 1) - d \in S
    BY <1>2, <2>1
  <2>3. \A j \in (n + 1) - d .. n : j = (n + 1) - d \/ j \in (n + 1) - (d - 1) .. n
    BY <2>1
  <2>4. d \in 0 .. n + 1 - m
    OBVIOUS
  <2> QED
    BY <1>2, <2>2, <2>3, <2>4
<1>3. 0 .. n + 1 - m \subseteq T
  <2>1. n + 1 - m \in Nat /\ 0 \in Nat
    OBVIOUS
  <2> HIDE DEF T
  <2> QED
    BY <1>1, <1>2, <2>1, Upwards
<1>4. n + 1 - m \in T /\ (n + 1) - (n + 1 - m) = m
  <2>1. n + 1 - m \in 0 .. n + 1 - m /\ (n + 1) - (n + 1 - m) = m
    OBVIOUS
  <2> HIDE DEF T
  <2> QED
    BY <1>3, <2>1
<1> QED
  BY <1>4

\* A recursion on D: the value at i is base[i] at a stop, and else what step[i]
\* makes of the value at next[i], which has a lower rank; and a function that
\* follows it.
Descends(D, V, N, rank, stop, base, step, next) ==
    /\ N \in Nat /\ rank \in [D -> 0 .. N]
    /\ \A i \in D : i \in stop => base[i] \in V
    /\ \A i \in D : i \notin stop =>
          next[i] \in D /\ rank[next[i]] < rank[i] /\ step[i] \in [V -> V]
Follows(f, D, V, stop, base, step, next) ==
    /\ f \in [D -> V]
    /\ \A i \in D : f[i] = IF i \in stop THEN base[i] ELSE step[i][f[next[i]]]

\* A recursion whose every step lowers the rank defines a function.
LEMMA RankedFunction ==
    ASSUME NEW D, NEW V, NEW N, NEW rank, NEW stop, NEW base, NEW step, NEW next,
           Descends(D, V, N, rank, stop, base, step, next)
    PROVE  \E f : Follows(f, D, V, stop, base, step, next)
<1> DEFINE rule(f, i) == IF i \in stop THEN base[i] ELSE step[i][f[next[i]]]
           Below(m) == {i \in D : rank[i] < m}
           H == {m \in 0 .. N + 1 : \E f \in [Below(m) -> V] : \A i \in Below(m) : f[i] = rule(f, i)}
<1> N \in Nat /\ rank \in [D -> 0 .. N]
  BY DEF Descends
<1>0. /\ \A i \in D : i \in stop => base[i] \in V
      /\ \A i \in D : i \notin stop =>
            next[i] \in D /\ rank[next[i]] < rank[i] /\ step[i] \in [V -> V]
  BY DEF Descends
<1>1. 0 \in H
  <2> DEFINE none == [i \in Below(0) |-> base[i]]
  <2>1. Below(0) = {}
    OBVIOUS
  <2>2. none \in [Below(0) -> V] /\ \A i \in Below(0) : none[i] = rule(none, i)
    BY <2>1
  <2> HIDE DEF none, Below, rule
  <2> QED
    BY <2>2
<1>2. ASSUME NEW m \in 0 + 1 .. N + 1, m - 1 \in H PROVE m \in H
  <2>1. PICK f \in [Below(m - 1) -> V] : \A i \in Below(m - 1) : f[i] = rule(f, i)
    BY <1>2
  <2> DEFINE longer == [i \in Below(m) |-> IF rank[i] < m - 1 THEN f[i] ELSE rule(f, i)]
  <2>2. ASSUME NEW i \in Below(m), i \notin stop
        PROVE  /\ next[i] \in Below(m - 1) /\ next[i] \in Below(m)
               /\ f[next[i]] \in V /\ step[i] \in [V -> V] /\ longer[next[i]] = f[next[i]]
    <3>1. i \in D /\ next[i] \in D /\ rank[i] < m /\ rank[next[i]] < rank[i] /\ step[i] \in [V -> V]
      BY <1>0, <2>2
    <3>2. rank[i] \in Nat /\ rank[next[i]] \in Nat
      BY <3>1
    <3>3. rank[next[i]] < m - 1 /\ rank[next[i]] < m
      BY <3>1, <3>2
    <3>4. next[i] \in Below(m - 1) /\ next[i] \in Below(m)
      BY <3>1, <3>3
    <3> QED
      BY <3>1, <3>3, <3>4
  <2>3. ASSUME NEW i \in Below(m) PROVE rule(f, i) \in V /\ rule(longer, i) = rule(f, i)
    <3>1. CASE i \in stop
      <4>1. i \in D
        OBVIOUS
      <4> QED
        BY <1>0, <3>1, <4>1
    <3>2. CASE i \notin stop
      <4>1. f[next[i]] \in V /\ step[i] \in [V -> V] /\ longer[next[i]] = f[next[i]]
        BY <2>2, <3>2
      <4> HIDE DEF longer
      <4> QED
        BY <3>2, <4>1
    <3> QED
      BY <3>1, <3>2
  <2>4. ASSUME NEW i \in Below(m) PROVE longer[i] \in V /\ longer[i] = rule(longer, i)
    <3>1. CASE rank[i] < m - 1
      <4>1. i \in Below(m - 1) /\ longer[i] = f[i]
        BY <3>1
      <4> HIDE DEF longer, rule, Below
      <4> QED
        BY <2>1, <2>3, <4>1
    <3>2. CASE ~(rank[i] < m - 1)
      <4>1. longer[i] = rule(f, i)
        BY <3>2
      <4> HIDE DEF longer, rule, Below
      <4> QED
        BY <2>3, <4>1
    <3> QED
      BY <3>1, <3>2
  <2>5. longer \in [Below(m) -> V]
    BY <2>4
  <2>6. \E g \in [Below(m) -> V] : \A i \in Below(m) : g[i] = rule(g, i)
    <3> HIDE DEF longer, rule, Below
    <3> QED
      BY <2>4, <2>5
  <2>7. m \in 0 .. N + 1
    OBVIOUS
  <2> QED
    BY <2>6, <2>7
<1>3. N + 1 \in H
  <2> HIDE DEF H
  <2>1. 0 .. N + 1 \subseteq H
    <3>1. N + 1 \in Nat /\ 0 \in Nat
      OBVIOUS
    <3> QED
      BY <1>1, <1>2, <3>1, Upwards
  <2> QED
    BY <2>1
<1>4. Below(N + 1) = D
  OBVIOUS
<1>5. \E f \in [Below(N + 1) -> V] : \A i \in Below(N + 1) : f[i] = rule(f, i)
  BY <1>3
<1> QED
  BY <1>4, <1>5 DEF Follows

\* A text that is one text and another one behind it.
Joins(text, r, t) ==
    /\ Len(text) = Len(r) + Len(t)
    /\ \A j \in 1 .. Len(r) : text[j] = r[j]
    /\ \A j \in 1 .. Len(t) : text[Len(r) + j] = t[j]

\* So is the concatenation of the two.
LEMMA Concatenated ==
    ASSUME NEW S, NEW r \in Seq(S), NEW t \in Seq(S)
    PROVE  r \o t \in Seq(S) /\ Joins(r \o t, r, t)
<1> DEFINE l == Len(r)  w == Len(t)  text == r \o t
<1>1. text \in Seq(S) /\ Len(text) = l + w
  BY ConcatProperties
<1>2. \A j \in 1 .. l + w : text[j] = IF j <= l THEN r[j] ELSE t[j - l]
  BY ConcatProperties
<1>3. l \in Nat /\ w \in Nat
  OBVIOUS
<1> HIDE DEF l, w, text
<1>4. ASSUME NEW j \in 1 .. l PROVE text[j] = r[j]
  <2>1. j \in 1 .. l + w /\ j <= l
    BY <1>3
  <2> QED
    BY <1>2, <2>1
<1>5. ASSUME NEW j \in 1 .. w PROVE text[l + j] = t[j]
  <2>1. l + j \in 1 .. l + w /\ ~(l + j <= l) /\ (l + j) - l = j
    BY <1>3
  <2> QED
    BY <1>2, <2>1
<1>6. text \in Seq(S) /\ Joins(text, r, t)
  BY <1>1, <1>4, <1>5 DEF l, w, Joins
<1> QED
  BY <1>6 DEF text

\* A text that is put together from behind: at each position something stands
\* in front of the text of a later position.
GoesOn(N, stop, next) == N \in Nat /\ \A i \in 1 .. N : i \notin stop => next[i] \in i + 1 .. N
Chains(f, N, stop, front, next) ==
    f = [i \in 1 .. N |-> IF i \in stop THEN << >> ELSE front[i] \o f[next[i]]]

\* For every such prescription there is a function that follows it.
LEMMA ConcatFunction ==
    ASSUME NEW N, NEW stop, NEW front, NEW next, GoesOn(N, stop, next)
    PROVE  \E f : Chains(f, N, stop, front, next)
<1> DEFINE rule(f, i) == IF i \in stop THEN << >> ELSE front[i] \o f[next[i]]
           Right(f, m) == \A i \in 1 .. N : i > N - m => f[i] = rule(f, i)
           H == {m \in 0 .. N : \E f : f = [i \in 1 .. N |-> f[i]] /\ Right(f, m)}
<1> N \in Nat
  BY DEF GoesOn
<1>1. 0 \in H
  <2> DEFINE none == [i \in 1 .. N |-> << >>]
  <2>1. none = [i \in 1 .. N |-> none[i]] /\ Right(none, 0)
    <3>1. none = [i \in 1 .. N |-> none[i]]
      OBVIOUS
    <3>2. \A i \in 1 .. N : ~(i > N - 0)
      OBVIOUS
    <3> HIDE DEF none, rule
    <3> QED
      BY <3>1, <3>2
  <2> HIDE DEF none, Right
  <2> QED
    BY <2>1
<1>2. ASSUME NEW m \in 0 + 1 .. N, m - 1 \in H PROVE m \in H
  <2>1. PICK f : f = [i \in 1 .. N |-> f[i]] /\ Right(f, m - 1)
    BY <1>2
  <2> DEFINE at == (N - m) + 1
             longer == [i \in 1 .. N |-> IF i = at THEN rule(f, i) ELSE f[i]]
  <2>2. ASSUME NEW i \in 1 .. N, i > N - m PROVE longer[i] = rule(longer, i)
    <3>1. i \notin stop => next[i] \in 1 .. N /\ next[i] # at
      BY <2>2 DEF GoesOn
    <3>2. rule(longer, i) = rule(f, i)
      <4>1. i \notin stop => longer[next[i]] = f[next[i]]
        BY <3>1
      <4> HIDE DEF longer
      <4> QED
        BY <4>1, Zenon
    <3>3. i # at => i > N - (m - 1)
      BY <2>2
    <3>4. i # at => f[i] = rule(f, i)
      BY <2>1, <3>3
    <3>5. longer[i] = IF i = at THEN rule(f, i) ELSE f[i]
      OBVIOUS
    <3> HIDE DEF rule, longer
    <3> QED
      BY <3>2, <3>4, <3>5
  <2>3. Right(longer, m) /\ longer = [i \in 1 .. N |-> longer[i]]
    <3>1. longer = [i \in 1 .. N |-> longer[i]]
      OBVIOUS
    <3> HIDE DEF longer, rule
    <3> QED
      BY <2>2, <3>1
  <2>4. m \in 0 .. N
    OBVIOUS
  <2> HIDE DEF longer, Right
  <2> QED
    BY <2>3, <2>4
<1>3. N \in H
  <2> HIDE DEF H
  <2>1. 0 .. N \subseteq H
    BY <1>1, <1>2, Upwards
  <2> QED
    BY <2>1
<1>4. PICK f : f = [i \in 1 .. N |-> f[i]] /\ Right(f, N)
  BY <1>3
<1>5. \A i \in 1 .. N : f[i] = rule(f, i)
  <2>1. \A i \in 1 .. N : i > N - N
    OBVIOUS
  <2> HIDE DEF rule
  <2> QED
    BY <1>4, <2>1
<1>6. f = [i \in 1 .. N |-> rule(f, i)]
  <2> HIDE DEF rule
  <2> QED
    BY <1>4, <1>5
<1> QED
  BY <1>6, Zenon DEF Chains

-----------------------------------------------------------------------------
(* Characters.                                                             *)

\* The positions where a character of a pattern begins: a byte, or a backslash
\* and the byte it escapes.  The end of the pattern is one of them.
Reads(q, B) ==
    /\ B \subseteq 1 .. Len(q) + 1 /\ 1 \in B /\ Len(q) + 1 \in B
    /\ \A i \in 2 .. Len(q) + 1 : i \in B <=> ~(i - 1 \in B /\ q[i - 1] = Backslash)
Onwards(q, i) == i + IF q[i] = Backslash THEN 2 ELSE 1

\* Behind a character begins the next one, or the pattern ends.
LEMMA NextCharacter ==
    ASSUME NEW q \in Seq(Nat), NEW B, Reads(q, B), NEW i \in B, i # Len(q) + 1
    PROVE  /\ i \in 1 .. Len(q) /\ Onwards(q, i) \in B /\ i < Onwards(q, i) /\ Onwards(q, i) \in 1 .. Len(q) + 1
           /\ q[i] = Backslash => i + 1 \notin B /\ i + 1 \in 1 .. Len(q) /\ Onwards(q, i) = i + 2
           /\ q[i] # Backslash => Onwards(q, i) = i + 1
<1> DEFINE n == Len(q)
<1>1. n \in Nat /\ i \in 1 .. n
  BY DEF Reads
<1>2. CASE q[i] = Backslash
  <2>1. i + 1 \in 2 .. n + 1 /\ (i + 1) - 1 = i /\ (i + 2) - 1 = i + 1
    BY <1>1
  <2>2. i + 1 \notin B
    BY <1>2, <2>1 DEF Reads
  <2>3. i + 1 # n + 1
    BY <2>2 DEF Reads
  <2>4. i + 2 \in 2 .. n + 1
    BY <1>1, <2>3
  <2>5. i + 2 \in B
    BY <2>1, <2>2, <2>4 DEF Reads
  <2> QED
    BY <1>1, <1>2, <2>2, <2>4, <2>5 DEF Onwards
<1>3. CASE q[i] # Backslash
  <2>1. i + 1 \in 2 .. n + 1 /\ (i + 1) - 1 = i
    BY <1>1
  <2>2. i + 1 \in B
    BY <1>3, <2>1 DEF Reads
  <2> QED
    BY <1>1, <1>3, <2>2 DEF Onwards
<1> QED
  BY <1>2, <1>3

\* In front of a character another one ends.
LEMMA CharacterBefore ==
    ASSUME NEW q \in Seq(Nat), NEW B, Reads(q, B), NEW i \in B, i # 1
    PROVE  \E k \in B : k < i /\ Onwards(q, k) = i
<1> DEFINE n == Len(q)
<1>1. n \in Nat /\ i \in 2 .. n + 1
  BY DEF Reads
<1>2. CASE i - 1 \in B
  <2>1. q[i - 1] # Backslash
    BY <1>1, <1>2 DEF Reads
  <2> QED
    BY <1>1, <1>2, <2>1 DEF Onwards
<1>3. CASE i - 1 \notin B
  <2>1. i - 1 # 1
    BY <1>3 DEF Reads
  <2>2. i - 1 \in 2 .. n + 1 /\ (i - 1) - 1 = i - 2
    BY <1>1, <2>1
  <2>3. i - 2 \in B /\ q[i - 2] = Backslash
    BY <1>3, <2>2 DEF Reads
  <2> QED
    BY <1>1, <2>3 DEF Onwards
<1> QED
  BY <1>2, <1>3

\* What holds where a stretch of characters ends, and in front of a character
\* if it holds behind it, holds in front of all of them.
LEMMA CharactersDown ==
    ASSUME NEW q \in Seq(Nat), NEW B, Reads(q, B), NEW a \in B, NEW b \in B, NEW S, b \in S,
           \A i \in B : a <= i /\ i < b /\ Onwards(q, i) \in S => i \in S
    PROVE  \A i \in B : a <= i /\ i <= b => i \in S
<1> DEFINE T == {i \in Nat : i \in B => i \in S}
<1>1. Len(q) \in Nat /\ a \in Nat /\ b \in Nat /\ b <= Len(q) + 1
  BY DEF Reads
<1>2. ASSUME NEW i \in a .. b, i + 1 .. b \subseteq T PROVE i \in T
  <2>1. CASE i \in B /\ i < b
    <3>1. Onwards(q, i) \in B /\ i < Onwards(q, i) /\ Onwards(q, i) \in Nat /\ (Onwards(q, i) = i + 1 \/ (Onwards(q, i) = i + 2 /\ i + 1 \notin B))
      <4>1. i # Len(q) + 1 /\ i \in B
        BY <1>1, <2>1
      <4>2. Onwards(q, i) \in B /\ i < Onwards(q, i) /\ Onwards(q, i) \in 1 .. Len(q) + 1
        BY <4>1, NextCharacter
      <4>3. Onwards(q, i) = i + 1 \/ (Onwards(q, i) = i + 2 /\ i + 1 \notin B)
        BY <4>1, NextCharacter
      <4> QED
        BY <1>1, <4>2, <4>3
    <3>2. Onwards(q, i) \in i + 1 .. b
      BY <1>1, <2>1, <3>1
    <3>3. Onwards(q, i) \in S
      BY <1>2, <3>1, <3>2
    <3> QED
      BY <1>1, <2>1, <3>3
  <2>2. CASE i \notin B \/ i = b
    BY <1>1, <2>2
  <2> QED
    BY <1>1, <2>1, <2>2
<1>3. a .. b \subseteq T
  <2> HIDE DEF T
  <2> QED
    BY <1>1, <1>2, Downwards
<1>4. ASSUME NEW i \in B, a <= i, i <= b PROVE i \in S
  <2>1. i \in a .. b
    BY <1>1, <1>4 DEF Reads
  <2> QED
    BY <1>3, <2>1
<1> QED
  BY <1>4

\* The same forwards.
LEMMA CharactersUp ==
    ASSUME NEW q \in Seq(Nat), NEW B, Reads(q, B), NEW a \in B, NEW b \in B, NEW S, a \in S,
           \A i \in B : a <= i /\ i < b /\ i \in S => Onwards(q, i) \in S
    PROVE  \A i \in B : a <= i /\ i <= b => i \in S
<1> DEFINE T == {i \in Nat : \A k \in B : a <= k /\ k <= i /\ k <= b => k \in S}
<1>1. Len(q) \in Nat /\ a \in Nat /\ b \in Nat /\ B \subseteq Nat /\ 1 <= a
  BY DEF Reads
<1>2. a \in T
  BY <1>1
<1>3. ASSUME NEW i \in a + 1 .. b, i - 1 \in T PROVE i \in T
  <2>1. ASSUME i \in B PROVE i \in S
    <3>1. i # 1
      BY <1>1
    <3>2. PICK k \in B : k < i /\ Onwards(q, k) = i
      BY <2>1, <3>1, CharacterBefore
    <3>3. CASE k < a
      <4>1. k # Len(q) + 1 /\ k \in Nat
        BY <1>1, <3>3 DEF Reads
      <4>2. Onwards(q, k) = k + 1 \/ (Onwards(q, k) = k + 2 /\ k + 1 \notin B)
        BY <4>1, NextCharacter
      <4> QED
        BY <1>1, <1>3, <3>2, <3>3, <4>1, <4>2
    <3>4. CASE k >= a
      <4>1. k <= i - 1 /\ k <= b /\ k < b
        BY <1>1, <3>2, <3>4
      <4>2. k \in S
        BY <1>3, <3>4, <4>1
      <4> QED
        BY <3>2, <3>4, <4>1, <4>2
    <3> QED
      BY <1>1, <3>3, <3>4
  <2>2. ASSUME NEW k \in B, a <= k, k <= i, k <= b PROVE k \in S
    <3>1. CASE k = i
      BY <2>1, <3>1
    <3>2. CASE k # i
      <4>1. k <= i - 1
        BY <1>1, <2>2, <3>2
      <4> QED
        BY <1>3, <2>2, <4>1
    <3> QED
      BY <3>1, <3>2
  <2>3. i \in Nat
    BY <1>1
  <2> QED
    BY <2>2, <2>3
<1>4. a .. b \subseteq T
  <2> HIDE DEF T
  <2> QED
    BY <1>1, <1>2, <1>3, Upwards
<1>5. ASSUME NEW i \in B, a <= i, i <= b PROVE i \in S
  <2>1. b \in a .. b
    BY <1>1, <1>5
  <2>2. b \in T
    BY <1>4, <2>1
  <2> QED
    BY <1>5, <2>2
<1> QED
  BY <1>5

\* Which of the first N bytes, and the one behind them, are escaped.
Escapes(e, r, N) == e = [j \in 0 .. N |-> j > 1 /\ r[j - 1] = Backslash /\ ~e[j - 1]]
LEMMA EscapeFunction ==
    ASSUME NEW r, NEW N \in Nat
    PROVE  \E e : Escapes(e, r, N) /\ e \in [0 .. N -> BOOLEAN]
<1> DEFINE D == 0 .. N
           rank == [j \in D |-> j]
           stop == {0, 1}
           base == [j \in D |-> FALSE]
           step == [j \in D |-> [v \in BOOLEAN |-> r[j - 1] = Backslash /\ ~v]]
           next == [j \in D |-> j - 1]
           V == BOOLEAN
<1>1. rank \in [D -> 0 .. N] /\ \A j \in D : base[j] \in V
  OBVIOUS
<1>2. ASSUME NEW j \in D, j \notin stop
      PROVE  next[j] \in D /\ rank[next[j]] < rank[j] /\ step[j] \in [V -> V]
  <2>1. next[j] \in D /\ rank[next[j]] < rank[j]
    BY <1>2
  <2>2. step[j] = [v \in BOOLEAN |-> r[j - 1] = Backslash /\ ~v]
    OBVIOUS
  <2> QED
    BY <2>1, <2>2
<1>3. Descends(D, V, N, rank, stop, base, step, next)
  <2> HIDE DEF D, V, rank, stop, base, step, next
  <2> QED
    BY <1>1, <1>2 DEF Descends
<1>4. PICK e : Follows(e, D, V, stop, base, step, next)
  <2> HIDE DEF D, V, rank, stop, base, step, next
  <2> QED
    BY <1>3, RankedFunction
<1>5. e \in [D -> V] /\ \A j \in D : e[j] = IF j \in stop THEN base[j] ELSE step[j][e[next[j]]]
  BY <1>4 DEF Follows
<1>6. ASSUME NEW j \in D PROVE e[j] = (j > 1 /\ r[j - 1] = Backslash /\ ~e[j - 1])
  <2>1. CASE j \in stop
    <3>1. base[j] = FALSE /\ ~(j > 1)
      BY <2>1
    <3>2. e[j] = base[j]
      <4> HIDE DEF base, stop, step, next, D
      <4> QED
        BY <1>5, <2>1
    <3> QED
      BY <3>1, <3>2
  <2>2. CASE j \notin stop
    <3>1. j > 1 /\ next[j] = j - 1 /\ j - 1 \in D
      BY <2>2
    <3>2. e[j - 1] \in BOOLEAN
      BY <1>5, <3>1
    <3>3. step[j][e[j - 1]] = (r[j - 1] = Backslash /\ ~e[j - 1])
      <4>1. step[j] = [v \in BOOLEAN |-> r[j - 1] = Backslash /\ ~v]
        OBVIOUS
      <4> HIDE DEF step, D
      <4> QED
        BY <3>2, <4>1
    <3>4. e[j] = step[j][e[j - 1]]
      <4> HIDE DEF step, next
      <4> QED
        BY <1>5, <2>2, <3>1
    <3> QED
      BY <3>1, <3>3, <3>4
  <2> QED
    BY <2>1, <2>2
<1>7. e = [j \in D |-> j > 1 /\ r[j - 1] = Backslash /\ ~e[j - 1]]
  BY <1>5, <1>6
<1> QED
  BY <1>5, <1>7 DEF Escapes

\* SkipToUnescaped looks at the position, and at the one behind the character.
Walks(f, q, stop) ==
    f = [j \in 1 .. Len(q) + 2 |-> IF j > Len(q) \/ q[j] \in stop THEN j ELSE f[Onwards(q, j)]]
LEMMA SkipSteps ==
    ASSUME NEW q \in Seq(Nat), NEW stop
    PROVE  \E f : Walks(f, q, stop) /\ \A i : SkipToUnescaped(q, i, stop) = f[i]
<1> DEFINE n == Len(q)
           D == 1 .. n + 2
           halt == {j \in D : j > n \/ q[j] \in stop}
           rank == [j \in D |-> (n + 2) - j]
           base == [j \in D |-> j]
           step == [j \in D |-> [v \in D |-> v]]
           next == [j \in D |-> Onwards(q, j)]
<1>0. n \in Nat
  OBVIOUS
<1>1. rank \in [D -> 0 .. n + 2] /\ \A j \in D : base[j] \in D /\ step[j] \in [D -> D]
  BY <1>0
<1>2. ASSUME NEW j \in D, j \notin halt
      PROVE  next[j] \in D /\ rank[next[j]] < rank[j]
  BY <1>0, <1>2 DEF Onwards
<1>3. Descends(D, D, n + 2, rank, halt, base, step, next)
  <2>1. n + 2 \in Nat
    BY <1>0
  <2> HIDE DEF D, n, rank, halt, base, step, next
  <2> QED
    BY <1>1, <1>2, <2>1 DEF Descends
<1>4. PICK f : Follows(f, D, D, halt, base, step, next)
  <2> HIDE DEF D, n, rank, halt, base, step, next
  <2> QED
    BY <1>3, RankedFunction
<1>5. f \in [D -> D] /\ \A j \in D : f[j] = IF j \in halt THEN base[j] ELSE step[j][f[next[j]]]
  BY <1>4 DEF Follows
<1>6. ASSUME NEW j \in D PROVE f[j] = IF j > n \/ q[j] \in stop THEN j ELSE f[Onwards(q, j)]
  <2>1. CASE j \in halt
    BY <1>5, <2>1
  <2>2. CASE j \notin halt
    <3>1. next[j] \in D /\ next[j] = Onwards(q, j)
      BY <1>2, <2>2
    <3>2. step[j] = [v \in D |-> v] /\ f[next[j]] \in D
      BY <1>5, <3>1
    <3>3. step[j][f[next[j]]] = f[Onwards(q, j)]
      <4> HIDE DEF step, next, D
      <4> QED
        BY <3>1, <3>2
    <3>4. f[j] = step[j][f[next[j]]]
      <4> HIDE DEF step, next, D
      <4> QED
        BY <1>5, <2>2
    <3> QED
      BY <2>2, <3>3, <3>4
  <2> QED
    BY <2>1, <2>2
<1>7. Walks(f, q, stop)
  <2>1. f = [j \in D |-> IF j > n \/ q[j] \in stop THEN j ELSE f[Onwards(q, j)]]
    BY <1>5, <1>6
  <2> QED
    BY <2>1 DEF Walks
<1> DEFINE g == CHOOSE g : Walks(g, q, stop)
<1>8. Walks(g, q, stop)
  BY <1>7
<1>9. \A i : SkipToUnescaped(q, i, stop) = g[i]
  BY Zenon DEF SkipToUnescaped, Walks, Onwards
<1> HIDE DEF g
<1> QED
  BY <1>8, <1>9

\* What SkipToUnescaped finds when it starts at a character: the first one
\* from there on that the set has, or the end.
LEMMA Skips ==
    ASSUME NEW q \in Seq(Nat), NEW B, Reads(q, B), NEW stop, NEW i \in B
    PROVE  /\ SkipToUnescaped(q, i, stop) \in B /\ i <= SkipToUnescaped(q, i, stop)
           /\ SkipToUnescaped(q, i, stop) # Len(q) + 1 => q[SkipToUnescaped(q, i, stop)] \in stop
           /\ \A j \in B : i <= j /\ j < SkipToUnescaped(q, i, stop) => q[j] \notin stop
<1> DEFINE n == Len(q)
           Found(j, r) == /\ r \in B /\ j <= r
                          /\ r # n + 1 => q[r] \in stop
                          /\ \A k \in B : j <= k /\ k < r => q[k] \notin stop
<1>1. PICK f : Walks(f, q, stop) /\ \A j : SkipToUnescaped(q, j, stop) = f[j]
  BY SkipSteps
<1>2. n \in Nat /\ B \subseteq 1 .. n + 1 /\ n + 1 \in B /\ 1 \in B
  BY DEF Reads
<1>3. \A j \in 1 .. n + 2 : f[j] = IF j > n \/ q[j] \in stop THEN j ELSE f[Onwards(q, j)]
  BY <1>1 DEF Walks
<1> DEFINE S == {j \in B : Found(j, f[j])}
<1>4. n + 1 \in S
  BY <1>2, <1>3
<1>5. ASSUME NEW j \in B, i <= j /\ j < n + 1 /\ Onwards(q, j) \in S PROVE j \in S
  <2>1. CASE q[j] \in stop
    <3>1. f[j] = j
      BY <1>2, <1>3, <2>1
    <3> QED
      BY <1>2, <2>1, <3>1
  <2>2. CASE q[j] \notin stop
    <3> DEFINE o == Onwards(q, j)
    <3>1. f[j] = f[o]
      BY <1>2, <1>3, <1>5, <2>2
    <3>2. o \in B /\ Found(o, f[o])
      BY <1>5
    <3>3. j < o /\ (o = j + 1 \/ (o = j + 2 /\ j + 1 \notin B))
      BY <1>2, <1>5, NextCharacter
    <3> HIDE DEF o
    <3>4. \A k \in B : j <= k => k = j \/ o <= k
      BY <1>2, <3>2, <3>3
    <3>5. j <= f[j]
      <4>0. o \in B /\ f[o] \in B
        BY <3>2
      <4>1. j \in Nat /\ o \in Nat /\ f[o] \in Nat
        <5> HIDE DEF S, Found
        <5>1. B \subseteq Nat
          BY <1>2
        <5> QED
          BY <4>0, <5>1
      <4>2. o <= f[o]
        BY <3>2
      <4> QED
        BY <3>1, <3>3, <4>1, <4>2
    <3> QED
      BY <2>2, <3>1, <3>2, <3>4, <3>5
  <2> QED
    BY <2>1, <2>2
<1>6. i <= n + 1
  BY <1>2
<1>7. \A j \in B : i <= j /\ j <= n + 1 => j \in S
  <2> HIDE DEF S
  <2> QED
    BY <1>2, <1>4, <1>5, CharactersDown
<1>8. Found(i, f[i])
  BY <1>2, <1>6, <1>7
<1> QED
  BY <1>1, <1>8

\* A well-formed pattern consists of characters.
LEMMA WellFormedReads ==
    ASSUME NEW q \in Seq(Nat), WellFormedPattern(q), NEW e \in [0 .. Len(q) + 1 -> BOOLEAN],
           Escapes(e, q, Len(q) + 1)
    PROVE  Reads(q, {i \in 1 .. Len(q) + 1 : ~e[i]})
<1> DEFINE n == Len(q)
           B == {i \in 1 .. n + 1 : ~e[i]}
<1>0. n \in Nat
  OBVIOUS
<1>1. \A j \in 0 .. n + 1 : e[j] = (j > 1 /\ q[j - 1] = Backslash /\ ~e[j - 1])
  BY DEF Escapes
<1>2. 1 \in B
  BY <1>0, <1>1
<1>3. ASSUME NEW i \in 2 .. n + 1 PROVE i \in B <=> ~(i - 1 \in B /\ q[i - 1] = Backslash)
  <2>1. i \in 0 .. n + 1 /\ i > 1 /\ i \in 1 .. n + 1 /\ i - 1 \in 1 .. n + 1
    BY <1>0
  <2>2. e[i] <=> (q[i - 1] = Backslash /\ ~e[i - 1])
    BY <1>1, <2>1
  <2> QED
    BY <2>1, <2>2
<1>4. ASSUME n + 1 \notin B PROVE FALSE
  <2>1. e[n + 1] /\ n >= 1 /\ q[n] = Backslash /\ ~e[n]
    BY <1>0, <1>1, <1>4
  <2>2. PICK f : Walks(f, q, {}) /\ SkipToUnescaped(q, 1, {}) = f[1]
    BY SkipSteps
  <2>3. \A j \in 1 .. n + 2 : f[j] = IF j > n THEN j ELSE f[Onwards(q, j)]
    BY <2>2 DEF Walks
  <2> DEFINE T == {i \in Nat : \A k \in 1 .. i : ~e[k] => f[1] = f[k]}
  <2>4. 1 \in T
    OBVIOUS
  <2>5. ASSUME NEW i \in 1 + 1 .. n, i - 1 \in T PROVE i \in T
    <3>1. ASSUME ~e[i] PROVE f[1] = f[i]
      <4>1. CASE ~e[i - 1]
        <5>1. q[i - 1] # Backslash
          <6>1. i \in 0 .. n + 1 /\ i > 1
            BY <1>0
          <6>2. e[i] = (i > 1 /\ q[i - 1] = Backslash /\ ~e[i - 1])
            BY <1>1, <6>1
          <6> QED
            BY <3>1, <4>1, <6>1, <6>2
        <5>2. f[i - 1] = f[i]
          BY <1>0, <2>3, <5>1 DEF Onwards
        <5>3. f[1] = f[i - 1]
          BY <1>0, <2>5, <4>1
        <5> QED
          BY <5>2, <5>3
      <4>2. CASE e[i - 1]
        <5>1. i - 1 > 1 /\ q[(i - 1) - 1] = Backslash /\ ~e[(i - 1) - 1]
          <6>1. i - 1 \in 0 .. n + 1
            BY <1>0
          <6> QED
            BY <1>1, <4>2, <6>1
        <5>2. (i - 1) - 1 = i - 2 /\ i - 2 \in 1 .. n /\ i - 2 \in 1 .. i - 1
          BY <1>0, <5>1
        <5>3. f[i - 2] = f[i]
          BY <1>0, <2>3, <5>1, <5>2 DEF Onwards
        <5>4. f[1] = f[i - 2]
          BY <1>0, <2>5, <5>1, <5>2
        <5> QED
          BY <5>3, <5>4
      <4> QED
        BY <4>1, <4>2
    <3>2. \A k \in 1 .. i : k = i \/ k \in 1 .. i - 1
      BY <1>0
    <3>3. \A k \in 1 .. i - 1 : ~e[k] => f[1] = f[k]
      BY <2>5
    <3>4. \A k \in 1 .. i : ~e[k] => f[1] = f[k]
      BY <3>1, <3>2, <3>3
    <3>5. i \in Nat
      BY <1>0
    <3> QED
      BY <3>4, <3>5
  <2>6. n \in T
    <3>1. 1 .. n \subseteq T
      <4> HIDE DEF T
      <4> QED
        BY <1>0, <2>4, <2>5, Upwards
    <3> QED
      BY <1>0, <2>1, <3>1
  <2>7. f[1] = f[n]
    BY <1>0, <2>1, <2>6
  <2>8. f[n] = f[n + 2] /\ f[n + 2] = n + 2
    BY <1>0, <2>1, <2>3 DEF Onwards
  <2>9. f[1] = n + 1
    BY <2>2 DEF WellFormedPattern
  <2> QED
    BY <1>0, <2>7, <2>8, <2>9
<1> HIDE DEF B
<1>5. B \subseteq 1 .. n + 1
  BY DEF B
<1>6. Reads(q, B)
  BY <1>2, <1>3, <1>4, <1>5 DEF Reads
<1> QED
  BY <1>6 DEF B

\* A part of a pattern between two characters.
Shifted(B, a, b) == {i \in 1 .. (b - a) + 1 : i + (a - 1) \in B}
LEMMA PartReads ==
    ASSUME NEW q \in Seq(Nat), NEW B, Reads(q, B), NEW a \in B, NEW b \in B, a <= b
    PROVE  /\ Part(q, a, b) \in Seq(Nat) /\ Len(Part(q, a, b)) = b - a
           /\ \A i \in 1 .. b - a : Part(q, a, b)[i] = q[i + (a - 1)]
           /\ Reads(Part(q, a, b), Shifted(B, a, b))
<1> DEFINE n == Len(q)
           t == Part(q, a, b)
           C == Shifted(B, a, b)
<1>1. n \in Nat /\ a \in 1 .. n + 1 /\ b \in 1 .. n + 1
  BY DEF Reads
<1>2. t \in Seq(Nat) /\ Len(t) = b - a /\ \A i \in 1 .. b - a : t[i] = q[i + (a - 1)]
  <2>1. t = SubSeq(q, a, b - 1)
    BY DEF Part
  <2>2. SubSeq(q, a, b - 1) \in Seq(Nat)
    BY <1>1
  <2>3. Len(SubSeq(q, a, b - 1)) = b - a
    BY <1>1
  <2>4. ASSUME NEW i \in 1 .. b - a PROVE SubSeq(q, a, b - 1)[i] = q[i + (a - 1)]
    BY <1>1
  <2> QED
    BY <2>1, <2>2, <2>3, <2>4
<1>3. C \subseteq 1 .. (b - a) + 1 /\ 1 \in C /\ (b - a) + 1 \in C
  BY <1>1 DEF Shifted
<1>4. ASSUME NEW i \in 2 .. (b - a) + 1 PROVE i \in C <=> ~(i - 1 \in C /\ t[i - 1] = Backslash)
  <2>1. i + (a - 1) \in 2 .. n + 1 /\ (i + (a - 1)) - 1 = (i - 1) + (a - 1) /\ i - 1 \in 1 .. b - a
    BY <1>1
  <2>2. i + (a - 1) \in B <=> ~((i - 1) + (a - 1) \in B /\ q[(i - 1) + (a - 1)] = Backslash)
    BY <2>1 DEF Reads
  <2>3. t[i - 1] = q[(i - 1) + (a - 1)]
    BY <1>2, <2>1
  <2>4. i \in 1 .. (b - a) + 1 /\ i - 1 \in 1 .. (b - a) + 1
    BY <1>1
  <2> QED
    BY <2>2, <2>3, <2>4 DEF Shifted
<1> HIDE DEF t, C
<1>5. Reads(t, C)
  BY <1>2, <1>3, <1>4 DEF Reads
<1> QED
  BY <1>2, <1>5 DEF t, C

\* What SkipForward finds.
LEMMA SkipsForward ==
    ASSUME NEW q \in Seq(Nat), NEW i \in 1 .. Len(q) + 1, NEW S
    PROVE  /\ SkipForward(q, i, S) \in i .. Len(q) + 1
           /\ SkipForward(q, i, S) # Len(q) + 1 => q[SkipForward(q, i, S)] \notin S
           /\ \A j \in i .. SkipForward(q, i, S) - 1 : q[j] \in S
<1> DEFINE outside == {j \in i .. Len(q) : q[j] \notin S}
<1>1. Len(q) \in Nat
  OBVIOUS
<1>2. CASE outside = {}
  <2>1. SkipForward(q, i, S) = Len(q) + 1
    BY <1>2 DEF SkipForward
  <2> QED
    BY <1>1, <1>2, <2>1
<1>3. CASE outside # {}
  <2>1. outside \in SUBSET Nat
    BY <1>1
  <2>2. \E j \in outside : \A k \in outside : j <= k
    <3> HIDE DEF outside
    <3> QED
      BY <1>3, <2>1, LeastNat
  <2> DEFINE r == CHOOSE j \in outside : \A k \in outside : j <= k
  <2>3. r \in outside /\ \A k \in outside : r <= k
    <3> HIDE DEF outside
    <3> QED
      BY <2>2
  <2>4. SkipForward(q, i, S) = r
    BY <1>3 DEF SkipForward
  <2> HIDE DEF r
  <2>5. r \in i .. Len(q) /\ q[r] \notin S
    BY <2>3
  <2>6. ASSUME NEW j \in i .. r - 1 PROVE q[j] \in S
    BY <1>1, <2>3, <2>5
  <2> QED
    BY <1>1, <2>4, <2>5, <2>6
<1> QED
  BY <1>2, <1>3

-----------------------------------------------------------------------------
(* The literal bytes of a pattern.                                         *)

\* The byte that a character stands for, if it is no wildcard.
Literal(q, i) == IF q[i] = Backslash THEN q[i + 1] ELSE q[i]

\* Unescape puts the bytes of the characters together.
Unescapes(f, q, j) ==
    f = [k \in 1 .. Len(q) + 2 |->
            IF k > j THEN << >>
            ELSE IF q[k] = Backslash THEN <<q[k + 1]>> \o f[k + 2]
            ELSE <<q[k]>> \o f[k + 1]]
LEMMA UnescapeSteps ==
    ASSUME NEW q \in Seq(Nat), NEW B, Reads(q, B), NEW b \in B
    PROVE  /\ Unescape(q, b, b - 1) = << >>
           /\ \A k \in B : k < b =>
                 Unescape(q, k, b - 1) = <<Literal(q, k)>> \o Unescape(q, Onwards(q, k), b - 1)
<1> DEFINE n == Len(q)
           N == n + 2
           stop == {k \in 1 .. N : k > b - 1}
           front == [k \in 1 .. N |-> <<Literal(q, k)>>]
           next == [k \in 1 .. N |-> Onwards(q, k)]
<1>1. n \in Nat /\ b \in 1 .. n + 1 /\ B \subseteq 1 .. n + 1
  BY DEF Reads
<1>2. GoesOn(N, stop, next)
  <2>1. N \in Nat
    BY <1>1
  <2>2. \A k \in 1 .. N : k \notin stop => next[k] \in k + 1 .. N
    BY <1>1 DEF Onwards
  <2> HIDE DEF N, stop, next
  <2> QED
    BY <2>1, <2>2 DEF GoesOn
<1>3. PICK f : Chains(f, N, stop, front, next)
  <2> HIDE DEF N, stop, front, next
  <2> QED
    BY <1>2, ConcatFunction
<1>4. f = [k \in 1 .. N |-> IF k \in stop THEN << >> ELSE front[k] \o f[next[k]]]
  BY <1>3 DEF Chains
<1>5. ASSUME NEW k \in 1 .. N
      PROVE  f[k] = IF k > b - 1 THEN << >>
                    ELSE IF q[k] = Backslash THEN <<q[k + 1]>> \o f[k + 2]
                    ELSE <<q[k]>> \o f[k + 1]
  <2>1. front[k] = <<Literal(q, k)>> /\ next[k] = Onwards(q, k) /\ (k \in stop <=> k > b - 1)
    OBVIOUS
  <2> HIDE DEF front, next, stop
  <2>2. f[k] = IF k > b - 1 THEN << >> ELSE <<Literal(q, k)>> \o f[Onwards(q, k)]
    BY <1>4, <2>1, Zenon
  <2>3. CASE k > b - 1
    BY <2>2, <2>3
  <2>4. CASE ~(k > b - 1) /\ q[k] = Backslash
    <3>1. Literal(q, k) = q[k + 1] /\ Onwards(q, k) = k + 2
      BY <2>4 DEF Literal, Onwards
    <3> QED
      BY <2>2, <2>4, <3>1
  <2>5. CASE ~(k > b - 1) /\ q[k] # Backslash
    <3>1. Literal(q, k) = q[k] /\ Onwards(q, k) = k + 1
      BY <2>5 DEF Literal, Onwards
    <3> QED
      BY <2>2, <2>5, <3>1
  <2> QED
    BY <2>3, <2>4, <2>5
<1>6. Unescapes(f, q, b - 1)
  <2> HIDE DEF stop, front, next
  <2>1. f = [k \in 1 .. N |-> f[k]]
    BY <1>4
  <2>2. f = [k \in 1 .. N |-> IF k > b - 1 THEN << >>
                              ELSE IF q[k] = Backslash THEN <<q[k + 1]>> \o f[k + 2]
                              ELSE <<q[k]>> \o f[k + 1]]
    BY <1>5, <2>1, Zenon
  <2> QED
    BY <2>2 DEF Unescapes
<1> DEFINE g == CHOOSE g : Unescapes(g, q, b - 1)
<1>7. Unescapes(g, q, b - 1)
  BY <1>6
<1>8. \A i : Unescape(q, i, b - 1) = g[i]
  BY Zenon DEF Unescape, Unescapes
<1> HIDE DEF g
<1>9. \A k \in 1 .. N :
         g[k] = IF k > b - 1 THEN << >>
                ELSE IF q[k] = Backslash THEN <<q[k + 1]>> \o g[k + 2]
                ELSE <<q[k]>> \o g[k + 1]
  BY <1>7, Zenon DEF Unescapes
<1>10. g[b] = << >>
  <2>1. b \in 1 .. N /\ b > b - 1
    BY <1>1
  <2> QED
    BY <1>9, <2>1
<1>11. ASSUME NEW k \in B, k < b PROVE g[k] = <<Literal(q, k)>> \o g[Onwards(q, k)]
  <2>1. k \in 1 .. N /\ ~(k > b - 1)
    BY <1>1, <1>11
  <2>2. g[k] = IF q[k] = Backslash THEN <<q[k + 1]>> \o g[k + 2] ELSE <<q[k]>> \o g[k + 1]
    BY <1>9, <2>1
  <2> QED
    BY <2>2, Zenon DEF Literal, Onwards
<1> QED
  BY <1>8, <1>10, <1>11

\* Literals are bytes of the pattern.
LEMMA LiteralIsByte ==
    ASSUME NEW q \in Seq(Nat), NEW B, Reads(q, B), NEW k \in B, k # Len(q) + 1
    PROVE  Literal(q, k) \in Nat
<1>1. k \in 1 .. Len(q) /\ (q[k] = Backslash => k + 1 \in 1 .. Len(q))
  BY NextCharacter
<1>2. \A i \in 1 .. Len(q) : q[i] \in Nat
  OBVIOUS
<1> QED
  BY <1>1, <1>2 DEF Literal

\* What Unescape returns is a text, one byte for each character.
LEMMA UnescapeText ==
    ASSUME NEW q \in Seq(Nat), NEW B, Reads(q, B), NEW a \in B, NEW b \in B, a <= b
    PROVE  /\ Unescape(q, a, b - 1) \in Seq(Nat)
           /\ a < b => Len(Unescape(q, a, b - 1)) > 0
<1> DEFINE text(k) == Unescape(q, k, b - 1)
           S == {k \in B : text(k) \in Seq(Nat)}
<1>1. /\ text(b) = << >>
      /\ \A k \in B : k < b => text(k) = <<Literal(q, k)>> \o text(Onwards(q, k))
  BY UnescapeSteps
<1>2. b <= Len(q) + 1 /\ Len(q) \in Nat /\ B \subseteq Nat
  BY DEF Reads
<1> HIDE DEF text
<1>3. b \in S
  BY <1>1
<1>4. ASSUME NEW k \in B, a <= k /\ k < b /\ Onwards(q, k) \in S PROVE k \in S
  <2>1. Literal(q, k) \in Nat
    BY <1>2, <1>4, LiteralIsByte
  <2>2. text(k) = <<Literal(q, k)>> \o text(Onwards(q, k)) /\ text(Onwards(q, k)) \in Seq(Nat)
    BY <1>1, <1>4
  <2>3. text(k) \in Seq(Nat)
    BY <2>1, <2>2
  <2> QED
    BY <2>3
<1>5. \A k \in B : a <= k /\ k <= b => k \in S
  <2> HIDE DEF S
  <2> QED
    BY <1>3, <1>4, CharactersDown
<1>6. text(a) \in Seq(Nat)
  BY <1>2, <1>5
<1>7. ASSUME a < b PROVE Len(text(a)) > 0
  <2> DEFINE o == Onwards(q, a)
  <2>1. o \in B /\ (o = a + 1 \/ o = a + 2) /\ (q[a] = Backslash => a + 1 \notin B)
    BY <1>2, <1>7, NextCharacter
  <2>2. o <= b
    BY <1>2, <1>7, <2>1, NextCharacter DEF Onwards
  <2>3. a <= o /\ Literal(q, a) \in Nat
    BY <1>2, <1>7, <2>1, LiteralIsByte
  <2> HIDE DEF o
  <2>4. text(o) \in Seq(Nat)
    BY <1>5, <2>1, <2>2, <2>3
  <2>5. text(a) = <<Literal(q, a)>> \o text(o)
    BY <1>1, <1>7 DEF o
  <2> QED
    BY <2>3, <2>4, <2>5
<1> QED
  BY <1>6, <1>7 DEF text

\* It is the same whether it is read in the pattern or in a part of it.
LEMMA UnescapePart ==
    ASSUME NEW q \in Seq(Nat), NEW B, Reads(q, B), NEW a \in B, NEW b \in B, NEW c \in B, NEW d \in B,
           a <= c, c <= d, d <= b
    PROVE  Unescape(Part(q, a, b), c - (a - 1), (d - (a - 1)) - 1) = Unescape(q, c, d - 1)
<1> DEFINE t == Part(q, a, b)
           C == Shifted(B, a, b)
           to(i) == i - (a - 1)
           S == {k \in B : Unescape(t, to(k), to(d) - 1) = Unescape(q, k, d - 1)}
<1>0. B \subseteq 1 .. Len(q) + 1 /\ Len(q) \in Nat /\ a <= b
  BY DEF Reads
<1>1. t \in Seq(Nat) /\ Len(t) = b - a /\ Reads(t, C) /\ \A i \in 1 .. b - a : t[i] = q[i + (a - 1)]
  <2>1. a <= b
    BY <1>0
  <2> HIDE DEF to
  <2> QED
    BY <2>1, PartReads
<1>2. \A k \in B : a <= k /\ k <= b => to(k) \in C
  BY <1>0 DEF Shifted
<1>3. /\ Unescape(t, to(d), to(d) - 1) = << >>
      /\ \A k \in C : k < to(d) => Unescape(t, k, to(d) - 1) = <<Literal(t, k)>> \o Unescape(t, Onwards(t, k), to(d) - 1)
  <2>1. to(d) \in C
    BY <1>0, <1>2
  <2> HIDE DEF t, C, to
  <2> QED
    BY <1>1, <2>1, UnescapeSteps
<1>4. /\ Unescape(q, d, d - 1) = << >>
      /\ \A k \in B : k < d => Unescape(q, k, d - 1) = <<Literal(q, k)>> \o Unescape(q, Onwards(q, k), d - 1)
  BY UnescapeSteps
<1>5. d \in S
  BY <1>3, <1>4
<1>6. ASSUME NEW k \in B, c <= k /\ k < d /\ Onwards(q, k) \in S PROVE k \in S
  <2>1. k # Len(q) + 1 /\ to(k) \in 1 .. b - a /\ to(k) + (a - 1) = k /\ (to(k) + 1) + (a - 1) = k + 1
    BY <1>0, <1>6
  <2>2. t[to(k)] = q[k]
    BY <1>1, <2>1
  <2>3. q[k] = Backslash => k + 1 \notin B /\ Onwards(q, k) = k + 2
    BY <2>1, NextCharacter
  <2>4. q[k] = Backslash => to(k) + 1 \in 1 .. b - a
    BY <1>0, <1>6, <2>1, <2>3
  <2>5. q[k] = Backslash => t[to(k) + 1] = q[k + 1]
    BY <1>1, <2>1, <2>4
  <2>6. Literal(t, to(k)) = Literal(q, k)
    BY <2>2, <2>5 DEF Literal
  <2>7. Onwards(t, to(k)) = to(Onwards(q, k))
    BY <1>0, <2>2 DEF Onwards
  <2>8. to(k) \in C /\ to(k) < to(d)
    BY <1>0, <1>2, <1>6
  <2>9. Unescape(t, to(k), to(d) - 1) = <<Literal(q, k)>> \o Unescape(t, to(Onwards(q, k)), to(d) - 1)
    <3> HIDE DEF t, C, to
    <3> QED
      BY <1>3, <2>6, <2>7, <2>8
  <2>10. Unescape(t, to(Onwards(q, k)), to(d) - 1) = Unescape(q, Onwards(q, k), d - 1)
    BY <1>6
  <2>11. Unescape(q, k, d - 1) = <<Literal(q, k)>> \o Unescape(q, Onwards(q, k), d - 1)
    BY <1>4, <1>6
  <2> HIDE DEF t, C, to
  <2> QED
    BY <2>9, <2>10, <2>11
<1>7. \A k \in B : c <= k /\ k <= d => k \in S
  <2> HIDE DEF S
  <2> QED
    BY <1>5, <1>6, CharactersDown
<1>8. c <= c
  BY <1>0
<1> QED
  BY <1>7, <1>8

-----------------------------------------------------------------------------
(* One part of a pattern.                                                  *)

\* The pieces of CreatePattern.
FirstByte(q) == SkipForward(q, 1, Wildcards)
Trailing(q, i) == q[i] \in Wildcards /\ (i = 1 \/ q[i - 1] # Backslash)
IsLastByte(q, i) == ~Trailing(q, i) /\ \A j \in i + 1 .. Len(q) : Trailing(q, j)
LastByte(q) == CHOOSE i \in 1 .. Len(q) : IsLastByte(q, i)
Counted(q, i, j) == Cardinality({k \in i .. j : q[k] = Underscore}) % CountRange # 0
IsRead(f, q) == f = [j \in FirstByte(q) .. LastByte(q) |-> j = FirstByte(q) \/ ~(f[j - 1] /\ q[j - 1] = Backslash)]
ReadAt(q) == CHOOSE f : IsRead(f, q)
Inner(q) == {j \in FirstByte(q) .. LastByte(q) : ReadAt(q)[j] /\ q[j] = Underscore}
Run(q, i, j) == i .. j \subseteq Inner(q) /\ i - 1 \notin Inner(q) /\ j + 1 \notin Inner(q)
TextBegin(q) == CHOOSE i \in {j + 1 : j \in Inner(q)} \cup {FirstByte(q)} : \A j \in Inner(q) : i > j
LEMMA CreateIs ==
    ASSUME NEW q
    PROVE  CreatePattern(q) =
              CASE FirstByte(q) > Len(q) -> IF Counted(q, 1, Len(q)) THEN UnderscorePattern ELSE Null
                [] FirstByte(q) <= Len(q) /\ (\/ Counted(q, 1, FirstByte(q) - 1) \/ Counted(q, LastByte(q) + 1, Len(q))
                                              \/ \E i \in Inner(q), j \in Inner(q) \ {LastByte(q)} : Run(q, i, j) /\ Counted(q, i, j)) -> UnderscorePattern
                [] OTHER -> StringPattern(Unescape(q, TextBegin(q), LastByte(q)))
BY Zenon DEF CreatePattern, FirstByte, LastByte, IsLastByte, Trailing, Counted, Inner, Run, TextBegin, ReadAt, IsRead

\* No unescaped wildcard stands behind a backslash; and none is an underscore.
Clear(q, B) == \A i \in B : i # 1 /\ i # Len(q) + 1 /\ q[i] \in Wildcards => q[i - 1] # Backslash
Plain(q, B) == \A i \in B : i # Len(q) + 1 => q[i] # Underscore

\* The one underscore that createPattern loses: behind an escaped backslash,
\* and followed by percent signs up to the end of the part, if by anything.
Lost(q, u) == u > 1 /\ q[u - 1] = Backslash /\ (u = Len(q) \/ q[u + 1] = Percent)

\* A wildcard that the code takes for one is a character.
LEMMA TrailingBegins ==
    ASSUME NEW q \in Seq(Nat), NEW B, Reads(q, B), NEW i \in 1 .. Len(q), Trailing(q, i)
    PROVE  i \in B /\ q[i] \in Wildcards
<1>1. Len(q) \in Nat /\ 1 \in B
  BY DEF Reads
<1>2. CASE i = 1
  BY <1>1, <1>2 DEF Trailing
<1>3. CASE i # 1
  <2>1. i \in 2 .. Len(q) + 1
    BY <1>1, <1>3
  <2> QED
    BY <1>3, <2>1 DEF Trailing, Reads
<1> QED
  BY <1>2, <1>3

\* If none stands behind a backslash, the code sees from the byte in front
\* what is escaped.
LEMMA TrailingIs ==
    ASSUME NEW q \in Seq(Nat), NEW B, Reads(q, B), Clear(q, B), NEW i \in 1 .. Len(q)
    PROVE  Trailing(q, i) <=> i \in B /\ q[i] \in Wildcards
<1>1. Len(q) \in Nat /\ 1 \in B
  BY DEF Reads
<1>2. CASE i = 1
  BY <1>1, <1>2 DEF Trailing
<1>3. CASE i # 1
  <2>1. i \in 2 .. Len(q) + 1 /\ i # Len(q) + 1
    BY <1>1, <1>3
  <2>2. i \in B <=> ~(i - 1 \in B /\ q[i - 1] = Backslash)
    BY <2>1 DEF Reads
  <2>3. i \in B /\ q[i] \in Wildcards => q[i - 1] # Backslash
    BY <1>3, <2>1 DEF Clear
  <2> QED
    BY <1>3, <2>2, <2>3 DEF Trailing
<1> QED
  BY <1>2, <1>3

\* Wildcards at the beginning are characters.
LEMMA LeadingWildcards ==
    ASSUME NEW q \in Seq(Nat), NEW B, Reads(q, B), NEW g \in 1 .. Len(q) + 1,
           \A i \in 1 .. g - 1 : q[i] \in Wildcards
    PROVE  1 .. g \subseteq B
<1>1. Len(q) \in Nat /\ 1 \in B /\ g \in Nat
  BY DEF Reads
<1>2. ASSUME NEW i \in 1 + 1 .. g, i - 1 \in B PROVE i \in B
  <2>1. i - 1 \in 1 .. g - 1 /\ i \in 2 .. Len(q) + 1
    BY <1>1
  <2>2. q[i - 1] # Backslash
    BY <2>1 DEF Wildcards, Percent, Underscore, Backslash
  <2> QED
    BY <2>1, <2>2 DEF Reads
<1> QED
  BY <1>1, <1>2, Upwards

\* The bytes that are left when the wildcards at both ends are dropped.
LEMMA Trimmed ==
    ASSUME NEW q \in Seq(Nat), NEW B, Reads(q, B), FirstByte(q) # Len(q) + 1
    PROVE  /\ FirstByte(q) \in B /\ FirstByte(q) \in 1 .. Len(q) /\ q[FirstByte(q)] \notin Wildcards
           /\ \A i \in 1 .. FirstByte(q) - 1 : i \in B /\ q[i] \in Wildcards
           /\ LastByte(q) \in FirstByte(q) .. Len(q)
           /\ ~Trailing(q, LastByte(q))
           /\ \A i \in LastByte(q) + 1 .. Len(q) : i \in B /\ q[i] \in Wildcards
           /\ \A i \in 1 .. Len(q) : i \in Inner(q) <=> i \in FirstByte(q) .. LastByte(q) /\ i \in B /\ q[i] = Underscore
           /\ Inner(q) \subseteq 1 .. Len(q)
<1> DEFINE n == Len(q)
           g == FirstByte(q)
           l == LastByte(q)
<1>1. n \in Nat /\ 1 \in B /\ 1 \in 1 .. n + 1
  BY DEF Reads
<1>2. g \in 1 .. n /\ q[g] \notin Wildcards /\ \A i \in 1 .. g - 1 : q[i] \in Wildcards
  <2>1. /\ g \in 1 .. n + 1 /\ (g # n + 1 => q[g] \notin Wildcards)
        /\ \A i \in 1 .. g - 1 : q[i] \in Wildcards
    BY <1>1, SkipsForward DEF FirstByte
  <2> QED
    BY <1>1, <2>1
<1>3. 1 .. g \subseteq B
  BY <1>1, <1>2, LeadingWildcards
<1> HIDE DEF n, g, l
<1>4. \A i \in 1 .. n : Trailing(q, i) => i \in B /\ q[i] \in Wildcards
  BY TrailingBegins DEF n
<1>5. \E i \in 1 .. n : IsLastByte(q, i)
  <2> SUFFICES ASSUME ~ \E i \in 1 .. n : IsLastByte(q, i) PROVE FALSE
    OBVIOUS
  <2> DEFINE S == {i \in 1 .. n : Trailing(q, i)}
  <2>1. ASSUME NEW i \in 1 .. n, i + 1 .. n \subseteq S PROVE i \in S
    BY <2>1 DEF IsLastByte, n
  <2>2. 1 .. n \subseteq S
    <3> HIDE DEF S
    <3> QED
      BY <1>1, <2>1, Downwards
  <2> QED
    BY <1>2, <1>4, <2>2
<1>6. l \in 1 .. n /\ IsLastByte(q, l)
  BY <1>5 DEF l, LastByte, n
<1>7. l \in g .. n
  <2> SUFFICES ASSUME l < g PROVE FALSE
    BY <1>1, <1>2, <1>6
  <2>1. g \in l + 1 .. n
    BY <1>1, <1>2, <1>6
  <2> QED
    BY <1>2, <1>6, <2>1 DEF IsLastByte, Trailing, n
<1>8. \A i \in l + 1 .. n : i \in B /\ q[i] \in Wildcards
  BY <1>1, <1>4, <1>6 DEF IsLastByte, n
<1>9. ~Trailing(q, l)
  BY <1>6 DEF IsLastByte
<1> DEFINE f == ReadAt(q)
<1>10. IsRead(f, q)
  <2> DEFINE r == [j \in g .. l |-> IF j \in B THEN TRUE ELSE FALSE]
  <2>1. ASSUME NEW j \in g .. l PROVE r[j] = (j = g \/ ~(r[j - 1] /\ q[j - 1] = Backslash))
    <3>1. CASE j = g
      <4>1. j \in B
        BY <1>1, <1>2, <1>3, <3>1
      <4>2. r[j] = TRUE
        BY <4>1
      <4> HIDE DEF r
      <4> QED
        BY <3>1, <4>2
    <3>2. CASE j # g
      <4>1. j - 1 \in g .. l /\ j \in 2 .. Len(q) + 1
        BY <1>1, <1>2, <1>7, <3>2 DEF n
      <4>2. j \in B <=> ~(j - 1 \in B /\ q[j - 1] = Backslash)
        BY <4>1 DEF Reads
      <4>3. /\ r[j] = IF j \in B THEN TRUE ELSE FALSE
            /\ r[j - 1] = IF j - 1 \in B THEN TRUE ELSE FALSE
        BY <4>1
      <4> HIDE DEF r
      <4>4. CASE j \in B
        <5>1. ~(r[j - 1] /\ q[j - 1] = Backslash)
          BY <4>2, <4>3, <4>4
        <5>2. r[j] = TRUE
          BY <4>3, <4>4
        <5> QED
          BY <5>1, <5>2
      <4>5. CASE j \notin B
        <5>1. r[j - 1] /\ q[j - 1] = Backslash
          BY <4>2, <4>3, <4>5
        <5>2. r[j] = FALSE
          BY <4>3, <4>5
        <5> QED
          BY <3>2, <5>1, <5>2
      <4> QED
        BY <4>4, <4>5
    <3> QED
      BY <3>1, <3>2
  <2>2. r = [j \in g .. l |-> j = g \/ ~(r[j - 1] /\ q[j - 1] = Backslash)]
    BY <2>1
  <2> HIDE DEF r
  <2>3. IsRead(r, q)
    BY <2>2 DEF IsRead, g, l
  <2> QED
    BY <2>3, Zenon DEF ReadAt
<1> HIDE DEF f
<1>11. \A j \in g .. l : f[j] = (j = g \/ ~(f[j - 1] /\ q[j - 1] = Backslash))
  BY <1>10 DEF IsRead, g, l
<1>12. \A j \in g .. l : f[j] <=> j \in B
  <2> DEFINE S == {j \in Nat : f[j] <=> j \in B}
  <2>1. g \in S
    <3>1. g \in g .. l /\ g \in Nat /\ g \in B
      BY <1>1, <1>2, <1>3, <1>7
    <3>2. f[g] = (g = g \/ ~(f[g - 1] /\ q[g - 1] = Backslash))
      BY <1>11, <3>1
    <3>3. f[g]
      BY <3>2
    <3> QED
      BY <3>1, <3>3
  <2>2. ASSUME NEW j \in g + 1 .. l, j - 1 \in S PROVE j \in S
    <3>1. j \in 2 .. Len(q) + 1 /\ j \in g .. l /\ j # g
      BY <1>1, <1>2, <1>7 DEF n
    <3>2. j \in B <=> ~(j - 1 \in B /\ q[j - 1] = Backslash)
      BY <3>1 DEF Reads
    <3>3. f[j] = (j = g \/ ~(f[j - 1] /\ q[j - 1] = Backslash))
      BY <1>11, <3>1
    <3>4. f[j - 1] <=> j - 1 \in B
      BY <2>2
    <3>5. f[j] <=> j \in B
      BY <3>1, <3>2, <3>3, <3>4, Zenon
    <3>6. j \in Nat
      BY <1>1, <3>1
    <3> QED
      BY <3>5, <3>6
  <2>3. g .. l \subseteq S
    <3> HIDE DEF S
    <3> QED
      <4>1. g \in Nat /\ l \in Nat
        BY <1>1, <1>2, <1>7
      <4> QED
        BY <2>1, <2>2, <4>1, Upwards
  <2> QED
    BY <2>3
<1>13. Inner(q) = {j \in g .. l : f[j] /\ q[j] = Underscore}
  BY DEF Inner, f, g, l
<1>14. \A i \in 1 .. n : i \in Inner(q) <=> i \in g .. l /\ i \in B /\ q[i] = Underscore
  BY <1>12, <1>13
<1>15. Inner(q) \subseteq 1 .. n
  BY <1>1, <1>2, <1>7, <1>13
<1>16. \A i \in 1 .. g - 1 : i \in B /\ q[i] \in Wildcards
  BY <1>1, <1>2, <1>3
<1>17. g \in B
  BY <1>1, <1>2, <1>3
<1> QED
  BY <1>2, <1>7, <1>8, <1>9, <1>14, <1>15, <1>16, <1>17 DEF g, l, n

\* Where no underscore stands none is counted, and where less than 256 bytes
\* are, an underscore is not lost.
LEMMA NoneCounted ==
    ASSUME NEW q, NEW i \in Int, NEW j \in Int, \A k \in i .. j : q[k] # Underscore
    PROVE  ~Counted(q, i, j)
<1>1. {k \in i .. j : q[k] = Underscore} = {}
  OBVIOUS
<1>2. Cardinality({k \in i .. j : q[k] = Underscore}) = 0
  BY <1>1, FS_EmptySet
<1> QED
  BY <1>2 DEF Counted, CountRange
LEMMA SomeCounted ==
    ASSUME NEW q, NEW n \in Nat, n < CountRange, NEW i \in 1 .. n, NEW j \in 1 .. n,
           NEW k \in i .. j, q[k] = Underscore
    PROVE  Counted(q, i, j)
<1> DEFINE K == {m \in i .. j : q[m] = Underscore}
<1>1. IsFiniteSet(1 .. n) /\ Cardinality(1 .. n) = n
  <2>1. 1 \in Int /\ n \in Int /\ ~(1 > n) /\ (n - 1) + 1 = n
    OBVIOUS
  <2> QED
    BY <2>1, FS_Interval
<1>2. K \subseteq 1 .. n /\ k \in K
  OBVIOUS
<1> HIDE DEF K
<1>3. IsFiniteSet(K) /\ Cardinality(K) <= n
  BY <1>1, <1>2, FS_Subset
<1>4. Cardinality(K) \in Nat /\ Cardinality(K) # 0
  BY <1>2, <1>3, FS_CardinalityType, FS_EmptySet
<1>5. Cardinality(K) % CountRange # 0
  BY <1>3, <1>4 DEF CountRange
<1> QED
  BY <1>5 DEF K, Counted

\* A part that consists of percent signs is none.
LEMMA CreatesNull ==
    ASSUME NEW q \in Seq(Nat), \A i \in 1 .. Len(q) : q[i] = Percent
    PROVE  CreatePattern(q) = Null
<1>1. Len(q) \in Nat /\ 1 \in 1 .. Len(q) + 1
  OBVIOUS
<1>2. FirstByte(q) \in 1 .. Len(q) + 1 /\ (FirstByte(q) # Len(q) + 1 => q[FirstByte(q)] \notin Wildcards)
  BY <1>1, SkipsForward DEF FirstByte
<1>3. FirstByte(q) = Len(q) + 1
  BY <1>1, <1>2 DEF Wildcards
<1>4. ~Counted(q, 1, Len(q))
  BY <1>1, NoneCounted DEF Percent, Underscore
<1> QED
  BY <1>1, <1>3, <1>4, CreateIs

\* A part is the text between the percent signs at its ends.
LEMMA CreatesText ==
    ASSUME NEW q \in Seq(Nat), NEW B, Reads(q, B), Clear(q, B), Plain(q, B),
           NEW g \in B, NEW f \in B, g < f,
           \A i \in 1 .. g - 1 : q[i] = Percent,
           \A i \in B : g <= i /\ i < f => q[i] \notin Wildcards,
           \A i \in f .. Len(q) : q[i] = Percent
    PROVE  CreatePattern(q) = StringPattern(Unescape(q, g, f - 1))
<1> DEFINE n == Len(q)
<1>1. n \in Nat /\ B \subseteq 1 .. n + 1 /\ 1 \in 1 .. n + 1 /\ g \in 1 .. n /\ f \in 1 .. n + 1
  BY DEF Reads
<1>2. FirstByte(q) = g
  <2> DEFINE r == FirstByte(q)
  <2>1. r \in 1 .. n + 1 /\ (r # n + 1 => q[r] \notin Wildcards) /\ \A j \in 1 .. r - 1 : q[j] \in Wildcards
    BY <1>1, SkipsForward DEF FirstByte
  <2> HIDE DEF r
  <2>2. q[g] \notin Wildcards
    BY <1>1
  <2>3. ~(g < r)
    BY <1>1, <2>1, <2>2
  <2>4. ~(r < g)
    <3> SUFFICES ASSUME r < g PROVE FALSE
      OBVIOUS
    <3>1. r \in 1 .. g - 1 /\ r # n + 1
      BY <1>1, <2>1
    <3> QED
      BY <2>1, <3>1 DEF Wildcards
  <2>5. r = g
    BY <1>1, <2>1, <2>3, <2>4
  <2> QED
    BY <2>5 DEF r
<1> DEFINE l == LastByte(q)
<1>3. /\ l \in g .. n /\ ~(l \in B /\ q[l] \in Wildcards)
      /\ \A i \in l + 1 .. n : i \in B /\ q[i] \in Wildcards
      /\ \A i \in 1 .. n : i \in Inner(q) <=> i \in g .. l /\ i \in B /\ q[i] = Underscore
      /\ Inner(q) \subseteq 1 .. n
  <2>1. FirstByte(q) # Len(q) + 1
    BY <1>1, <1>2
  <2>2. /\ l \in g .. n /\ ~Trailing(q, l)
        /\ \A i \in l + 1 .. n : i \in B /\ q[i] \in Wildcards
        /\ \A i \in 1 .. n : i \in Inner(q) <=> i \in g .. l /\ i \in B /\ q[i] = Underscore
        /\ Inner(q) \subseteq 1 .. n
    BY <1>2, <2>1, Trimmed
  <2> HIDE DEF l
  <2>3. l \in 1 .. n
    BY <1>1, <2>2
  <2>4. ~(l \in B /\ q[l] \in Wildcards)
    BY <2>2, <2>3, TrailingIs DEF n
  <2> QED
    BY <2>2, <2>4
<1> HIDE DEF l
<1>4. l = f - 1
  <2>1. ~(l + 1 < f)
    <3> SUFFICES ASSUME l + 1 < f PROVE FALSE
      OBVIOUS
    <3>1. l + 1 \in l + 1 .. n
      BY <1>1, <1>3
    <3>2. l + 1 \in B /\ q[l + 1] \in Wildcards
      BY <1>3, <3>1
    <3>3. g <= l + 1
      BY <1>1, <1>3
    <3> QED
      BY <3>2, <3>3
  <2>2. ~(l >= f)
    <3> SUFFICES ASSUME l >= f PROVE FALSE
      OBVIOUS
    <3>1. l \in f .. n
      BY <1>1, <1>3
    <3>2. q[l] = Percent
      BY <3>1
    <3>3. l \in B
      <4> DEFINE T == {i \in Nat : i \in B}
      <4>1. f \in T
        BY <1>1
      <4>2. ASSUME NEW i \in f + 1 .. n, i - 1 \in T PROVE i \in T
        <5>1. i \in 2 .. n + 1 /\ i - 1 \in f .. n
          BY <1>1
        <5>2. q[i - 1] = Percent
          BY <5>1
        <5>3. i \in B
          BY <5>1, <5>2 DEF Reads, Percent, Backslash
        <5> QED
          BY <5>1, <5>3
      <4>3. f .. n \subseteq T
        <5>1. f \in Nat /\ n \in Nat
          BY <1>1
        <5> HIDE DEF T, n
        <5> QED
          BY <4>1, <4>2, <5>1, Upwards
      <4> QED
        BY <3>1, <4>3
    <3> QED
      BY <1>3, <3>2, <3>3 DEF Wildcards
  <2> QED
    BY <1>1, <1>3, <2>1, <2>2
<1>5. Inner(q) = {}
  <2>1. \A i \in 1 .. n : i \in B => q[i] # Underscore
    BY <1>1 DEF Plain
  <2> QED
    BY <1>3, <2>1
<1>6. ~Counted(q, 1, g - 1)
  <2>1. 1 \in Int /\ g - 1 \in Int /\ \A i \in 1 .. g - 1 : q[i] # Underscore
    BY <1>1 DEF Percent, Underscore
  <2> QED
    BY <2>1, NoneCounted
<1>7. ~Counted(q, l + 1, n)
  <2>1. \A i \in l + 1 .. n : q[i] = Percent
    BY <1>1, <1>4
  <2>2. l + 1 \in Int /\ n \in Int
    BY <1>1, <1>3
  <2> QED
    BY <2>1, <2>2, NoneCounted DEF Percent, Underscore
<1>8. TextBegin(q) = g
  BY <1>2, <1>5 DEF TextBegin
<1>9. CreatePattern(q) = StringPattern(Unescape(q, g, l))
  <2>1. ~(g > n) /\ g <= n
    BY <1>1
  <2> QED
    BY <1>2, <1>5, <1>6, <1>7, <1>8, <2>1, CreateIs DEF l
<1> QED
  BY <1>4, <1>9

\* A part with an underscore that is not escaped is refused, unless it is the
\* one that is lost.
LEMMA CreatesUnderscore ==
    ASSUME NEW q \in Seq(Nat), NEW B, Reads(q, B), Len(q) < CountRange,
           NEW u \in B, u # Len(q) + 1, q[u] = Underscore, ~Lost(q, u)
    PROVE  CreatePattern(q) = UnderscorePattern
<1> DEFINE n == Len(q)
<1>1. n \in Nat /\ u \in 1 .. n
  BY DEF Reads
<1>2. CASE FirstByte(q) > n
  <2>1. u \in 1 .. n /\ 1 \in 1 .. n /\ n \in 1 .. n
    BY <1>1
  <2>2. Counted(q, 1, n)
    BY <1>1, <2>1, SomeCounted
  <2> QED
    BY <1>2, <2>2, CreateIs
<1>3. CASE ~(FirstByte(q) > n)
  <2> DEFINE g == FirstByte(q)
             l == LastByte(q)
  <2>1. g \in 1 .. n + 1
    <3>1. 1 \in 1 .. n + 1
      BY <1>1
    <3> QED
      BY <3>1, SkipsForward DEF FirstByte
  <2>2. g # n + 1
    BY <1>1, <1>3, <2>1
  <2>3. /\ g \in 1 .. n /\ l \in g .. n /\ ~Trailing(q, l)
        /\ \A i \in l + 1 .. n : q[i] \in Wildcards
        /\ \A i \in 1 .. n : i \in Inner(q) <=> i \in g .. l /\ i \in B /\ q[i] = Underscore
        /\ Inner(q) \subseteq 1 .. n
    BY <2>2, Trimmed
  <2> HIDE DEF g, l
  <2>4. CASE u < g
    <3>1. u \in 1 .. g - 1 /\ g - 1 \in 1 .. n /\ 1 \in 1 .. n
      BY <1>1, <2>3, <2>4
    <3>2. Counted(q, 1, g - 1)
      BY <1>1, <3>1, SomeCounted
    <3> QED
      BY <1>3, <3>2, <2>3, CreateIs DEF g
  <2>5. CASE l < u
    <3>1. u \in l + 1 .. n /\ l + 1 \in 1 .. n /\ n \in 1 .. n
      BY <1>1, <2>3, <2>5
    <3>2. Counted(q, l + 1, n)
      BY <1>1, <3>1, SomeCounted
    <3> QED
      BY <1>3, <3>2, <2>3, CreateIs DEF g, l
  <2>6. CASE g <= u /\ u <= l
    <3>1. u \in Inner(q)
      BY <1>1, <2>3, <2>6
    <3>2. PICK i \in 1 .. n : i <= u /\ i .. u \subseteq Inner(q) /\ i - 1 \notin Inner(q)
      <4> DEFINE T == {i \in 1 .. n : i <= u /\ i .. u \subseteq Inner(q)}
      <4>1. u \in T
        BY <1>1, <3>1
      <4>2. PICK i \in T : \A k \in T : i <= k
        <5>1. T \in SUBSET Nat
          BY <1>1
        <5> HIDE DEF T
        <5> QED
          BY <4>1, <5>1, LeastNat
      <4>3. ASSUME i - 1 \in Inner(q) PROVE FALSE
        <5>1. i - 1 \in 1 .. n
          BY <2>3, <4>3
        <5>2. \A k \in i - 1 .. u : k = i - 1 \/ k \in i .. u
          BY <1>1, <5>1
        <5>3. i - 1 \in T
          BY <1>1, <4>2, <4>3, <5>1, <5>2
        <5> QED
          BY <1>1, <4>2, <5>3
      <4> QED
        BY <4>2, <4>3
    <3>3. PICK j \in 1 .. n : u <= j /\ u .. j \subseteq Inner(q) /\ j + 1 \notin Inner(q)
      <4> DEFINE T == {d \in 0 .. n : n - d \in 1 .. n /\ u <= n - d /\ u .. n - d \subseteq Inner(q)}
      <4>1. n - u \in T
        <5>1. n - u \in 0 .. n /\ n - (n - u) = u
          BY <1>1
        <5>2. u .. u \subseteq Inner(q)
          BY <1>1, <3>1
        <5> QED
          BY <1>1, <5>1, <5>2
      <4>2. PICK d \in T : \A k \in T : d <= k
        <5>1. T \in SUBSET Nat
          BY <1>1
        <5> HIDE DEF T
        <5> QED
          BY <4>1, <5>1, LeastNat
      <4> DEFINE j == n - d
      <4>3. j \in 1 .. n /\ u <= j /\ u .. j \subseteq Inner(q)
        BY <4>2
      <4>4. ASSUME j + 1 \in Inner(q) PROVE FALSE
        <5>1. j + 1 \in 1 .. n
          BY <2>3, <4>4
        <5>2. \A k \in u .. j + 1 : k = j + 1 \/ k \in u .. j
          <6>1. j \in Int /\ u \in Int
            BY <1>1, <4>3
          <6> HIDE DEF j
          <6> QED
            BY <6>1
        <5>3. d - 1 \in 0 .. n /\ n - (d - 1) = j + 1
          BY <1>1, <4>2, <5>1
        <5>4. u .. j + 1 \subseteq Inner(q)
          BY <4>3, <4>4, <5>2
        <5>5. u <= j + 1
          BY <1>1, <4>3
        <5>6. d - 1 \in T
          <6> HIDE DEF j
          <6> QED
            BY <5>1, <5>3, <5>4, <5>5
        <5>7. d \in Nat
          BY <4>2
        <5>8. d <= d - 1
          <6> HIDE DEF T
          <6> QED
            BY <4>2, <5>6
        <5> QED
          BY <5>7, <5>8
      <4> QED
        BY <4>3, <4>4
    <3>4. i .. j \subseteq Inner(q)
      <4>1. \A k \in i .. j : k \in i .. u \/ k \in u .. j
        BY <1>1, <3>2, <3>3
      <4> QED
        BY <3>2, <3>3, <4>1
    <3>5. Run(q, i, j)
      BY <3>2, <3>3, <3>4 DEF Run
    <3>6. u \in i .. j /\ i \in Inner(q) /\ j \in Inner(q)
      BY <1>1, <3>2, <3>3, <3>4
    <3>7. Counted(q, i, j)
      BY <1>1, <3>6, SomeCounted
    <3>8. CASE j # l
      <4>1. j \in Inner(q) \ {LastByte(q)}
        BY <3>6, <3>8 DEF l
      <4> QED
        BY <1>3, <2>3, <3>5, <3>6, <3>7, <4>1, CreateIs DEF g
    <3>9. CASE j = l
      <4>1. l \in Inner(q) /\ l \in 1 .. n
        BY <3>6, <3>9
      <4>2. q[l] = Underscore
        BY <2>3, <4>1
      <4>3. l # 1 /\ q[l - 1] = Backslash
        BY <2>3, <4>2 DEF Trailing, Wildcards
      <4>4. u = l
        <5> SUFFICES ASSUME u < l PROVE FALSE
          BY <1>1, <2>6, <4>1
        <5>1. l - 1 \in u .. j /\ l - 1 \in 1 .. n
          BY <1>1, <3>9, <4>1
        <5>2. l - 1 \in Inner(q)
          BY <3>3, <5>1
        <5>3. q[l - 1] = Underscore
          BY <2>3, <5>1, <5>2
        <5> QED
          BY <4>3, <5>3 DEF Underscore, Backslash
      <4>5. u # n /\ q[u + 1] # Percent
        BY <1>1, <4>3, <4>4 DEF Lost
      <4>6. u + 1 \in l + 1 .. n /\ l + 1 \in 1 .. n /\ n \in 1 .. n
        BY <1>1, <4>4, <4>5
      <4>7. q[u + 1] = Underscore
        BY <2>3, <4>5, <4>6 DEF Wildcards
      <4>8. Counted(q, l + 1, n)
        BY <1>1, <4>6, <4>7, SomeCounted
      <4> QED
        BY <1>3, <2>3, <4>8, CreateIs DEF g, l
    <3> QED
      BY <3>8, <3>9
  <2>7. u < g \/ l < u \/ (g <= u /\ u <= l)
    BY <1>1, <2>3
  <2> QED
    BY <2>4, <2>5, <2>6, <2>7
<1> QED
  BY <1>2, <1>3

-----------------------------------------------------------------------------
(* What LIKE means, character by character.                                *)

\* A table with a row of truth values for each position of a pattern.
Row(t) == [1 .. Len(t) + 1 -> BOOLEAN]
LikeRow(q, t, M, i) ==
    [j \in 1 .. Len(t) + 1 |->
        CASE i > Len(q) -> j > Len(t)
          [] i <= Len(q) /\ q[i] = Percent -> \E k \in j .. Len(t) + 1 : M[i + 1][k]
          [] i <= Len(q) /\ q[i] = Underscore -> j <= Len(t) /\ M[i + 1][j + 1]
          [] i <= Len(q) /\ q[i] = Backslash -> j <= Len(t) /\ q[i + 1] = t[j] /\ M[i + 2][j + 1]
          [] OTHER -> j <= Len(t) /\ q[i] = t[j] /\ M[i + 1][j + 1]]
IsLikeTable(M, q, t) == M = [i \in 1 .. Len(q) + 2 |-> LikeRow(q, t, M, i)]

\* How a row is made of the row of the next character.
RowBefore(q, t, i, row) ==
    [j \in 1 .. Len(t) + 1 |->
        CASE q[i] = Percent -> \E k \in j .. Len(t) + 1 : row[k]
          [] q[i] = Underscore -> j <= Len(t) /\ row[j + 1]
          [] OTHER -> j <= Len(t) /\ Literal(q, i) = t[j] /\ row[j + 1]]
LastRow(t) == [j \in 1 .. Len(t) + 1 |-> j > Len(t)]
LEMMA RowsAreRows ==
    ASSUME NEW q, NEW t, NEW i, NEW row \in Row(t), Len(t) \in Nat
    PROVE  RowBefore(q, t, i, row) \in Row(t) /\ LastRow(t) \in Row(t)
<1>1. \A j \in 1 .. Len(t) + 1 : j <= Len(t) => j + 1 \in 1 .. Len(t) + 1
  OBVIOUS
<1>2. ASSUME NEW j \in 1 .. Len(t) + 1
      PROVE  (CASE q[i] = Percent -> \E k \in j .. Len(t) + 1 : row[k]
                [] q[i] = Underscore -> j <= Len(t) /\ row[j + 1]
                [] OTHER -> j <= Len(t) /\ Literal(q, i) = t[j] /\ row[j + 1]) \in BOOLEAN
  <2>1. CASE q[i] = Percent
    BY <2>1
  <2>2. CASE q[i] = Underscore
    BY <2>2 DEF Percent, Underscore
  <2>3. CASE q[i] # Percent /\ q[i] # Underscore
    BY <2>3
  <2> QED
    BY <2>1, <2>2, <2>3
<1>3. RowBefore(q, t, i, row) \in Row(t)
  BY <1>2 DEF RowBefore, Row
<1>4. LastRow(t) \in Row(t)
  BY DEF LastRow, Row
<1> QED
  BY <1>3, <1>4

\* The table of LIKE has such rows.
IsTable(M, q, t) ==
    /\ M \in [1 .. Len(q) + 2 -> Row(t)]
    /\ \A i \in 1 .. Len(q) + 2 :
          M[i] = IF i > Len(q) THEN LastRow(t) ELSE RowBefore(q, t, i, M[Onwards(q, i)])
LEMMA LikeRowIs ==
    ASSUME NEW q, NEW t, NEW M, NEW i \in Nat, Len(q) \in Nat
    PROVE  LikeRow(q, t, M, i) = IF i > Len(q) THEN LastRow(t) ELSE RowBefore(q, t, i, M[Onwards(q, i)])
<1>1. CASE i > Len(q)
  <2>1. ~(i <= Len(q))
    BY <1>1
  <2> QED
    BY <1>1, <2>1, Zenon DEF LikeRow, LastRow
<1>2. CASE ~(i > Len(q))
  <2>0. i <= Len(q)
    BY <1>2
  <2>1. CASE q[i] = Percent
    <3>1. Onwards(q, i) = i + 1
      BY <2>1 DEF Onwards, Percent, Backslash
    <3> QED
      BY <1>2, <2>0, <2>1, <3>1 DEF LikeRow, RowBefore, Percent, Underscore, Backslash
  <2>2. CASE q[i] = Underscore
    <3>1. Onwards(q, i) = i + 1
      BY <2>2 DEF Onwards, Underscore, Backslash
    <3> QED
      BY <1>2, <2>0, <2>2, <3>1 DEF LikeRow, RowBefore, Percent, Underscore, Backslash
  <2>3. CASE q[i] = Backslash
    <3>1. Onwards(q, i) = i + 2 /\ Literal(q, i) = q[i + 1]
      BY <2>3 DEF Onwards, Literal
    <3> QED
      BY <1>2, <2>0, <2>3, <3>1 DEF LikeRow, RowBefore, Percent, Underscore, Backslash
  <2>4. CASE q[i] \notin {Percent, Underscore, Backslash}
    <3>1. Onwards(q, i) = i + 1 /\ Literal(q, i) = q[i]
      BY <2>4 DEF Onwards, Literal
    <3> QED
      BY <1>2, <2>0, <2>4, <3>1 DEF LikeRow, RowBefore, Percent, Underscore, Backslash
  <2> QED
    BY <2>1, <2>2, <2>3, <2>4
<1> QED
  BY <1>1, <1>2

LEMMA LikeSteps ==
    ASSUME NEW q \in Seq(Nat), NEW t \in Seq(Nat)
    PROVE  \E M : IsTable(M, q, t) /\ Like(q, t) = M[1][1]
<1> DEFINE n == Len(q)
           D == 1 .. n + 2
           V == Row(t)
           rank == [i \in D |-> (n + 2) - i]
           stop == {i \in D : i > n}
           base == [i \in D |-> LastRow(t)]
           step == [i \in D |-> [row \in V |-> RowBefore(q, t, i, row)]]
           next == [i \in D |-> Onwards(q, i)]
<1>0. n \in Nat /\ Len(t) \in Nat
  OBVIOUS
<1>1. n + 2 \in Nat /\ rank \in [D -> 0 .. n + 2]
  BY <1>0
<1>2. LastRow(t) \in V /\ \A i : \A row \in V : RowBefore(q, t, i, row) \in V
  <2>1. LastRow(t) \in V
    BY <1>0 DEF LastRow, Row
  <2> QED
    BY <1>0, <2>1, RowsAreRows
<1>3. ASSUME NEW i \in D, i \notin stop PROVE next[i] \in D /\ rank[next[i]] < rank[i]
  BY <1>0, <1>3 DEF Onwards
<1>4. ASSUME NEW i \in D PROVE base[i] \in V /\ step[i] \in [V -> V]
  <2>1. base[i] = LastRow(t) /\ step[i] = [row \in V |-> RowBefore(q, t, i, row)]
    OBVIOUS
  <2> HIDE DEF V, base, step
  <2> QED
    BY <1>2, <2>1
<1>5. Descends(D, V, n + 2, rank, stop, base, step, next)
  <2> HIDE DEF n, D, V, rank, stop, base, step, next
  <2> QED
    BY <1>1, <1>3, <1>4 DEF Descends
<1>6. PICK M : Follows(M, D, V, stop, base, step, next)
  <2> HIDE DEF n, D, V, rank, stop, base, step, next
  <2> QED
    BY <1>5, RankedFunction
<1>7. M \in [D -> V] /\ \A i \in D : M[i] = IF i \in stop THEN base[i] ELSE step[i][M[next[i]]]
  BY <1>6 DEF Follows
<1>8. ASSUME NEW i \in D
      PROVE  M[i] = IF i > n THEN LastRow(t) ELSE RowBefore(q, t, i, M[Onwards(q, i)])
  <2>1. (i \in stop <=> i > n) /\ base[i] = LastRow(t) /\ next[i] = Onwards(q, i)
        /\ step[i] = [row \in V |-> RowBefore(q, t, i, row)]
    OBVIOUS
  <2>2. ASSUME ~(i > n) PROVE step[i][M[next[i]]] = RowBefore(q, t, i, M[Onwards(q, i)])
    <3>1. next[i] \in D
      BY <1>3, <2>2
    <3>2. M[Onwards(q, i)] \in V
      <4> HIDE DEF D, V, next
      <4> QED
        BY <1>7, <2>1, <3>1
    <3> HIDE DEF D, V, next, step
    <3> QED
      BY <2>1, <3>2
  <2>3. M[i] = IF i \in stop THEN base[i] ELSE step[i][M[next[i]]]
    <3> HIDE DEF D, V, next, step, base, stop
    <3> QED
      BY <1>7
  <2> HIDE DEF D, V, next, step, base, stop
  <2> QED
    BY <2>1, <2>2, <2>3
<1>9. IsLikeTable(M, q, t)
  <2>1. ASSUME NEW i \in D PROVE M[i] = LikeRow(q, t, M, i)
    <3>1. i \in Nat
      BY <1>0
    <3> QED
      BY <1>0, <1>8, <3>1, LikeRowIs
  <2> HIDE DEF V
  <2>2. M = [i \in D |-> LikeRow(q, t, M, i)]
    BY <1>7, <2>1, Zenon
  <2> QED
    BY <2>2 DEF IsLikeTable
<1> DEFINE G == CHOOSE G : IsLikeTable(G, q, t)
<1>10. IsLikeTable(G, q, t)
  BY <1>9
<1>11. Like(q, t) = G[1][1]
  BY Zenon DEF Like, IsLikeTable, LikeRow
<1> HIDE DEF G
<1>12. G = [i \in D |-> LikeRow(q, t, G, i)]
  BY <1>10 DEF IsLikeTable
<1>13. ASSUME NEW i \in D
       PROVE  G[i] = IF i > n THEN LastRow(t) ELSE RowBefore(q, t, i, G[Onwards(q, i)])
  <2>1. G[i] = LikeRow(q, t, G, i) /\ i \in Nat
    <3>1. i \in Nat
      BY <1>0
    <3> HIDE DEF D
    <3> QED
      BY <1>12, <3>1, Zenon
  <2> QED
    BY <1>0, <2>1, LikeRowIs
<1>14. \A i \in D : G[i] \in V
  <2> DEFINE S == {i \in Nat : G[i] \in V}
  <2>1. ASSUME NEW i \in 1 .. n + 2, i + 1 .. n + 2 \subseteq S PROVE i \in S
    <3>1. CASE i > n
      <4>1. G[i] = LastRow(t) /\ i \in Nat
        BY <1>0, <1>13, <3>1
      <4> HIDE DEF V
      <4> QED
        BY <1>2, <4>1
    <3>2. CASE ~(i > n)
      <4>1. Onwards(q, i) \in i + 1 .. n + 2
        BY <1>0, <3>2 DEF Onwards
      <4>2. G[Onwards(q, i)] \in V
        BY <2>1, <4>1
      <4>3. G[i] = RowBefore(q, t, i, G[Onwards(q, i)]) /\ i \in Nat
        BY <1>0, <1>13, <3>2
      <4> HIDE DEF V
      <4> QED
        BY <1>2, <4>2, <4>3
    <3> QED
      BY <3>1, <3>2
  <2>2. 1 .. n + 2 \subseteq S
    <3> DEFINE N == n + 2
    <3>1. 1 \in Nat /\ N \in Nat
      BY <1>0
    <3>2. \A i \in 1 .. N : i + 1 .. N \subseteq S => i \in S
      BY <2>1
    <3> HIDE DEF S, N
    <3>3. 1 .. N \subseteq S
      BY <3>1, <3>2, Downwards
    <3> QED
      BY <3>3 DEF N
  <2> QED
    BY <2>2
<1>15. G \in [D -> V]
  <2>1. G = [i \in D |-> G[i]]
    BY <1>12
  <2> HIDE DEF D, V
  <2> QED
    BY <1>14, <2>1
<1>16. IsTable(G, q, t)
  BY <1>13, <1>15 DEF IsTable
<1> QED
  BY <1>11, <1>16

\* The cells of the table.
LEMMA TableCells ==
    ASSUME NEW q \in Seq(Nat), NEW t \in Seq(Nat), NEW M, IsTable(M, q, t),
           NEW j \in 1 .. Len(t) + 1
    PROVE  /\ M[Len(q) + 1][j] <=> j > Len(t)
           /\ \A i \in 1 .. Len(q) :
                 /\ q[i] = Percent => (M[i][j] <=> \E k \in j .. Len(t) + 1 : M[i + 1][k])
                 /\ q[i] = Underscore => (M[i][j] <=> j <= Len(t) /\ M[i + 1][j + 1])
                 /\ q[i] \notin Wildcards => (M[i][j] <=> j <= Len(t) /\ Literal(q, i) = t[j] /\ M[Onwards(q, i)][j + 1])
           /\ \A i \in 1 .. Len(q) + 2 : M[i][j] \in BOOLEAN
<1>1. Len(q) \in Nat /\ Len(t) \in Nat
  OBVIOUS
<1>2. \A i \in 1 .. Len(q) + 2 : M[i] = IF i > Len(q) THEN LastRow(t) ELSE RowBefore(q, t, i, M[Onwards(q, i)])
  BY DEF IsTable
<1>3. M[Len(q) + 1][j] <=> j > Len(t)
  <2>1. M[Len(q) + 1] = LastRow(t)
    <3>1. Len(q) + 1 \in 1 .. Len(q) + 2 /\ Len(q) + 1 > Len(q)
      BY <1>1
    <3> QED
      BY <1>2, <3>1
  <2> QED
    BY <2>1 DEF LastRow
<1>4. ASSUME NEW i \in 1 .. Len(q)
      PROVE  /\ q[i] = Percent => (M[i][j] <=> \E k \in j .. Len(t) + 1 : M[i + 1][k])
             /\ q[i] = Underscore => (M[i][j] <=> j <= Len(t) /\ M[i + 1][j + 1])
             /\ q[i] \notin Wildcards => (M[i][j] <=> j <= Len(t) /\ Literal(q, i) = t[j] /\ M[Onwards(q, i)][j + 1])
  <2>1. M[i] = RowBefore(q, t, i, M[Onwards(q, i)])
    <3>1. i \in 1 .. Len(q) + 2 /\ ~(i > Len(q))
      BY <1>1
    <3> QED
      BY <1>2, <3>1
  <2>2. M[i][j] = CASE q[i] = Percent -> \E k \in j .. Len(t) + 1 : M[Onwards(q, i)][k]
                    [] q[i] = Underscore -> j <= Len(t) /\ M[Onwards(q, i)][j + 1]
                    [] OTHER -> j <= Len(t) /\ Literal(q, i) = t[j] /\ M[Onwards(q, i)][j + 1]
    BY <2>1, Zenon DEF RowBefore
  <2>3. q[i] \in Wildcards => Onwards(q, i) = i + 1
    BY DEF Wildcards, Onwards, Percent, Underscore, Backslash
  <2>4. CASE q[i] = Percent
    BY <2>2, <2>3, <2>4 DEF Wildcards, Percent, Underscore
  <2>5. CASE q[i] = Underscore
    <3>1. q[i] # Percent /\ q[i] \in Wildcards
      BY <2>5 DEF Wildcards, Percent, Underscore
    <3>2. M[i][j] = (j <= Len(t) /\ M[Onwards(q, i)][j + 1])
      BY <2>2, <2>5, <3>1
    <3> QED
      BY <2>3, <2>5, <3>1, <3>2
  <2>6. CASE q[i] \notin Wildcards
    BY <2>2, <2>6 DEF Wildcards
  <2> QED
    BY <2>4, <2>5, <2>6 DEF Wildcards
<1>5. \A i \in 1 .. Len(q) + 2 : M[i][j] \in BOOLEAN
  BY DEF IsTable, Row
<1> QED
  BY <1>3, <1>4, <1>5

\* In front of what follows a run of percent signs anything may stand.
LeadsTo(M, m, a, g) == \A j \in 1 .. m + 1 : M[a][j] <=> \E k \in j .. m + 1 : M[g][k]
LEMMA PercentRun ==
    ASSUME NEW q \in Seq(Nat), NEW t \in Seq(Nat), NEW M, IsTable(M, q, t),
           NEW a \in 1 .. Len(q) + 1, NEW g \in 1 .. Len(q) + 1, a < g,
           \A i \in a .. g - 1 : q[i] = Percent
    PROVE  LeadsTo(M, Len(t), a, g)
<1> DEFINE n == Len(q)  m == Len(t)
           S == {i \in Nat : i < g => \A x \in 1 .. m + 1 : M[i][x] <=> \E k \in x .. m + 1 : M[g][k]}
<1>1. n \in Nat /\ m \in Nat /\ a \in Nat /\ g \in Nat
  OBVIOUS
<1> HIDE DEF n, m
<1>2. ASSUME NEW i \in a .. g, i + 1 .. g \subseteq S PROVE i \in S
  <2>1. ASSUME i < g, NEW x \in 1 .. m + 1 PROVE M[i][x] <=> \E k \in x .. m + 1 : M[g][k]
    <3>1. i \in a .. g - 1 /\ i \in 1 .. Len(q)
      BY <1>1, <2>1 DEF n
    <3>2. M[i][x] <=> \E k \in x .. m + 1 : M[i + 1][k]
      <4>1. q[i] = Percent /\ x \in 1 .. Len(t) + 1
        BY <3>1 DEF m
      <4>2. M[i][x] <=> \E k \in x .. Len(t) + 1 : M[i + 1][k]
        <5>1. \A z \in 1 .. Len(q) : q[z] = Percent => (M[z][x] <=> \E k \in x .. Len(t) + 1 : M[z + 1][k])
          BY <4>1, TableCells
        <5> QED
          BY <3>1, <4>1, <5>1
      <4> QED
        BY <4>2 DEF m
    <3>3. CASE i + 1 = g
      BY <3>2, <3>3
    <3>4. CASE i + 1 # g
      <4>1. i + 1 \in i + 1 .. g /\ i + 1 < g
        BY <1>1, <2>1, <3>4
      <4>2. \A k \in 1 .. m + 1 : M[i + 1][k] <=> \E z \in k .. m + 1 : M[g][z]
        BY <1>2, <4>1
      <4>3. \A k \in x .. m + 1 : k \in 1 .. m + 1
        BY <1>1
      <4>4. ASSUME NEW k \in x .. m + 1, M[i + 1][k] PROVE \E z \in x .. m + 1 : M[g][z]
        <5>1. PICK z \in k .. m + 1 : M[g][z]
          BY <4>2, <4>3, <4>4
        <5>2. z \in x .. m + 1
          BY <1>1, <4>3
        <5> QED
          BY <5>1, <5>2
      <4>5. ASSUME NEW z \in x .. m + 1, M[g][z] PROVE M[i + 1][z]
        <5>1. z \in z .. m + 1 /\ z \in 1 .. m + 1
          BY <1>1, <4>3
        <5> QED
          BY <4>2, <4>5, <5>1
      <4> QED
        BY <3>2, <4>4, <4>5
    <3> QED
      BY <3>3, <3>4
  <2>2. i \in Nat
    BY <1>1
  <2> QED
    BY <2>1, <2>2
<1>3. a .. g \subseteq S
  <2> HIDE DEF S
  <2> QED
    BY <1>1, <1>2, Downwards
<1>4. a \in S
  BY <1>1, <1>3
<1> QED
  BY <1>4 DEF m, LeadsTo

-----------------------------------------------------------------------------
(* The regular expression.                                                 *)

\* The items of an expression, one for each character.
RegexItem(q, i) == IF q[i] = Backslash THEN Escaped(q[i + 1]) ELSE Plainly(q[i])
DroppedAt(q, i) == q[i] = Percent /\ (i = 1 \/ q[i - 1] # Backslash)
IsLastItem(q, i) == ~DroppedAt(q, i) /\ \A j \in i + 1 .. Len(q) : DroppedAt(q, j)
ItemsOf(f, q, last) ==
    f = [i \in 1 .. last + 2 |->
            CASE i > last -> << >>
              [] i <= last /\ q[i] = Backslash -> <<Escaped(q[i + 1])>> \o f[i + 2]
              [] OTHER -> <<Plainly(q[i])>> \o f[i + 1]]
ItemsAre(R, q, B, last) ==
    \A i \in B : i <= last + 1 => R[i] = IF i > last THEN << >> ELSE <<RegexItem(q, i)>> \o R[Onwards(q, i)]

\* The last item is that of the last character that is not dropped.
LEMMA LastIndexIs ==
    ASSUME NEW q \in Seq(Nat), NEW B, Reads(q, B), NEW g \in 1 .. Len(q), q[g] # Percent
    PROVE  /\ LastIndex(q) \in g .. Len(q) /\ LastIndex(q) + 1 \in B
           /\ \A i \in LastIndex(q) + 1 .. Len(q) : q[i] = Percent
           /\ LastIndex(q) = Len(q) \/ q[LastIndex(q)] # Backslash
<1> DEFINE n == Len(q)
           l == LastIndex(q)
<1>1. n \in Nat /\ 1 \in B /\ n + 1 \in B
  BY DEF Reads
<1>2. ASSUME NEW i \in 1 .. n, DroppedAt(q, i) PROVE i \in B /\ q[i] = Percent /\ (i # 1 => q[i - 1] # Backslash)
  <2>1. CASE i = 1
    BY <1>1, <1>2, <2>1 DEF DroppedAt
  <2>2. CASE i # 1
    <3>1. i \in 2 .. n + 1
      BY <1>1, <2>2
    <3> QED
      BY <1>2, <2>2, <3>1 DEF DroppedAt, Reads
  <2> QED
    BY <2>1, <2>2
<1>3. l = CHOOSE i \in 1 .. n : IsLastItem(q, i)
  BY Zenon DEF LastIndex, IsLastItem, DroppedAt
<1> HIDE DEF n, l
<1>4. \E i \in 1 .. n : IsLastItem(q, i)
  <2> SUFFICES ASSUME ~ \E i \in 1 .. n : IsLastItem(q, i) PROVE FALSE
    OBVIOUS
  <2> DEFINE S == {i \in 1 .. n : DroppedAt(q, i)}
  <2>1. ASSUME NEW i \in 1 .. n, i + 1 .. n \subseteq S PROVE i \in S
    BY <2>1 DEF IsLastItem, n
  <2>2. 1 .. n \subseteq S
    <3> HIDE DEF S
    <3> QED
      BY <1>1, <2>1, Downwards
  <2>3. DroppedAt(q, g)
    BY <2>2 DEF n
  <2> QED
    BY <2>3 DEF DroppedAt
<1>5. l \in 1 .. n /\ IsLastItem(q, l)
  BY <1>3, <1>4
<1>6. \A i \in l + 1 .. n : DroppedAt(q, i) /\ i \in 1 .. n
  BY <1>1, <1>5 DEF IsLastItem, n
<1>7. l >= g
  <2> SUFFICES ASSUME l < g PROVE FALSE
    BY <1>5 DEF n
  <2>1. g \in l + 1 .. n
    BY <1>1, <1>5 DEF n
  <2> QED
    BY <1>6, <2>1 DEF DroppedAt
<1>8. l + 1 \in B /\ (l = n \/ q[l] # Backslash)
  <2>1. CASE l = n
    BY <1>1, <2>1 DEF n
  <2>2. CASE l # n
    <3>1. l + 1 \in l + 1 .. n /\ l + 1 \in 1 .. n /\ l + 1 # 1 /\ (l + 1) - 1 = l
      BY <1>1, <1>5, <2>2
    <3> QED
      BY <1>2, <1>6, <3>1
  <2> QED
    BY <2>1, <2>2
<1>9. \A i \in l + 1 .. n : q[i] = Percent
  BY <1>6 DEF DroppedAt
<1>10. l \in g .. n
  BY <1>1, <1>5, <1>7 DEF n
<1> QED
  BY <1>8, <1>9, <1>10 DEF l, n

\* The expression of a pattern.
LEMMA RegexIs ==
    ASSUME NEW q \in Seq(Nat), NEW B, Reads(q, B), SkipForward(q, 1, {Percent}) # Len(q) + 1
    PROVE  \E R : /\ ItemsAre(R, q, B, LastIndex(q))
                  /\ LikePatternToRegex(q) =
                        [kind |-> "regex", items |-> R[SkipForward(q, 1, {Percent})],
                         begins |-> q[1] # Percent, ends |-> q[Len(q)] # Percent]
<1> DEFINE n == Len(q)
           first == SkipForward(q, 1, {Percent})
           last == LastIndex(q)
           N == last + 2
<1>1. n \in Nat /\ B \subseteq 1 .. n + 1 /\ 1 \in B
  BY DEF Reads
<1>2. first \in 1 .. n /\ q[first] # Percent /\ \A i \in 1 .. first - 1 : q[i] = Percent
  <2>1. 1 \in 1 .. n + 1
    BY <1>1
  <2>2. /\ first \in 1 .. n + 1 /\ q[first] \notin {Percent}
        /\ \A i \in 1 .. first - 1 : q[i] \in {Percent}
    BY <2>1, SkipsForward
  <2>3. first # n + 1
    OBVIOUS
  <2> HIDE DEF first
  <2> QED
    BY <1>1, <2>2, <2>3
<1> HIDE DEF first
<1>3. first \in B
  <2>1. first \in 1 .. n + 1 /\ \A i \in 1 .. first - 1 : q[i] \in Wildcards
    BY <1>1, <1>2 DEF Wildcards
  <2>2. 1 .. first \subseteq B
    BY <2>1, LeadingWildcards
  <2> QED
    <3>1. first \in 1 .. first
      BY <1>2
    <3> QED
      BY <2>2, <3>1
<1>4. last \in first .. n /\ last + 1 \in B
  BY <1>2, LastIndexIs
<1>5. SkipToUnescaped(Part(q, first, last + 1), 1, {}) = last - first + 2
  <2> DEFINE u == Part(q, first, last + 1)
             C == Shifted(B, first, last + 1)
  <2>1. first <= last + 1
    BY <1>1, <1>2, <1>4
  <2>2. u \in Seq(Nat) /\ Len(u) = (last + 1) - first /\ Reads(u, C)
    BY <1>3, <1>4, <2>1, PartReads
  <2> HIDE DEF u, C
  <2>3. 1 \in C
    BY <2>2 DEF Reads
  <2>4. SkipToUnescaped(u, 1, {}) = Len(u) + 1
    BY <2>2, <2>3, Skips
  <2> QED
    BY <1>2, <1>4, <2>2, <2>4 DEF u
<1> DEFINE stop == {i \in 1 .. N : i > last}
           front == [i \in 1 .. N |-> <<RegexItem(q, i)>>]
           next == [i \in 1 .. N |-> Onwards(q, i)]
<1>6. last \in Nat
  BY <1>2, <1>4
<1> HIDE DEF last
<1>7. GoesOn(N, stop, next)
  <2>1. N \in Nat /\ \A k \in 1 .. N : k \notin stop => next[k] \in k + 1 .. N
    BY <1>6 DEF Onwards
  <2> HIDE DEF N, stop, next
  <2> QED
    BY <2>1 DEF GoesOn
<1>8. PICK f : Chains(f, N, stop, front, next)
  <2> HIDE DEF N, stop, front, next
  <2> QED
    BY <1>7, ConcatFunction
<1>9. f = [k \in 1 .. N |-> IF k \in stop THEN << >> ELSE front[k] \o f[next[k]]]
  BY <1>8 DEF Chains
<1>10. ASSUME NEW k \in 1 .. N
       PROVE  f[k] = CASE k > last -> << >>
                       [] k <= last /\ q[k] = Backslash -> <<Escaped(q[k + 1])>> \o f[k + 2]
                       [] OTHER -> <<Plainly(q[k])>> \o f[k + 1]
  <2>1. front[k] = <<RegexItem(q, k)>> /\ next[k] = Onwards(q, k) /\ (k \in stop <=> k > last)
    OBVIOUS
  <2>0. k \in Nat
    BY <1>6
  <2> HIDE DEF front, next, stop
  <2>2. f[k] = IF k > last THEN << >> ELSE <<RegexItem(q, k)>> \o f[Onwards(q, k)]
    BY <1>9, <2>1, Zenon
  <2>3. CASE k > last
    <3>1. ~(k <= last)
      BY <1>6, <2>0, <2>3
    <3> QED
      BY <2>2, <2>3, <3>1
  <2>4. CASE ~(k > last) /\ q[k] = Backslash
    <3>1. RegexItem(q, k) = Escaped(q[k + 1]) /\ Onwards(q, k) = k + 2
      BY <2>4 DEF RegexItem, Onwards
    <3>2. k <= last
      BY <1>6, <2>0, <2>4
    <3> QED
      BY <2>2, <2>4, <3>1, <3>2
  <2>5. CASE ~(k > last) /\ q[k] # Backslash
    <3>1. RegexItem(q, k) = Plainly(q[k]) /\ Onwards(q, k) = k + 1
      BY <2>5 DEF RegexItem, Onwards
    <3> QED
      BY <2>2, <2>5, <3>1
  <2> QED
    BY <2>3, <2>4, <2>5
<1>11. ItemsOf(f, q, last)
  <2> HIDE DEF stop, front, next
  <2>1. f = [k \in 1 .. N |-> f[k]]
    BY <1>9
  <2>2. f = [k \in 1 .. N |-> CASE k > last -> << >>
                                [] k <= last /\ q[k] = Backslash -> <<Escaped(q[k + 1])>> \o f[k + 2]
                                [] OTHER -> <<Plainly(q[k])>> \o f[k + 1]]
    BY <1>10, <2>1, Zenon
  <2> QED
    BY <2>2 DEF ItemsOf
<1> DEFINE R == CHOOSE R : ItemsOf(R, q, last)
<1>12. ItemsOf(R, q, last)
  BY <1>11
<1>13. LikePatternToRegex(q) =
          [kind |-> "regex", items |-> R[first], begins |-> q[1] # Percent, ends |-> q[Len(q)] # Percent]
  <2>1. ~(first > Len(q))
    BY <1>1, <1>2
  <2> QED
    BY <1>5, <2>1, Zenon DEF LikePatternToRegex, ItemsOf, first, last
<1> HIDE DEF R
<1>14. ASSUME NEW i \in B, i <= last + 1 PROVE R[i] = IF i > last THEN << >> ELSE <<RegexItem(q, i)>> \o R[Onwards(q, i)]
  <2>1. i \in 1 .. N /\ (i > last <=> ~(i <= last))
    BY <1>1, <1>6, <1>14
  <2>2. R[i] = CASE i > last -> << >>
                 [] i <= last /\ q[i] = Backslash -> <<Escaped(q[i + 1])>> \o R[i + 2]
                 [] OTHER -> <<Plainly(q[i])>> \o R[i + 1]
    BY <1>12, <2>1, Zenon DEF ItemsOf
  <2> QED
    BY <2>1, <2>2, Zenon DEF RegexItem, Onwards
<1>15. ItemsAre(R, q, B, last)
  BY <1>14 DEF ItemsAre
<1> QED
  BY <1>13, <1>15 DEF first, last

\* The table of what the engine finds: which items match the rest of the text
\* from where.
FoundLast(r, t) == [j \in 1 .. Len(t) + 1 |-> r.ends => j > Len(t)]
FoundRow(r, t, F, n) ==
    [j \in 1 .. Len(t) + 1 |->
        CASE n > Len(r.items) -> r.ends => j > Len(t)
          [] n <= Len(r.items) /\ r.items[n].kind = "run" -> \E k \in j .. Len(t) + 1 : F[n + 1][k]
          [] n <= Len(r.items) /\ r.items[n].kind = "any" -> j <= Len(t) /\ F[n + 1][j + 1]
          [] OTHER -> j <= Len(t) /\ r.items[n] = Item("byte", t[j]) /\ F[n + 1][j + 1]]
IsFoundTable(F, r, t) == F = [n \in 1 .. Len(r.items) + 1 |-> FoundRow(r, t, F, n)]
FoundBefore(r, t, n, row) ==
    [j \in 1 .. Len(t) + 1 |->
        CASE r.items[n].kind = "run" -> \E k \in j .. Len(t) + 1 : row[k]
          [] r.items[n].kind = "any" -> j <= Len(t) /\ row[j + 1]
          [] OTHER -> j <= Len(t) /\ r.items[n] = Item("byte", t[j]) /\ row[j + 1]]
LEMMA FoundRowIs ==
    ASSUME NEW r, NEW t, NEW F, NEW n \in Nat, Len(r.items) \in Nat
    PROVE  FoundRow(r, t, F, n) = IF n > Len(r.items) THEN FoundLast(r, t) ELSE FoundBefore(r, t, n, F[n + 1])
<1>1. CASE n > Len(r.items)
  <2>1. ~(n <= Len(r.items))
    BY <1>1
  <2> QED
    BY <1>1, <2>1, Zenon DEF FoundRow, FoundLast
<1>2. CASE ~(n > Len(r.items))
  <2>0. n <= Len(r.items)
    BY <1>2
  <2>1. CASE r.items[n].kind = "run"
    BY <1>2, <2>0, <2>1 DEF FoundRow, FoundBefore
  <2>2. CASE r.items[n].kind = "any"
    BY <1>2, <2>0, <2>2 DEF FoundRow, FoundBefore
  <2>3. CASE r.items[n].kind # "run" /\ r.items[n].kind # "any"
    BY <1>2, <2>0, <2>3 DEF FoundRow, FoundBefore
  <2> QED
    BY <2>1, <2>2, <2>3
<1> QED
  BY <1>1, <1>2

LEMMA FoundRows ==
    ASSUME NEW r, NEW t, NEW n, NEW row \in Row(t), Len(t) \in Nat
    PROVE  FoundBefore(r, t, n, row) \in Row(t) /\ FoundLast(r, t) \in Row(t)
<1>1. ASSUME NEW j \in 1 .. Len(t) + 1
      PROVE  (CASE r.items[n].kind = "run" -> \E k \in j .. Len(t) + 1 : row[k]
                [] r.items[n].kind = "any" -> j <= Len(t) /\ row[j + 1]
                [] OTHER -> j <= Len(t) /\ r.items[n] = Item("byte", t[j]) /\ row[j + 1]) \in BOOLEAN
  <2>1. CASE r.items[n].kind = "run"
    BY <2>1
  <2>2. CASE r.items[n].kind = "any"
    BY <2>2
  <2>3. CASE r.items[n].kind # "run" /\ r.items[n].kind # "any"
    BY <2>3
  <2> QED
    BY <2>1, <2>2, <2>3
<1>2. FoundBefore(r, t, n, row) \in Row(t)
  BY <1>1 DEF FoundBefore, Row
<1>3. FoundLast(r, t) \in Row(t)
  BY DEF FoundLast, Row
<1> QED
  BY <1>2, <1>3

\* What the engine finds, item by item.
Finds(F, r, t) ==
    /\ \A j \in 1 .. Len(t) + 1 : F[Len(r.items) + 1][j] <=> (r.ends => j > Len(t))
    /\ \A n \in 1 .. Len(r.items) : F[n] = FoundBefore(r, t, n, F[n + 1])
LEMMA FoundSteps ==
    ASSUME NEW r, NEW t \in Seq(Nat), Len(r.items) \in Nat
    PROVE  \E F : /\ Finds(F, r, t)
                  /\ RegexMatches(r, t) = \E j \in 1 .. (IF r.begins THEN 1 ELSE Len(t) + 1) : F[1][j]
<1> DEFINE l == Len(r.items)
           D == 1 .. l + 1
           V == Row(t)
           rank == [n \in D |-> (l + 1) - n]
           stop == {l + 1}
           base == [n \in D |-> FoundLast(r, t)]
           step == [n \in D |-> [row \in V |-> FoundBefore(r, t, n, row)]]
           next == [n \in D |-> n + 1]
<1>0. l \in Nat /\ Len(t) \in Nat
  OBVIOUS
<1> HIDE DEF l
<1>1. l + 1 \in Nat /\ rank \in [D -> 0 .. l + 1]
  BY <1>0
<1>2. FoundLast(r, t) \in V /\ \A n : \A row \in V : FoundBefore(r, t, n, row) \in V
  <2>1. FoundLast(r, t) \in V
    BY <1>0 DEF FoundLast, Row
  <2> QED
    BY <1>0, <2>1, FoundRows
<1>3. ASSUME NEW n \in D, n \notin stop PROVE next[n] \in D /\ rank[next[n]] < rank[n]
  BY <1>0, <1>3
<1>4. ASSUME NEW n \in D PROVE base[n] \in V /\ step[n] \in [V -> V]
  <2>1. base[n] = FoundLast(r, t) /\ step[n] = [row \in V |-> FoundBefore(r, t, n, row)]
    OBVIOUS
  <2> HIDE DEF V, base, step
  <2> QED
    BY <1>2, <2>1
<1>5. Descends(D, V, l + 1, rank, stop, base, step, next)
  <2> HIDE DEF D, V, rank, stop, base, step, next
  <2> QED
    BY <1>1, <1>3, <1>4 DEF Descends
<1>6. PICK F : Follows(F, D, V, stop, base, step, next)
  <2> HIDE DEF D, V, rank, stop, base, step, next
  <2> QED
    BY <1>5, RankedFunction
<1>7. F \in [D -> V] /\ \A n \in D : F[n] = IF n \in stop THEN base[n] ELSE step[n][F[next[n]]]
  BY <1>6 DEF Follows
<1>8. ASSUME NEW n \in D
      PROVE  F[n] = IF n > l THEN FoundLast(r, t) ELSE FoundBefore(r, t, n, F[n + 1])
  <2>1. (n \in stop <=> n > l) /\ base[n] = FoundLast(r, t) /\ next[n] = n + 1
        /\ step[n] = [row \in V |-> FoundBefore(r, t, n, row)]
    BY <1>0
  <2>2. ASSUME ~(n > l) PROVE step[n][F[next[n]]] = FoundBefore(r, t, n, F[n + 1])
    <3>1. next[n] \in D
      BY <1>0, <2>2
    <3>2. F[n + 1] \in V
      <4> HIDE DEF D, V, next
      <4> QED
        BY <1>7, <2>1, <3>1
    <3> HIDE DEF D, V, next, step
    <3> QED
      BY <2>1, <3>2
  <2>3. F[n] = IF n \in stop THEN base[n] ELSE step[n][F[next[n]]]
    <3> HIDE DEF D, V, next, step, base, stop
    <3> QED
      BY <1>7
  <2> HIDE DEF D, V, next, step, base, stop
  <2> QED
    BY <2>1, <2>2, <2>3
<1>9. IsFoundTable(F, r, t)
  <2>1. ASSUME NEW n \in D PROVE F[n] = FoundRow(r, t, F, n)
    <3>1. n \in Nat
      BY <1>0
    <3> QED
      BY <1>0, <1>8, <3>1, FoundRowIs DEF l
  <2> HIDE DEF V
  <2>2. F = [n \in D |-> FoundRow(r, t, F, n)]
    BY <1>7, <2>1, Zenon
  <2> QED
    BY <2>2 DEF IsFoundTable, l
<1> DEFINE G == CHOOSE G : IsFoundTable(G, r, t)
<1>10. IsFoundTable(G, r, t)
  BY <1>9
<1>11. RegexMatches(r, t) = \E j \in 1 .. (IF r.begins THEN 1 ELSE Len(t) + 1) : G[1][j]
  BY Zenon DEF RegexMatches, IsFoundTable, FoundRow
<1> HIDE DEF G
<1>12. G = [n \in D |-> FoundRow(r, t, G, n)]
  BY <1>10 DEF IsFoundTable, l
<1>13. ASSUME NEW n \in D
       PROVE  G[n] = IF n > l THEN FoundLast(r, t) ELSE FoundBefore(r, t, n, G[n + 1])
  <2>1. n \in Nat
    BY <1>0
  <2>2. G[n] = FoundRow(r, t, G, n)
    <3> HIDE DEF D
    <3> QED
      BY <1>12, Zenon
  <2> QED
    BY <1>0, <2>1, <2>2, FoundRowIs DEF l
<1>14. G[l + 1] = FoundLast(r, t)
  <2>1. l + 1 \in D /\ l + 1 > l
    BY <1>0
  <2> QED
    BY <1>13, <2>1
<1>15. \A j \in 1 .. Len(t) + 1 : G[l + 1][j] <=> (r.ends => j > Len(t))
  BY <1>14, Zenon DEF FoundLast
<1>16. \A n \in 1 .. l : G[n] = FoundBefore(r, t, n, G[n + 1])
  <2>1. \A n \in 1 .. l : n \in D /\ ~(n > l)
    BY <1>0
  <2> QED
    BY <1>13, <2>1
<1>17. Finds(G, r, t)
  BY <1>15, <1>16 DEF Finds, l
<1> QED
  BY <1>11, <1>17

\* The cells of that table.
LEMMA FoundCells ==
    ASSUME NEW r, NEW t \in Seq(Nat), Len(r.items) \in Nat, NEW F, Finds(F, r, t),
           NEW n \in 1 .. Len(r.items), NEW j \in 1 .. Len(t) + 1
    PROVE  /\ r.items[n].kind = "run" => (F[n][j] <=> \E k \in j .. Len(t) + 1 : F[n + 1][k])
           /\ r.items[n].kind = "any" => (F[n][j] <=> j <= Len(t) /\ F[n + 1][j + 1])
           /\ r.items[n].kind \notin {"run", "any"} =>
                 (F[n][j] <=> j <= Len(t) /\ r.items[n] = Item("byte", t[j]) /\ F[n + 1][j + 1])
<1>1. F[n] = FoundBefore(r, t, n, F[n + 1])
  BY DEF Finds
<1>2. F[n][j] = CASE r.items[n].kind = "run" -> \E k \in j .. Len(t) + 1 : F[n + 1][k]
                  [] r.items[n].kind = "any" -> j <= Len(t) /\ F[n + 1][j + 1]
                  [] OTHER -> j <= Len(t) /\ r.items[n] = Item("byte", t[j]) /\ F[n + 1][j + 1]
  BY <1>1, Zenon DEF FoundBefore
<1>3. CASE r.items[n].kind = "run"
  BY <1>2, <1>3
<1>4. CASE r.items[n].kind = "any"
  BY <1>2, <1>4
<1>5. CASE r.items[n].kind \notin {"run", "any"}
  BY <1>2, <1>5
<1> QED
  BY <1>3, <1>4, <1>5

\* The items of the characters from one position on are the last ones of the
\* expression.
ItemRecords == [kind : {"class", "byte", "run", "any"}, byte : Nat]
ItemLies(R, q, first, last, i) ==
    /\ R[i] \in Seq(ItemRecords) /\ R[Onwards(q, i)] \in Seq(ItemRecords) /\ Onwards(q, i) <= last + 1
    /\ Len(R[i]) = Len(R[Onwards(q, i)]) + 1 /\ Len(R[i]) <= Len(R[first])
    /\ R[first][(Len(R[first]) - Len(R[i])) + 1] = RegexItem(q, i)
LEMMA ItemsBehind ==
    ASSUME NEW q \in Seq(Nat), NEW B, Reads(q, B), NEW last \in Nat, last + 1 \in B,
           NEW first \in B, first <= last, NEW R, ItemsAre(R, q, B, last)
    PROVE  /\ R[first] \in Seq(ItemRecords)
           /\ \A i \in B : first <= i /\ i <= last => ItemLies(R, q, first, last, i)
<1>1. Len(q) \in Nat /\ B \subseteq 1 .. Len(q) + 1 /\ last <= Len(q)
  BY DEF Reads
<1>2. R[last + 1] = << >>
  <2>1. last + 1 <= last + 1 /\ last + 1 > last
    OBVIOUS
  <2> QED
    BY <2>1 DEF ItemsAre
<1>3. ASSUME NEW i \in B, first <= i, i <= last
      PROVE  /\ R[i] = <<RegexItem(q, i)>> \o R[Onwards(q, i)] /\ RegexItem(q, i) \in ItemRecords
             /\ Onwards(q, i) \in B /\ i < Onwards(q, i) /\ Onwards(q, i) <= last + 1
  <2>1. i \in Nat /\ i <= last + 1 /\ ~(i > last) /\ i # Len(q) + 1
    BY <1>1, <1>3
  <2>2. R[i] = <<RegexItem(q, i)>> \o R[Onwards(q, i)]
    BY <2>1 DEF ItemsAre
  <2>3. /\ i \in 1 .. Len(q) /\ Onwards(q, i) \in B /\ i < Onwards(q, i)
        /\ q[i] = Backslash => i + 1 \notin B /\ i + 1 \in 1 .. Len(q) /\ Onwards(q, i) = i + 2
        /\ q[i] # Backslash => Onwards(q, i) = i + 1
    BY <2>1, NextCharacter
  <2>4. Onwards(q, i) <= last + 1
    <3>1. i + 1 = last + 1 => i + 1 \in B
      BY <1>1
    <3>2. CASE q[i] = Backslash
      BY <1>1, <1>3, <2>1, <2>3, <3>1, <3>2
    <3>3. CASE q[i] # Backslash
      BY <1>1, <1>3, <2>1, <2>3, <3>3
    <3> QED
      BY <3>2, <3>3
  <2>5. RegexItem(q, i) \in ItemRecords
    <3>1. \A k \in 1 .. Len(q) : q[k] \in Nat
      OBVIOUS
    <3>2. CASE q[i] = Backslash
      BY <2>3, <3>1, <3>2 DEF RegexItem, Escaped, Item, ItemRecords
    <3>3. CASE q[i] # Backslash
      BY <2>3, <3>1, <3>3 DEF RegexItem, Plainly, Item, ItemRecords
    <3> QED
      BY <3>2, <3>3
  <2> QED
    BY <2>2, <2>3, <2>4, <2>5
<1>4. \A i \in B : first <= i /\ i <= last + 1 => R[i] \in Seq(ItemRecords)
  <2> DEFINE S == {i \in B : R[i] \in Seq(ItemRecords)}
  <2>1. last + 1 \in S
    <3>1. << >> \in Seq(ItemRecords)
      OBVIOUS
    <3> QED
      BY <1>2, <3>1
  <2>2. ASSUME NEW i \in B, first <= i /\ i < last + 1 /\ Onwards(q, i) \in S PROVE i \in S
    <3>1. i <= last
      BY <1>1, <2>2
    <3>2. R[i] = <<RegexItem(q, i)>> \o R[Onwards(q, i)] /\ RegexItem(q, i) \in ItemRecords
      BY <1>3, <2>2, <3>1
    <3>3. R[Onwards(q, i)] \in Seq(ItemRecords)
      BY <2>2
    <3>4. R[i] \in Seq(ItemRecords)
      BY <3>2, <3>3
    <3> QED
      BY <3>4
  <2>3. \A i \in B : first <= i /\ i <= last + 1 => i \in S
    <3> HIDE DEF S
    <3> QED
      BY <2>1, <2>2, CharactersDown
  <2> QED
    BY <2>3
<1>5. R[first] \in Seq(ItemRecords)
  <2>1. first <= first /\ first <= last + 1
    BY <1>1
  <2> QED
    BY <1>4, <2>1
<1> DEFINE L == Len(R[first])
           S == {i \in B : Len(R[i]) <= L /\ \A k \in 1 .. Len(R[i]) : R[first][(L - Len(R[i])) + k] = R[i][k]}
<1>6. L \in Nat
  BY <1>5
<1>7. ASSUME NEW i \in B, first <= i, i <= last
      PROVE  /\ R[i] \in Seq(ItemRecords) /\ R[Onwards(q, i)] \in Seq(ItemRecords)
             /\ Len(R[i]) = Len(R[Onwards(q, i)]) + 1
             /\ R[i][1] = RegexItem(q, i)
             /\ \A k \in 1 .. Len(R[Onwards(q, i)]) : R[i][1 + k] = R[Onwards(q, i)][k]
  <2> DEFINE o == Onwards(q, i)
             u == <<RegexItem(q, i)>>
  <2>1. R[i] = u \o R[o] /\ RegexItem(q, i) \in ItemRecords /\ o \in B /\ i < o /\ o <= last + 1
    BY <1>3, <1>7
  <2>2. R[o] \in Seq(ItemRecords)
    <3> HIDE DEF o
    <3>1. first <= o
      BY <1>1, <1>7, <2>1
    <3> QED
      BY <1>4, <2>1, <3>1
  <2>3. u \in Seq(ItemRecords) /\ Len(u) = 1 /\ u[1] = RegexItem(q, i)
    BY <2>1
  <2> HIDE DEF u, o
  <2>4. R[i] \in Seq(ItemRecords) /\ Joins(R[i], u, R[o])
    BY <2>1, <2>2, <2>3, Concatenated
  <2>5. Len(R[i]) = 1 + Len(R[o]) /\ Len(R[o]) \in Nat /\ 1 \in 1 .. 1
    BY <2>2, <2>3, <2>4 DEF Joins
  <2>6. R[i][1] = u[1] /\ \A k \in 1 .. Len(R[o]) : R[i][1 + k] = R[o][k]
    BY <2>3, <2>4, <2>5 DEF Joins
  <2> QED
    BY <2>2, <2>3, <2>4, <2>5, <2>6 DEF o
<1>8. first \in S
  BY <1>6
<1>9. ASSUME NEW i \in B, first <= i /\ i < last + 1 /\ i \in S PROVE Onwards(q, i) \in S
  <2> DEFINE o == Onwards(q, i)
  <2>1. i <= last
    BY <1>1, <1>9
  <2>2. /\ R[i] \in Seq(ItemRecords) /\ R[o] \in Seq(ItemRecords) /\ Len(R[i]) = Len(R[o]) + 1
        /\ \A k \in 1 .. Len(R[o]) : R[i][1 + k] = R[o][k]
    BY <1>7, <1>9, <2>1
  <2>3. o \in B
    BY <1>3, <1>9, <2>1
  <2> HIDE DEF o
  <2>4. Len(R[o]) \in Nat /\ Len(R[i]) \in Nat
    BY <2>2
  <2>5. Len(R[i]) <= L /\ \A k \in 1 .. Len(R[i]) : R[first][(L - Len(R[i])) + k] = R[i][k]
    BY <1>9
  <2> HIDE DEF L
  <2>6. ASSUME NEW k \in 1 .. Len(R[o]) PROVE R[first][(L - Len(R[o])) + k] = R[o][k]
    <3>1. 1 + k \in 1 .. Len(R[i]) /\ (L - Len(R[i])) + (1 + k) = (L - Len(R[o])) + k
      BY <1>6, <2>2, <2>4
    <3>2. R[first][(L - Len(R[i])) + (1 + k)] = R[i][1 + k]
      BY <2>5, <3>1
    <3> QED
      BY <2>2, <3>1, <3>2
  <2>7. Len(R[o]) <= L
    BY <1>6, <2>2, <2>4, <2>5
  <2> QED
    BY <2>3, <2>6, <2>7 DEF o
<1>10. \A i \in B : first <= i /\ i <= last + 1 => i \in S
  <2> HIDE DEF S
  <2> QED
    BY <1>8, <1>9, CharactersUp
<1>11. ASSUME NEW i \in B, first <= i, i <= last
       PROVE  /\ R[i] \in Seq(ItemRecords) /\ R[Onwards(q, i)] \in Seq(ItemRecords) /\ Onwards(q, i) <= last + 1
              /\ Len(R[i]) = Len(R[Onwards(q, i)]) + 1 /\ Len(R[i]) <= L
              /\ R[first][(L - Len(R[i])) + 1] = RegexItem(q, i)
  <2>1. i <= last + 1
    BY <1>1, <1>11
  <2>2. Len(R[i]) <= L /\ \A k \in 1 .. Len(R[i]) : R[first][(L - Len(R[i])) + k] = R[i][k]
    BY <1>10, <1>11, <2>1
  <2>3. /\ R[i] \in Seq(ItemRecords) /\ R[Onwards(q, i)] \in Seq(ItemRecords)
        /\ Len(R[i]) = Len(R[Onwards(q, i)]) + 1 /\ R[i][1] = RegexItem(q, i)
    BY <1>7, <1>11
  <2>4. 1 \in 1 .. Len(R[i])
    BY <2>3
  <2>5. Onwards(q, i) <= last + 1
    BY <1>3, <1>11
  <2> HIDE DEF L
  <2> QED
    BY <2>2, <2>3, <2>4, <2>5
<1> QED
  BY <1>2, <1>5, <1>11 DEF ItemLies

\* No letter or digit is escaped, and neither is a percent sign at the end.
NoLetters(q, B) == \A i \in B : i # Len(q) + 1 /\ q[i] = Backslash => ~IsAlphanumeric(q[i + 1])
LEMMA RegexIsLike ==
    ASSUME NEW q \in Seq(Nat), NEW B, Reads(q, B), NEW t \in Seq(Nat), NoLetters(q, B),
           q[Len(q)] = Percent => Len(q) \in B,
           SkipForward(q, 1, {Percent}) # Len(q) + 1
    PROVE  /\ LikePatternToRegex(q) # Refused
           /\ RegexMatches(LikePatternToRegex(q), t) = Like(q, t)
<1> DEFINE n == Len(q)
           m == Len(t)
           first == SkipForward(q, 1, {Percent})
           last == LastIndex(q)
           r == LikePatternToRegex(q)
<1>1. n \in Nat /\ m \in Nat /\ B \subseteq 1 .. n + 1 /\ 1 \in B /\ n + 1 \in B
  BY DEF Reads
<1>2. /\ first \in 1 .. n /\ q[first] # Percent /\ \A i \in 1 .. first - 1 : q[i] = Percent
  <2>1. 1 \in 1 .. n + 1
    BY <1>1
  <2>2. /\ first \in 1 .. n + 1 /\ q[first] \notin {Percent}
        /\ \A i \in 1 .. first - 1 : q[i] \in {Percent}
    BY <2>1, SkipsForward
  <2>3. first # n + 1
    OBVIOUS
  <2> HIDE DEF first
  <2> QED
    BY <1>1, <2>2, <2>3
<1>3. PICK R : /\ ItemsAre(R, q, B, last)
               /\ r = [kind |-> "regex", items |-> R[first], begins |-> q[1] # Percent, ends |-> q[n] # Percent]
  BY RegexIs
<1>4. last \in first .. n /\ last + 1 \in B /\ \A i \in last + 1 .. n : q[i] = Percent
  BY <1>2, LastIndexIs
<1> HIDE DEF first, last, r, n, m
<1>5. first \in B
  <2>1. first \in 1 .. Len(q) + 1 /\ \A i \in 1 .. first - 1 : q[i] \in Wildcards
    BY <1>1, <1>2 DEF Wildcards, n
  <2>2. 1 .. first \subseteq B
    BY <2>1, LeadingWildcards
  <2>3. first \in 1 .. first
    BY <1>2
  <2> QED
    BY <2>2, <2>3
<1> DEFINE L == Len(R[first])
           at(i) == (L - Len(R[i])) + 1
<1>6. /\ R[first] \in Seq(ItemRecords) /\ R[last + 1] = << >>
      /\ \A i \in B : first <= i /\ i <= last =>
            /\ R[i] \in Seq(ItemRecords) /\ R[Onwards(q, i)] \in Seq(ItemRecords) /\ Onwards(q, i) <= last + 1
            /\ Len(R[i]) = Len(R[Onwards(q, i)]) + 1 /\ Len(R[i]) <= L
            /\ R[first][at(i)] = RegexItem(q, i)
  <2>1. last \in Nat /\ first <= last
    BY <1>1, <1>2, <1>4
  <2>2. /\ R[first] \in Seq(ItemRecords) /\ R[last + 1] = << >>
        /\ \A i \in B : first <= i /\ i <= last =>
              /\ R[i] \in Seq(ItemRecords) /\ R[Onwards(q, i)] \in Seq(ItemRecords) /\ Onwards(q, i) <= last + 1
              /\ Len(R[i]) = Len(R[Onwards(q, i)]) + 1 /\ Len(R[i]) <= Len(R[first])
              /\ R[first][(Len(R[first]) - Len(R[i])) + 1] = RegexItem(q, i)
    <3>1. last + 1 \in B /\ ItemsAre(R, q, B, last)
      BY <1>3, <1>4
    <3>2. R[last + 1] = << >>
      <4>1. last + 1 <= last + 1 /\ last + 1 > last
        BY <2>1
      <4> QED
        BY <3>1, <4>1 DEF ItemsAre
    <3> QED
      <4>1. R[first] \in Seq(ItemRecords)
        BY <1>5, <2>1, <3>1, ItemsBehind
      <4>2. \A i \in B : first <= i /\ i <= last => ItemLies(R, q, first, last, i)
        BY <1>5, <2>1, <3>1, ItemsBehind
      <4> QED
        BY <3>2, <4>1, <4>2 DEF ItemLies
  <2> QED
    BY <2>2
<1>7. r.items = R[first] /\ r.begins = (q[1] # Percent) /\ r.ends = (q[n] # Percent) /\ r.kind = "regex"
  BY <1>3
<1>8. L \in Nat /\ Len(r.items) = L
  BY <1>6, <1>7
<1>9. PICK F : /\ Finds(F, r, t)
               /\ RegexMatches(r, t) = \E j \in 1 .. (IF r.begins THEN 1 ELSE Len(t) + 1) : F[1][j]
  BY <1>8, FoundSteps
<1>10. PICK M : IsTable(M, q, t) /\ Like(q, t) = M[1][1]
  BY LikeSteps
<1> DEFINE Same(i) == \A j \in 1 .. m + 1 : F[at(i)][j] <=> M[i][j]
<1>11. \A j \in 1 .. m + 1 : F[L + 1][j] <=> (q[n] # Percent => j > m)
  BY <1>7, <1>8, <1>9 DEF Finds, m
<1> HIDE DEF L
<1>12. at(last + 1) = L + 1
  BY <1>6, <1>8
<1>13. ASSUME q[n] # Percent \/ last # n PROVE Same(last + 1)
  <2>1. CASE last = n
    <3>1. \A j \in 1 .. m + 1 : M[n + 1][j] <=> j > m
      BY <1>10, TableCells DEF n, m
    <3> QED
      BY <1>11, <1>12, <1>13, <2>1, <3>1
  <2>2. CASE last # n
    <3>1. last + 1 \in 1 .. Len(q) + 1 /\ n + 1 \in 1 .. Len(q) + 1 /\ last + 1 < n + 1 /\ n \in last + 1 .. n /\ n + 1 - 1 = n
      BY <1>1, <1>2, <1>4, <2>2 DEF n
    <3>2. q[n] = Percent
      BY <1>4, <3>1
    <3>3. ASSUME NEW j \in 1 .. m + 1 PROVE M[last + 1][j]
      <4>1. M[last + 1][j] <=> \E k \in j .. m + 1 : M[n + 1][k]
        <5>1. \A i \in last + 1 .. (n + 1) - 1 : q[i] = Percent
          BY <1>1, <1>4
        <5> QED
          <6> DEFINE g == n + 1
                     a == last + 1
          <6>1. g \in 1 .. Len(q) + 1 /\ a < g /\ a \in 1 .. Len(q) + 1
            BY <3>1
          <6>2. \A i \in a .. g - 1 : q[i] = Percent
            BY <5>1
          <6>3. m = Len(t)
            BY DEF m
          <6> HIDE DEF g, a
          <6>4. M[a][j] <=> \E k \in j .. m + 1 : M[g][k]
            <7>1. IsTable(M, q, t)
              BY <1>10
            <7>2. LeadsTo(M, m, a, g)
              BY <6>1, <6>2, <6>3, <7>1, PercentRun
            <7> QED
              BY <7>2 DEF LeadsTo
          <6> QED
            BY <6>4 DEF g, a
      <4>2. m + 1 \in j .. m + 1 /\ m + 1 \in 1 .. m + 1 /\ m + 1 > m
        BY <1>1
      <4>3. M[n + 1][m + 1]
        <5>1. m + 1 \in 1 .. Len(t) + 1
          BY <4>2 DEF m
        <5>2. M[Len(q) + 1][m + 1] <=> m + 1 > Len(t)
          BY <1>10, <5>1, TableCells
        <5> QED
          BY <4>2, <5>2 DEF n, m
      <4> QED
        BY <4>1, <4>2, <4>3
    <3> QED
      BY <1>11, <1>12, <3>2, <3>3
  <2> QED
    BY <2>1, <2>2
<1>14. ASSUME NEW i \in B, first <= i, i <= last,
              Same(Onwards(q, i)) \/ (i = n /\ q[n] = Percent)
       PROVE  Same(i)
  <2> DEFINE o == Onwards(q, i)
             k == at(i)
  <2>1. /\ R[i] \in Seq(ItemRecords) /\ R[o] \in Seq(ItemRecords) /\ o <= last + 1
        /\ Len(R[i]) = Len(R[o]) + 1 /\ Len(R[i]) <= L
        /\ R[first][k] = RegexItem(q, i)
    BY <1>6, <1>14
  <2>2. i \in 1 .. n /\ i # Len(q) + 1 /\ i \in Nat
    BY <1>1, <1>2, <1>4, <1>14 DEF n
  <2>3. k \in 1 .. L /\ at(o) = k + 1
    BY <1>8, <2>1
  <2>4. q[i] # Backslash => o = i + 1
    BY DEF Onwards
  <2>5. i <= last
    BY <1>14
  <2> HIDE DEF o, k, at
  <2>6. ASSUME NEW j \in 1 .. m + 1 PROVE F[k][j] <=> M[i][j]
    <3>0. j \in 1 .. Len(t) + 1 /\ (j <= m => j + 1 \in 1 .. m + 1)
      BY <1>1 DEF m
    <3>1. /\ q[i] = Percent => (M[i][j] <=> \E x \in j .. m + 1 : M[i + 1][x])
          /\ q[i] = Underscore => (M[i][j] <=> j <= m /\ M[i + 1][j + 1])
          /\ q[i] \notin Wildcards => (M[i][j] <=> j <= m /\ Literal(q, i) = t[j] /\ M[o][j + 1])
      BY <1>10, <2>2, <3>0, TableCells DEF m, n, o
    <3>2. /\ r.items[k].kind = "run" => (F[k][j] <=> \E x \in j .. m + 1 : F[k + 1][x])
          /\ r.items[k].kind = "any" => (F[k][j] <=> j <= m /\ F[k + 1][j + 1])
          /\ r.items[k].kind \notin {"run", "any"} =>
                (F[k][j] <=> j <= m /\ r.items[k] = Item("byte", t[j]) /\ F[k + 1][j + 1])
      <4>1. k \in 1 .. Len(r.items) /\ Len(r.items) \in Nat
        BY <1>8, <2>3
      <4> QED
        BY <1>9, <3>0, <4>1, FoundCells DEF m
    <3>3. r.items[k] = RegexItem(q, i)
      BY <1>7, <2>1
    <3>4. CASE q[i] = Percent
      <4>1. r.items[k].kind = "run" /\ o = i + 1
        <5>1. q[i] # Backslash
          BY <3>4 DEF Percent, Backslash
        <5>2. RegexItem(q, i) = Item("run", 0)
          BY <3>4, <5>1 DEF RegexItem, Plainly, Percent, Underscore
        <5>3. Item("run", 0).kind = "run"
          BY DEF Item
        <5> QED
          BY <2>4, <3>3, <5>1, <5>2, <5>3
      <4>2. CASE i = n
        <5>1. m + 1 \in j .. m + 1 /\ m + 1 \in 1 .. m + 1 /\ m + 1 > m
          BY <1>1
        <5>2. q[n] = Percent
          BY <3>4, <4>2
        <5>3. k = L
          <6>1. last = n /\ o = last + 1
            BY <1>1, <1>2, <1>4, <2>5, <4>1, <4>2
          <6>2. at(o) = L + 1
            BY <1>12, <6>1 DEF at
          <6> QED
            BY <1>8, <2>3, <6>2
        <5>4. F[k + 1][m + 1]
          BY <1>11, <5>1, <5>3
        <5>5. M[i + 1][m + 1]
          <6>1. m + 1 \in 1 .. Len(t) + 1
            BY <5>1 DEF m
          <6>2. M[Len(q) + 1][m + 1] <=> m + 1 > Len(t)
            BY <1>10, <6>1, TableCells
          <6> QED
            BY <4>2, <5>1, <6>2 DEF n, m
        <5> QED
          BY <3>1, <3>2, <3>4, <4>1, <5>1, <5>4, <5>5
      <4>3. CASE i # n
        <5>1. \A x \in 1 .. m + 1 : F[k + 1][x] <=> M[o][x]
          BY <1>14, <2>3, <4>3 DEF o
        <5>2. \A x \in j .. m + 1 : x \in 1 .. m + 1
          BY <1>1
        <5> QED
          BY <3>1, <3>2, <3>4, <4>1, <5>1, <5>2
      <4> QED
        BY <4>2, <4>3
    <3>5. CASE q[i] # Percent
      <4>0. \A x \in 1 .. m + 1 : F[k + 1][x] <=> M[o][x]
        BY <1>14, <2>3, <3>5 DEF o
      <4>1. CASE q[i] = Underscore
        <5>1. r.items[k].kind = "any" /\ o = i + 1
          BY <2>4, <3>3, <4>1 DEF RegexItem, Plainly, Item, Percent, Underscore, Backslash
        <5> QED
          BY <3>0, <3>1, <3>2, <4>0, <4>1, <5>1
      <4>2. CASE q[i] # Underscore
        <5>1. r.items[k] = Item("byte", Literal(q, i))
          <6>1. CASE q[i] = Backslash
            <7>1. ~IsAlphanumeric(q[i + 1])
              BY <2>2, <6>1 DEF NoLetters
            <7> QED
              BY <3>3, <6>1, <7>1 DEF RegexItem, Escaped, Literal
          <6>2. CASE q[i] # Backslash
            BY <3>3, <3>5, <4>2, <6>2 DEF RegexItem, Plainly, Literal
          <6> QED
            BY <6>1, <6>2
        <5>2. r.items[k].kind \notin {"run", "any"}
          BY <5>1 DEF Item
        <5>3. r.items[k] = Item("byte", t[j]) <=> Literal(q, i) = t[j]
          BY <5>1 DEF Item
        <5>4. q[i] \notin Wildcards
          BY <3>5, <4>2 DEF Wildcards
        <5> QED
          BY <3>0, <3>1, <3>2, <4>0, <5>2, <5>3, <5>4
      <4> QED
        BY <4>1, <4>2
    <3> QED
      BY <3>4, <3>5
  <2> QED
    BY <2>6 DEF k
<1>15. Same(first)
  <2> DEFINE S == {i \in B : Same(i)}
  <2>1. ASSUME NEW b \in S, first <= b, b <= last + 1 PROVE Same(first)
    <3>1. ASSUME NEW i \in B, first <= i /\ i < b /\ Onwards(q, i) \in S PROVE i \in S
      <4>1. i <= last
        BY <1>1, <1>2, <1>4, <2>1, <3>1
      <4>2. Same(Onwards(q, i))
        BY <3>1
      <4> HIDE DEF Same
      <4>3. Same(i)
        BY <1>14, <3>1, <4>1, <4>2
      <4> QED
        BY <4>3
    <3>2. \A i \in B : first <= i /\ i <= b => i \in S
      <4>1. b \in B
        OBVIOUS
      <4> HIDE DEF S
      <4> QED
        BY <1>5, <2>1, <3>1, <4>1, CharactersDown
    <3>3. first <= first
      BY <1>2
    <3> HIDE DEF Same
    <3> QED
      BY <1>5, <2>1, <3>2, <3>3
  <2>2. first <= last /\ first <= last + 1 /\ last <= last + 1 /\ last + 1 <= last + 1
    BY <1>1, <1>2, <1>4
  <2> HIDE DEF Same
  <2>3. CASE q[n] # Percent \/ last # n
    <3>1. last + 1 \in S
      BY <1>4, <1>13, <2>3
    <3> QED
      BY <2>1, <2>2, <3>1
  <2>4. CASE q[n] = Percent /\ last = n
    <3>1. last \in B
      BY <2>4 DEF n
    <3>2. last <= last
      BY <2>2, <1>4
    <3>3. Same(last)
      BY <1>14, <2>2, <2>4, <3>1, <3>2
    <3>4. last \in S
      BY <3>1, <3>3
    <3> QED
      BY <2>1, <2>2, <3>4
  <2> QED
    BY <2>3, <2>4
<1>16. \A j \in 1 .. m + 1 : F[1][j] <=> M[first][j]
  <2>1. at(first) = 1
    BY <1>8 DEF L
  <2> QED
    BY <1>15, <2>1
<1>17. RegexMatches(r, t) <=> M[1][1]
  <2>1. 1 \in 1 .. m + 1
    BY <1>1
  <2>2. CASE q[1] # Percent
    <3>1. first = 1
      <4> SUFFICES ASSUME first # 1 PROVE FALSE
        OBVIOUS
      <4>1. 1 \in 1 .. first - 1
        BY <1>2
      <4> QED
        BY <1>2, <2>2, <4>1
    <3>2. RegexMatches(r, t) <=> F[1][1]
      <4>1. r.begins
        BY <1>7, <2>2
      <4>2. RegexMatches(r, t) = \E j \in 1 .. 1 : F[1][j]
        BY <1>9, <4>1
      <4> QED
        BY <4>2
    <3> QED
      BY <1>16, <2>1, <3>1, <3>2
  <2>3. CASE q[1] = Percent
    <3>1. 1 < first /\ 1 \in 1 .. Len(q) + 1 /\ first \in 1 .. Len(q) + 1
      BY <1>1, <1>2, <2>3 DEF n
    <3>2. M[1][1] <=> \E k \in 1 .. m + 1 : M[first][k]
      <4>1. LeadsTo(M, Len(t), 1, first)
        BY <1>2, <1>10, <3>1, PercentRun
      <4> QED
        BY <2>1, <4>1 DEF m, LeadsTo
    <3>3. RegexMatches(r, t) = \E j \in 1 .. m + 1 : F[1][j]
      <4>1. ~r.begins
        BY <1>7, <2>3
      <4> QED
        BY <1>9, <4>1 DEF m
    <3> QED
      BY <1>16, <3>2, <3>3
  <2> QED
    BY <2>2, <2>3
<1>18. RegexMatches(r, t) = Like(q, t)
  <2>1. M[1][1] \in BOOLEAN
    <3>1. 1 \in 1 .. Len(t) + 1 /\ 1 \in 1 .. Len(q) + 2
      BY <1>1 DEF n, m
    <3> QED
      BY <1>10, <3>1, TableCells
  <2>2. RegexMatches(r, t) \in BOOLEAN
    BY <1>9
  <2> QED
    BY <1>10, <1>17, <2>1, <2>2
<1>19. r # Refused
  BY <1>7 DEF Refused
<1> QED
  BY <1>18, <1>19 DEF r

-----------------------------------------------------------------------------
(* Every pattern and text that is grown.                                   *)

\* A byte is escaped in a pattern if it is in a longer one.
LEMMA EscapedIs ==
    ASSUME p \in Seq(Nat), NEW e \in [0 .. Len(p) + 1 -> BOOLEAN], Escapes(e, p, Len(p) + 1)
    PROVE  \A i \in 1 .. Len(p) : EscapedAt(i) <=> e[i]
<1> DEFINE n == Len(p)
           g == CHOOSE g : Escapes(g, p, Len(p))
           S == {i \in 1 .. n : g[i] <=> e[i]}
<1>1. n \in Nat
  OBVIOUS
<1>2. Escapes(g, p, n)
  <2>1. \E f : Escapes(f, p, Len(p))
    BY <1>1, EscapeFunction
  <2> QED
    BY <2>1
<1>3. \A i : EscapedAt(i) = g[i]
  BY Zenon DEF EscapedAt, Escapes
<1> HIDE DEF g, n
<1>4. \A j \in 0 .. n : g[j] = (j > 1 /\ p[j - 1] = Backslash /\ ~g[j - 1])
  BY <1>2 DEF Escapes
<1>5. \A j \in 0 .. n + 1 : e[j] = (j > 1 /\ p[j - 1] = Backslash /\ ~e[j - 1])
  BY DEF Escapes, n
<1>6. CASE n = 0
  BY <1>6 DEF n
<1>7. CASE n # 0
  <2>1. 1 \in S
    BY <1>1, <1>4, <1>5, <1>7
  <2>2. ASSUME NEW i \in 1 + 1 .. n, i - 1 \in S PROVE i \in S
    <3>1. i \in 1 .. n /\ i > 1 /\ i \in 0 .. n /\ i \in 0 .. n + 1
      BY <1>1
    <3>2. g[i] = (p[i - 1] = Backslash /\ ~g[i - 1])
      BY <1>4, <3>1
    <3>3. e[i] = (p[i - 1] = Backslash /\ ~e[i - 1])
      BY <1>5, <3>1
    <3> QED
      BY <2>2, <3>1, <3>2, <3>3
  <2>3. 1 .. n \subseteq S
    <3> HIDE DEF S
    <3> QED
      BY <1>1, <2>1, <2>2, Upwards
  <2> QED
    BY <1>3, <2>3 DEF n
<1> QED
  BY <1>6, <1>7

\* Where the characters of a pattern begin.
Begins == {i \in 1 .. Len(p) : ~EscapedAt(i)} \cup {Len(p) + 1}

\* A well-formed pattern is read character by character at these places.
LEMMA PatternReads ==
    ASSUME p \in Seq(Nat), WellFormedPattern(p)
    PROVE  Reads(p, Begins)
<1>0. Len(p) \in Nat /\ Len(p) + 1 \in Nat
  OBVIOUS
<1>1. PICK e : Escapes(e, p, Len(p) + 1) /\ e \in [0 .. Len(p) + 1 -> BOOLEAN]
  BY <1>0, EscapeFunction
<1> DEFINE B == {i \in 1 .. Len(p) + 1 : ~e[i]}
<1>2. Reads(p, B)
  BY <1>1, WellFormedReads
<1>3. \A i \in 1 .. Len(p) : EscapedAt(i) <=> e[i]
  BY <1>1, EscapedIs
<1>4. B = Begins
  <2>1. Len(p) + 1 \in B
    BY <1>2 DEF Reads
  <2>2. \A i \in 1 .. Len(p) + 1 : i # Len(p) + 1 => i \in 1 .. Len(p)
    BY <1>0
  <2> QED
    BY <1>0, <1>3, <2>1, <2>2 DEF Begins
<1> QED
  BY <1>2, <1>4

\* The patterns and texts are sequences of bytes.
LikeCutType ==
    /\ p \in Seq(PatternBytes) /\ p # << >> /\ s \in Seq(TextBytes)
    /\ Len(p) <= MaxPattern

\* What is grown is a pattern of at least one byte and at most MaxPattern, and
\* a text, of the bytes given.
THEOREM BytesOnly == Spec => []LikeCutType
<1>1. Init => LikeCutType
  <2> SUFFICES ASSUME Init PROVE LikeCutType
    OBVIOUS
  <2>1. PICK b \in PatternBytes : p = <<b>>
    BY DEF Init
  <2>2. p \in Seq(PatternBytes) /\ Len(p) = 1 /\ p # << >>
    BY <2>1
  <2>3. s \in Seq(TextBytes)
    BY DEF Init
  <2> QED
    BY <2>2, <2>3, BytesAssumption DEF LikeCutType
<1>2. LikeCutType /\ [Next]_vars => LikeCutType'
  <2> SUFFICES ASSUME LikeCutType, [Next]_vars PROVE LikeCutType'
    OBVIOUS
  <2>1. CASE ExtendPattern
    BY <2>1, BytesAssumption DEF ExtendPattern, LikeCutType
  <2>2. CASE ExtendText
    BY <2>2 DEF ExtendText, LikeCutType
  <2>3. CASE UNCHANGED vars
    BY <2>3 DEF vars, LikeCutType
  <2> QED
    BY <2>1, <2>2, <2>3 DEF Next
<1> QED
  BY <1>1, <1>2, PTL DEF Spec

\* Bytes are numbers.
LEMMA BytesAreNumbers ==
    ASSUME LikeCutType
    PROVE  p \in Seq(Nat) /\ s \in Seq(Nat) /\ Len(p) \in Nat \ {0}
<1>1. PatternBytes \subseteq Nat /\ TextBytes \subseteq Nat
  BY BytesAssumption
<1>2. p \in Seq(Nat)
  BY <1>1, SeqMonotonic DEF LikeCutType
<1>3. s \in Seq(Nat)
  BY <1>1, SeqMonotonic DEF LikeCutType
<1> QED
  BY <1>2, <1>3 DEF LikeCutType

\* The regular expression that likePatternToRegex makes of a pattern of any
\* length, over any bytes, finds exactly the texts that LIKE finds with the
\* pattern, whatever wildcards and escapes stand in it, and it refuses only a
\* pattern of percent signs alone: RegexMeansLike, of every text.
THEOREM RegexIsTheSame == Spec => []RegexMeansLike
<1>1. ASSUME LikeCutType PROVE RegexMeansLike
  <2> SUFFICES ASSUME WellFormedPattern(p), ~EscapedLetter, ~EscapedPercentEnds
               PROVE  IF \A i \in 1 .. Len(p) : p[i] = Percent THEN LikePatternToRegex(p) = Refused
                      ELSE /\ LikePatternToRegex(p) # Refused
                           /\ RegexMatches(LikePatternToRegex(p), s) = Like(p, s)
    BY DEF RegexMeansLike
  <2>1. p \in Seq(Nat) /\ s \in Seq(Nat) /\ Len(p) \in Nat \ {0}
    BY <1>1, BytesAreNumbers
  <2>2. Reads(p, Begins)
    BY <2>1, PatternReads
  <2>3. NoLetters(p, Begins)
    <3> SUFFICES ASSUME NEW i \in Begins, i # Len(p) + 1, p[i] = Backslash, IsAlphanumeric(p[i + 1]) PROVE FALSE
      BY DEF NoLetters
    <3>1. i \in 1 .. Len(p) /\ i + 1 \notin Begins /\ i + 1 \in 1 .. Len(p)
      BY <2>1, <2>2, NextCharacter
    <3>2. i + 1 \in 2 .. Len(p) /\ EscapedAt(i + 1)
      BY <2>1, <3>1 DEF Begins
    <3> QED
      BY <3>2 DEF EscapedLetter
  <2>4. p[Len(p)] = Percent => Len(p) \in Begins
    BY <2>1 DEF EscapedPercentEnds, Begins
  <2>5. /\ SkipForward(p, 1, {Percent}) # Len(p) + 1 => p[SkipForward(p, 1, {Percent})] # Percent
        /\ \A i \in 1 .. SkipForward(p, 1, {Percent}) - 1 : p[i] = Percent
        /\ SkipForward(p, 1, {Percent}) \in 1 .. Len(p) + 1
    <3>1. 1 \in 1 .. Len(p) + 1
      BY <2>1
    <3> QED
      BY <2>1, <3>1, SkipsForward
  <2>6. CASE \A i \in 1 .. Len(p) : p[i] = Percent
    <3>1. SkipForward(p, 1, {Percent}) > Len(p)
      BY <2>1, <2>5, <2>6
    <3>2. LikePatternToRegex(p) = Refused
      BY <3>1 DEF LikePatternToRegex
    <3> QED
      BY <2>6, <3>2
  <2>7. CASE ~\A i \in 1 .. Len(p) : p[i] = Percent
    <3>1. SkipForward(p, 1, {Percent}) # Len(p) + 1
      <4> DEFINE f == SkipForward(p, 1, {Percent})
      <4> SUFFICES ASSUME f = Len(p) + 1 PROVE FALSE
        OBVIOUS
      <4>1. \A i \in 1 .. f - 1 : p[i] = Percent
        BY <2>5
      <4> HIDE DEF f
      <4>2. \A i \in 1 .. Len(p) : i \in 1 .. f - 1
        BY <2>1
      <4> QED
        BY <2>7, <4>1, <4>2
    <3> QED
      BY <2>1, <2>2, <2>3, <2>4, <2>7, <3>1, RegexIsLike
  <2> QED
    BY <2>6, <2>7
<1> QED
  BY <1>1, BytesOnly, PTL

-----------------------------------------------------------------------------
(* Where the middle parts begin.                                           *)

\* The walk of MiddleStarts: what it makes of a byte in each of its stages.
WalkRow(q, end, W, j) ==
    [stage \in 0 .. 2 |->
        LET next == j + IF q[j] = Backslash THEN 2 ELSE 1
            literal == q[j] \notin Wildcards
        IN  CASE j >= end -> << >>
              [] j < end /\ stage = 0 -> W[next][IF literal THEN 1 ELSE 0]
              [] j < end /\ stage = 1 -> W[next][IF q[j] = Percent THEN 2 ELSE 1]
              [] OTHER -> IF literal THEN <<j>> \o W[next][1] ELSE W[next][2]]
IsWalk(W, q, end) == W = [j \in 1 .. Len(q) + 2 |-> WalkRow(q, end, W, j)]
RowStep(q, j, v) ==
    [stage \in 0 .. 2 |->
        CASE stage = 0 -> v[IF q[j] \notin Wildcards THEN 1 ELSE 0]
          [] stage = 1 -> v[IF q[j] = Percent THEN 2 ELSE 1]
          [] OTHER -> IF q[j] \notin Wildcards THEN <<j>> \o v[1] ELSE v[2]]
RowEnd == [stage \in 0 .. 2 |-> << >>]
LEMMA WalkRowIs ==
    ASSUME NEW q, NEW end \in Int, NEW W, NEW j \in Int
    PROVE  WalkRow(q, end, W, j) = IF j >= end THEN RowEnd ELSE RowStep(q, j, W[Onwards(q, j)])
<1>1. CASE j >= end
  <2>1. \A stage \in 0 .. 2 : WalkRow(q, end, W, j)[stage] = << >>
    BY <1>1 DEF WalkRow
  <2>2. WalkRow(q, end, W, j) = [stage \in 0 .. 2 |-> << >>]
    BY <1>1 DEF WalkRow
  <2> QED
    BY <1>1, <2>2 DEF RowEnd
<1>2. CASE ~(j >= end)
  <2>1. j < end
    BY <1>2
  <2>2. ASSUME NEW stage \in 0 .. 2
        PROVE  WalkRow(q, end, W, j)[stage] = RowStep(q, j, W[Onwards(q, j)])[stage]
    <3>1. stage = 0 \/ stage = 1 \/ stage = 2
      OBVIOUS
    <3>2. CASE stage = 0
      BY <1>2, <2>1, <3>2 DEF WalkRow, RowStep, Onwards
    <3>3. CASE stage = 1
      BY <1>2, <2>1, <3>3 DEF WalkRow, RowStep, Onwards
    <3>4. CASE stage = 2
      BY <1>2, <2>1, <3>4 DEF WalkRow, RowStep, Onwards
    <3> QED
      BY <3>1, <3>2, <3>3, <3>4
  <2>3. /\ WalkRow(q, end, W, j) = [stage \in 0 .. 2 |-> WalkRow(q, end, W, j)[stage]]
        /\ RowStep(q, j, W[Onwards(q, j)]) = [stage \in 0 .. 2 |-> RowStep(q, j, W[Onwards(q, j)])[stage]]
    BY DEF WalkRow, RowStep
  <2>4. WalkRow(q, end, W, j) = RowStep(q, j, W[Onwards(q, j)])
    BY <2>2, <2>3, Zenon
  <2> QED
    BY <1>2, <2>4
<1> QED
  BY <1>1, <1>2

Stages == [0 .. 2 -> Seq(Nat)]
Steps(W, q, end) ==
    \A j \in 1 .. Len(q) + 2 : W[j] = IF j >= end THEN RowEnd ELSE RowStep(q, j, W[Onwards(q, j)])
LEMMA RowsAreStages ==
    ASSUME NEW q, NEW j \in Nat, NEW v \in Stages
    PROVE  RowStep(q, j, v) \in Stages /\ RowEnd \in Stages
<1>1. v[0] \in Seq(Nat) /\ v[1] \in Seq(Nat) /\ v[2] \in Seq(Nat)
  BY DEF Stages
<1>2. <<j>> \o v[1] \in Seq(Nat)
  BY <1>1
<1>3. ASSUME NEW stage \in 0 .. 2
      PROVE  (CASE stage = 0 -> v[IF q[j] \notin Wildcards THEN 1 ELSE 0]
                [] stage = 1 -> v[IF q[j] = Percent THEN 2 ELSE 1]
                [] OTHER -> IF q[j] \notin Wildcards THEN <<j>> \o v[1] ELSE v[2]) \in Seq(Nat)
  <2> DEFINE w == <<j>> \o v[1]
  <2>1. w \in Seq(Nat)
    BY <1>2
  <2> HIDE DEF w
  <2>2. (CASE stage = 0 -> v[IF q[j] \notin Wildcards THEN 1 ELSE 0]
           [] stage = 1 -> v[IF q[j] = Percent THEN 2 ELSE 1]
           [] OTHER -> IF q[j] \notin Wildcards THEN w ELSE v[2]) \in Seq(Nat)
    BY <1>1, <2>1
  <2> QED
    BY <2>2 DEF w
<1>4. RowStep(q, j, v) \in Stages
  BY <1>3, Zenon DEF RowStep, Stages
<1>5. RowEnd \in Stages
  BY DEF RowEnd, Stages
<1> QED
  BY <1>4, <1>5

LEMMA WalkSteps ==
    ASSUME NEW q \in Seq(Nat), NEW end \in 1 .. Len(q) + 1
    PROVE  \E W : /\ Steps(W, q, end)
                  /\ \A i : MiddleStarts(q, i, end) = IF i < end THEN <<i>> \o W[i][0] ELSE << >>
<1> DEFINE n == Len(q)
           D == 1 .. n + 2
           V == Stages
           rank == [j \in D |-> (n + 2) - j]
           halt == {j \in D : j >= end}
           base == [j \in D |-> RowEnd]
           step == [j \in D |-> [v \in V |-> RowStep(q, j, v)]]
           next == [j \in D |-> Onwards(q, j)]
<1>0. n \in Nat /\ end \in 1 .. n + 1
  OBVIOUS
<1> HIDE DEF n
<1>1. n + 2 \in Nat /\ rank \in [D -> 0 .. n + 2]
  BY <1>0
<1>2. RowEnd \in V /\ \A j \in D : \A v \in V : RowStep(q, j, v) \in V
  <2>1. RowEnd \in V
    BY DEF RowEnd, Stages
  <2>2. \A j \in D : j \in Nat
    OBVIOUS
  <2> QED
    BY <2>1, <2>2, RowsAreStages
<1>3. ASSUME NEW j \in D, j \notin halt PROVE next[j] \in D /\ rank[next[j]] < rank[j]
  BY <1>0, <1>3 DEF Onwards
<1>4. ASSUME NEW j \in D PROVE base[j] \in V /\ step[j] \in [V -> V]
  <2>1. base[j] = RowEnd /\ step[j] = [v \in V |-> RowStep(q, j, v)]
    OBVIOUS
  <2> HIDE DEF V, base, step
  <2> QED
    BY <1>2, <2>1
<1>5. Descends(D, V, n + 2, rank, halt, base, step, next)
  <2> HIDE DEF D, V, rank, halt, base, step, next
  <2> QED
    BY <1>1, <1>3, <1>4 DEF Descends
<1>6. PICK F : Follows(F, D, V, halt, base, step, next)
  <2> HIDE DEF D, V, rank, halt, base, step, next
  <2> QED
    BY <1>5, RankedFunction
<1>7. F \in [D -> V] /\ \A j \in D : F[j] = IF j \in halt THEN base[j] ELSE step[j][F[next[j]]]
  BY <1>6 DEF Follows
<1>8. ASSUME NEW j \in D
      PROVE  F[j] = IF j >= end THEN RowEnd ELSE RowStep(q, j, F[Onwards(q, j)])
  <2>1. (j \in halt <=> j >= end) /\ base[j] = RowEnd /\ next[j] = Onwards(q, j)
        /\ step[j] = [v \in V |-> RowStep(q, j, v)]
    BY <1>0
  <2>2. ASSUME ~(j >= end) PROVE step[j][F[next[j]]] = RowStep(q, j, F[Onwards(q, j)])
    <3>1. next[j] \in D
      <4>1. j \notin halt
        BY <2>1, <2>2
      <4> QED
        BY <1>3, <4>1
    <3>2. F[Onwards(q, j)] \in V
      <4> HIDE DEF D, V, next
      <4> QED
        BY <1>7, <2>1, <3>1
    <3> HIDE DEF D, V, next, step
    <3> QED
      BY <2>1, <3>2
  <2>3. F[j] = IF j \in halt THEN base[j] ELSE step[j][F[next[j]]]
    <3> HIDE DEF D, V, next, step, base, halt
    <3> QED
      BY <1>7
  <2> HIDE DEF D, V, next, step, base, halt
  <2> QED
    BY <2>1, <2>2, <2>3
<1>9. IsWalk(F, q, end)
  <2>1. ASSUME NEW j \in D PROVE F[j] = WalkRow(q, end, F, j)
    <3>1. j \in Int /\ end \in Int
      BY <1>0
    <3> QED
      BY <1>8, <3>1, WalkRowIs
  <2> HIDE DEF V
  <2>2. F = [j \in D |-> WalkRow(q, end, F, j)]
    BY <1>7, <2>1, Zenon
  <2> QED
    BY <2>2 DEF IsWalk, n
<1> DEFINE G == CHOOSE G : IsWalk(G, q, end)
<1>10. IsWalk(G, q, end)
  BY <1>9
<1>11. \A i : MiddleStarts(q, i, end) = IF i < end THEN <<i>> \o G[i][0] ELSE << >>
  BY Zenon DEF MiddleStarts, IsWalk, WalkRow
<1> HIDE DEF G
<1>12. ASSUME NEW j \in D
       PROVE  G[j] = IF j >= end THEN RowEnd ELSE RowStep(q, j, G[Onwards(q, j)])
  <2>1. j \in Int /\ end \in Int
    BY <1>0
  <2>2. G[j] = WalkRow(q, end, G, j)
    <3>1. G = [k \in D |-> WalkRow(q, end, G, k)]
      BY <1>10 DEF IsWalk, n
    <3> HIDE DEF D
    <3> QED
      BY <3>1, Zenon
  <2> QED
    BY <2>1, <2>2, WalkRowIs
<1>13. Steps(G, q, end)
  BY <1>12 DEF Steps, n
<1> QED
  BY <1>11, <1>13

\* The stages of one byte from those of the next character.
LEMMA WalkCells ==
    ASSUME NEW q \in Seq(Nat), NEW end \in 1 .. Len(q) + 1, NEW W, Steps(W, q, end), NEW j \in 1 .. Len(q) + 1
    PROVE  /\ j >= end => \A stage \in 0 .. 2 : W[j][stage] = << >>
           /\ j < end =>
                 /\ W[j][0] = W[Onwards(q, j)][IF q[j] \notin Wildcards THEN 1 ELSE 0]
                 /\ W[j][1] = W[Onwards(q, j)][IF q[j] = Percent THEN 2 ELSE 1]
                 /\ W[j][2] = IF q[j] \notin Wildcards THEN <<j>> \o W[Onwards(q, j)][1] ELSE W[Onwards(q, j)][2]
<1>1. j \in 1 .. Len(q) + 2
  OBVIOUS
<1>2. CASE j >= end
  <2>1. W[j] = RowEnd
    BY <1>1, <1>2 DEF Steps
  <2> QED
    BY <1>2, <2>1 DEF RowEnd
<1>3. CASE j < end
  <2>1. W[j] = RowStep(q, j, W[Onwards(q, j)])
    BY <1>1, <1>3 DEF Steps
  <2>2. 0 \in 0 .. 2 /\ 1 \in 0 .. 2 /\ 2 \in 0 .. 2
    OBVIOUS
  <2> QED
    BY <1>3, <2>1, <2>2 DEF RowStep
<1> QED
  BY <1>2, <1>3

\* The walk begins parts only at characters of the range.
Positions(B, j, end) == {x \in B : j <= x /\ x < end}
LEMMA StartsLie ==
    ASSUME NEW q \in Seq(Nat), NEW B, Reads(q, B), NEW end \in B, NEW W, Steps(W, q, end)
    PROVE  \A j \in B : j <= end => \A stage \in 0 .. 2 : W[j][stage] \in Seq(Positions(B, j, end))
<1> DEFINE S == {j \in B : \A stage \in 0 .. 2 : W[j][stage] \in Seq(Positions(B, j, end))}
<1>1. 1 \in B /\ B \subseteq 1 .. Len(q) + 1 /\ end \in 1 .. Len(q) + 1 /\ Len(q) \in Nat
  BY DEF Reads
<1>2. end \in S
  <2>1. \A stage \in 0 .. 2 : W[end][stage] = << >>
    <3>1. end \in 1 .. Len(q) + 2 /\ end >= end
      BY <1>1
    <3>2. W[end] = RowEnd
      BY <3>1 DEF Steps
    <3> QED
      BY <3>2 DEF RowEnd
  <2>2. << >> \in Seq(Positions(B, end, end))
    OBVIOUS
  <2> QED
    BY <2>1, <2>2
<1>3. ASSUME NEW j \in B, 1 <= j /\ j < end /\ Onwards(q, j) \in S PROVE j \in S
  <2> DEFINE o == Onwards(q, j)
             P == Positions(B, j, end)
  <2>1. o \in B /\ j < o /\ j \in 1 .. Len(q) + 1 /\ o \in 1 .. Len(q) + 1
    <3>1. j # Len(q) + 1
      BY <1>1, <1>3
    <3> QED
      BY <1>1, <3>1, NextCharacter
  <2>2. \A stage \in 0 .. 2 : W[o][stage] \in Seq(Positions(B, o, end))
    BY <1>3
  <2> HIDE DEF o
  <2>3. Positions(B, o, end) \subseteq P
    <3>1. \A x \in B : x \in Nat
      BY <1>1
    <3>2. ASSUME NEW x \in B, o <= x PROVE j <= x
      BY <2>1, <3>1, <3>2
    <3> QED
      BY <3>2 DEF Positions
  <2>4. j \in P
    BY <1>1, <1>3 DEF Positions
  <2> HIDE DEF P
  <2>5. W[o][0] \in Seq(P) /\ W[o][1] \in Seq(P) /\ W[o][2] \in Seq(P)
    <3>1. 0 \in 0 .. 2 /\ 1 \in 0 .. 2 /\ 2 \in 0 .. 2
      OBVIOUS
    <3> QED
      BY <2>2, <2>3, <3>1, SeqMonotonic
  <2>6. <<j>> \o W[o][1] \in Seq(P)
    BY <2>4, <2>5
  <2>7. /\ W[j][0] = W[o][IF q[j] \notin Wildcards THEN 1 ELSE 0]
        /\ W[j][1] = W[o][IF q[j] = Percent THEN 2 ELSE 1]
        /\ W[j][2] = IF q[j] \notin Wildcards THEN <<j>> \o W[o][1] ELSE W[o][2]
    BY <1>1, <1>3, <2>1, WalkCells DEF o
  <2>8. W[j][0] \in Seq(P) /\ W[j][1] \in Seq(P) /\ W[j][2] \in Seq(P)
    BY <2>5, <2>6, <2>7
  <2>9. \A stage \in 0 .. 2 : W[j][stage] \in Seq(P)
    <3>1. \A stage \in 0 .. 2 : stage = 0 \/ stage = 1 \/ stage = 2
      OBVIOUS
    <3> QED
      BY <2>8, <3>1
  <2> QED
    BY <2>9 DEF P
<1>4. \A j \in B : 1 <= j /\ j <= end => j \in S
  <2> HIDE DEF S
  <2> QED
    BY <1>1, <1>2, <1>3, CharactersDown
<1>5. \A j \in B : 1 <= j
  BY <1>1
<1> QED
  BY <1>4, <1>5

\* It begins them, but for the first one, behind a percent sign and the
\* wildcards that follow it.
BehindPercent(q, x) == \E c \in 1 .. x - 1 : q[c] = Percent /\ \A i \in c .. x - 1 : q[i] \in Wildcards
LEMMA StartsBehindPercent ==
    ASSUME NEW q \in Seq(Nat), NEW B, Reads(q, B), NEW end \in B, NEW W, Steps(W, q, end),
           NEW j \in B, j <= end
    PROVE  W[j][0] \in Seq({x \in B : BehindPercent(q, x)})
<1> DEFINE G == {x \in B : BehindPercent(q, x)}
           S == {k \in B : /\ W[k][0] \in Seq(G) /\ W[k][1] \in Seq(G)
                           /\ BehindPercent(q, k) => W[k][2] \in Seq(G)}
<1>1. 1 \in B /\ B \subseteq 1 .. Len(q) + 1 /\ end \in 1 .. Len(q) + 1 /\ Len(q) \in Nat
  BY DEF Reads
<1>2. end \in S
  <2>1. W[end][0] = << >> /\ W[end][1] = << >> /\ W[end][2] = << >>
    <3>1. end \in 1 .. Len(q) + 2 /\ end >= end
      BY <1>1
    <3>2. W[end] = RowEnd
      BY <3>1 DEF Steps
    <3> QED
      BY <3>2 DEF RowEnd
  <2>2. << >> \in Seq(G)
    OBVIOUS
  <2> QED
    BY <2>1, <2>2
<1>3. ASSUME NEW k \in B, 1 <= k /\ k < end /\ Onwards(q, k) \in S PROVE k \in S
  <2> DEFINE o == Onwards(q, k)
  <2>1. k \in 1 .. Len(q) /\ (q[k] # Backslash => o = k + 1)
    <3>1. k # Len(q) + 1
      BY <1>1, <1>3
    <3> QED
      BY <3>1, NextCharacter
  <2>2. W[o][0] \in Seq(G) /\ W[o][1] \in Seq(G) /\ (BehindPercent(q, o) => W[o][2] \in Seq(G))
    BY <1>3
  <2>3. /\ W[k][0] = W[o][IF q[k] \notin Wildcards THEN 1 ELSE 0]
        /\ W[k][1] = W[o][IF q[k] = Percent THEN 2 ELSE 1]
        /\ W[k][2] = IF q[k] \notin Wildcards THEN <<k>> \o W[o][1] ELSE W[o][2]
    BY <1>1, <1>3, <2>1, WalkCells
  <2>4. q[k] \in Wildcards => o = k + 1
    BY <2>1 DEF Wildcards, Percent, Underscore, Backslash
  <2> HIDE DEF o, G
  <2>5. W[k][0] \in Seq(G)
    BY <2>2, <2>3
  <2>6. W[k][1] \in Seq(G)
    <3>1. CASE q[k] = Percent
      <4>1. o = k + 1 /\ k \in 1 .. (k + 1) - 1 /\ \A i \in k .. (k + 1) - 1 : q[i] \in Wildcards
        BY <2>1, <2>4, <3>1 DEF Wildcards
      <4>2. BehindPercent(q, o)
        BY <3>1, <4>1 DEF BehindPercent
      <4> QED
        BY <2>2, <2>3, <3>1, <4>2
    <3>2. CASE q[k] # Percent
      BY <2>2, <2>3, <3>2
    <3> QED
      BY <3>1, <3>2
  <2>7. ASSUME BehindPercent(q, k) PROVE W[k][2] \in Seq(G)
    <3>1. CASE q[k] \notin Wildcards
      <4>1. k \in G
        BY <2>7 DEF G
      <4>2. <<k>> \o W[o][1] \in Seq(G)
        BY <2>2, <4>1
      <4> QED
        BY <2>3, <3>1, <4>2
    <3>2. CASE q[k] \in Wildcards
      <4>1. PICK c \in 1 .. k - 1 : q[c] = Percent /\ \A i \in c .. k - 1 : q[i] \in Wildcards
        BY <2>7 DEF BehindPercent
      <4>2. c \in 1 .. (k + 1) - 1 /\ \A i \in c .. (k + 1) - 1 : i = k \/ i \in c .. k - 1
        BY <2>1, <4>1
      <4>3. \A i \in c .. (k + 1) - 1 : q[i] \in Wildcards
        BY <3>2, <4>1, <4>2
      <4>4. BehindPercent(q, o)
        BY <2>4, <3>2, <4>1, <4>2, <4>3 DEF BehindPercent
      <4> QED
        BY <2>2, <2>3, <3>2, <4>4
    <3> QED
      BY <3>1, <3>2
  <2> QED
    BY <2>5, <2>6, <2>7
<1>4. \A k \in B : 1 <= k /\ k <= end => k \in S
  <2> HIDE DEF S
  <2> QED
    BY <1>1, <1>2, <1>3, CharactersDown
<1>5. 1 <= j
  BY <1>1
<1> QED
  BY <1>4, <1>5

\* Wildcards that follow one that is not escaped are not escaped either.
LEMMA WildcardRun ==
    ASSUME NEW q \in Seq(Nat), NEW B, Reads(q, B), NEW a \in B, NEW g \in a .. Len(q) + 1,
           \A i \in a .. g - 1 : q[i] \in Wildcards
    PROVE  a .. g \subseteq B
<1>1. Len(q) \in Nat /\ a \in 1 .. Len(q) + 1
  BY DEF Reads
<1>2. ASSUME NEW i \in a + 1 .. g, i - 1 \in B PROVE i \in B
  <2>1. i \in 2 .. Len(q) + 1 /\ i - 1 \in a .. g - 1
    BY <1>1
  <2>2. q[i - 1] # Backslash
    BY <2>1 DEF Wildcards, Percent, Underscore, Backslash
  <2> QED
    BY <2>1, <2>2 DEF Reads
<1>3. a \in Nat /\ g \in Nat
  BY <1>1
<1> QED
  BY <1>2, <1>3, Upwards

-----------------------------------------------------------------------------
(* The parts that are kept.                                                *)

IsKept(f, parts) ==
    f = [n \in 0 .. Len(parts) |->
            CASE n = 0 -> << >>
              [] n > 0 /\ parts[n] = Null -> f[n - 1]
              [] OTHER -> Append(f[n - 1], parts[n])]
KeptOf(parts) == LET f == CHOOSE f : IsKept(f, parts) IN f[Len(parts)]
Keeps(f, parts) ==
    /\ f[0] = << >>
    /\ \A n \in 1 .. Len(parts) : f[n] = IF parts[n] = Null THEN f[n - 1] ELSE Append(f[n - 1], parts[n])
LEMMA KeptSteps ==
    ASSUME NEW T, NEW parts \in Seq(T)
    PROVE  \E f : Keeps(f, parts) /\ KeptOf(parts) = f[Len(parts)]
<1> DEFINE N == Len(parts)
           D == 0 .. N
           V == Seq(T)
           rank == [n \in D |-> n]
           stop == {0}
           base == [n \in D |-> << >>]
           step == [n \in D |-> [v \in V |-> IF parts[n] = Null THEN v ELSE Append(v, parts[n])]]
           next == [n \in D |-> n - 1]
<1>0. N \in Nat /\ \A n \in 1 .. N : parts[n] \in T
  OBVIOUS
<1> HIDE DEF N
<1>1. rank \in [D -> 0 .. N] /\ \A n \in D : n \notin stop => next[n] \in D /\ rank[next[n]] < rank[n]
  BY <1>0
<1>2. ASSUME NEW n \in D PROVE base[n] \in V /\ (n \notin stop => step[n] \in [V -> V])
  <2>1. base[n] = << >> /\ << >> \in V
    OBVIOUS
  <2>2. ASSUME n \notin stop PROVE step[n] \in [V -> V]
    <3>1. parts[n] \in T
      BY <1>0, <2>2
    <3>2. \A v \in V : (IF parts[n] = Null THEN v ELSE Append(v, parts[n])) \in V
      BY <3>1
    <3>3. step[n] = [v \in V |-> IF parts[n] = Null THEN v ELSE Append(v, parts[n])]
      OBVIOUS
    <3> HIDE DEF V, step
    <3> QED
      BY <3>2, <3>3
  <2> HIDE DEF V, base, step
  <2> QED
    BY <2>1, <2>2
<1>3. Descends(D, V, N, rank, stop, base, step, next)
  <2> HIDE DEF D, V, rank, stop, base, step, next
  <2> QED
    BY <1>0, <1>1, <1>2 DEF Descends
<1>4. PICK F : Follows(F, D, V, stop, base, step, next)
  <2> HIDE DEF D, V, rank, stop, base, step, next
  <2> QED
    BY <1>3, RankedFunction
<1>5. F \in [D -> V] /\ \A n \in D : F[n] = IF n \in stop THEN base[n] ELSE step[n][F[next[n]]]
  BY <1>4 DEF Follows
<1>6. ASSUME NEW n \in D
      PROVE  F[n] = CASE n = 0 -> << >>
                      [] n > 0 /\ parts[n] = Null -> F[n - 1]
                      [] OTHER -> Append(F[n - 1], parts[n])
  <2>1. F[n] = IF n \in stop THEN base[n] ELSE step[n][F[next[n]]]
    <3> HIDE DEF D, V, next, step, base, stop
    <3> QED
      BY <1>5
  <2>2. CASE n = 0
    <3>1. n \in stop /\ base[n] = << >>
      BY <2>2
    <3> HIDE DEF D, V, next, step, base, stop
    <3> QED
      BY <2>1, <2>2, <3>1
  <2>3. CASE n # 0
    <3>1. n \notin stop /\ next[n] = n - 1 /\ next[n] \in D /\ n > 0
      <4>1. n \notin stop /\ next[n] = n - 1 /\ n > 0
        BY <2>3
      <4> HIDE DEF D, stop, next, rank
      <4> QED
        BY <1>1, <4>1
    <3>2. step[n] = [v \in V |-> IF parts[n] = Null THEN v ELSE Append(v, parts[n])]
      OBVIOUS
    <3>3. F[n - 1] \in V
      <4> HIDE DEF D, V, next
      <4> QED
        BY <1>5, <3>1
    <3> HIDE DEF D, V, next, step, base, stop
    <3>4. F[n] = IF parts[n] = Null THEN F[n - 1] ELSE Append(F[n - 1], parts[n])
      BY <2>1, <3>1, <3>2, <3>3
    <3> QED
      BY <2>3, <3>1, <3>4
  <2> QED
    BY <2>2, <2>3
<1>7. IsKept(F, parts)
  <2>1. F = [n \in D |-> F[n]]
    <3> HIDE DEF V
    <3> QED
      BY <1>5
  <2>2. F = [n \in D |-> CASE n = 0 -> << >>
                            [] n > 0 /\ parts[n] = Null -> F[n - 1]
                            [] OTHER -> Append(F[n - 1], parts[n])]
    BY <1>6, <2>1, Zenon
  <2> QED
    BY <2>2 DEF IsKept, N
<1> DEFINE G == CHOOSE G : IsKept(G, parts)
<1>8. IsKept(G, parts)
  BY <1>7
<1>9. KeptOf(parts) = G[Len(parts)]
  BY Zenon DEF KeptOf
<1> HIDE DEF G
<1>10. ASSUME NEW n \in D
       PROVE  G[n] = CASE n = 0 -> << >>
                       [] n > 0 /\ parts[n] = Null -> G[n - 1]
                       [] OTHER -> Append(G[n - 1], parts[n])
  BY <1>8, Zenon DEF IsKept, N
<1>11. Keeps(G, parts)
  <2>1. G[0] = << >>
    <3>1. 0 \in D
      BY <1>0
    <3> QED
      BY <1>10, <3>1
  <2>2. ASSUME NEW n \in 1 .. N PROVE G[n] = IF parts[n] = Null THEN G[n - 1] ELSE Append(G[n - 1], parts[n])
    <3>1. n \in D /\ n # 0 /\ n > 0
      BY <1>0
    <3>2. G[n] = CASE n = 0 -> << >>
                   [] n > 0 /\ parts[n] = Null -> G[n - 1]
                   [] OTHER -> Append(G[n - 1], parts[n])
      BY <1>10, <3>1
    <3> HIDE DEF D
    <3> QED
      BY <3>1, <3>2
  <2> QED
    BY <2>1, <2>2 DEF Keeps, N
<1> QED
  BY <1>9, <1>11

\* Every part that is not null is kept, and without one all of them are.
LEMMA PartsKept ==
    ASSUME NEW T, NEW parts \in Seq(T)
    PROVE  /\ KeptOf(parts) \in Seq(T)
           /\ \A n \in 1 .. Len(parts) : parts[n] # Null =>
                 \E k \in 1 .. Len(KeptOf(parts)) : KeptOf(parts)[k] = parts[n]
           /\ (\A n \in 1 .. Len(parts) : parts[n] # Null) => KeptOf(parts) = parts
           /\ (\A n \in 1 .. Len(parts) : parts[n] = Null) => KeptOf(parts) = << >>
<1> DEFINE N == Len(parts)
<1>0. N \in Nat /\ \A n \in 1 .. N : parts[n] \in T
  OBVIOUS
<1>1. PICK f : Keeps(f, parts) /\ KeptOf(parts) = f[N]
  BY KeptSteps
<1>2. f[0] = << >> /\ \A n \in 1 .. N : f[n] = IF parts[n] = Null THEN f[n - 1] ELSE Append(f[n - 1], parts[n])
  BY <1>1 DEF Keeps
<1> HIDE DEF N
<1> DEFINE S == {n \in 0 .. N :
              /\ f[n] \in Seq(T)
              /\ \A i \in 1 .. n : parts[i] # Null => \E k \in 1 .. Len(f[n]) : f[n][k] = parts[i]
              /\ (\A i \in 1 .. n : parts[i] # Null) => Len(f[n]) = n /\ \A i \in 1 .. n : f[n][i] = parts[i]
              /\ (\A i \in 1 .. n : parts[i] = Null) => f[n] = << >>}
<1>3. 0 \in S
  <2>1. f[0] \in Seq(T) /\ f[0] = << >> /\ Len(f[0]) = 0 /\ 0 \in 0 .. N
    BY <1>0, <1>2
  <2>2. \A i \in 1 .. 0 : FALSE
    OBVIOUS
  <2> QED
    BY <2>1, <2>2
<1>4. ASSUME NEW n \in 0 + 1 .. N, n - 1 \in S PROVE n \in S
  <2> DEFINE c == n - 1
  <2>0. n \in 1 .. N /\ n \in 0 .. N /\ c \in Nat /\ n = c + 1 /\ \A i \in 1 .. n : i = n \/ i \in 1 .. c
    BY <1>0
  <2>1. /\ f[c] \in Seq(T)
        /\ \A i \in 1 .. c : parts[i] # Null => \E k \in 1 .. Len(f[c]) : f[c][k] = parts[i]
        /\ (\A i \in 1 .. c : parts[i] # Null) => Len(f[c]) = c /\ \A i \in 1 .. c : f[c][i] = parts[i]
        /\ (\A i \in 1 .. c : parts[i] = Null) => f[c] = << >>
    BY <1>4
  <2>2. f[n] = IF parts[n] = Null THEN f[c] ELSE Append(f[c], parts[n])
    BY <1>2, <2>0
  <2>3. parts[n] \in T /\ \A i \in 1 .. c : i \in 1 .. n
    BY <1>0, <2>0
  <2> HIDE DEF c
  <2>4. CASE parts[n] = Null
    <3>1. f[n] = f[c]
      BY <2>2, <2>4
    <3>2. n \in 1 .. n
      BY <2>0
    <3> QED
      BY <2>0, <2>1, <2>3, <2>4, <3>1, <3>2
  <2>5. CASE parts[n] # Null
    <3>1. f[n] = Append(f[c], parts[n])
      BY <2>2, <2>5
    <3>2. f[n] \in Seq(T) /\ Len(f[n]) = Len(f[c]) + 1 /\ f[n][Len(f[c]) + 1] = parts[n]
          /\ \A k \in 1 .. Len(f[c]) : f[n][k] = f[c][k]
      BY <2>1, <2>3, <3>1
    <3>3. Len(f[c]) \in Nat
      BY <2>1
    <3>4. ASSUME NEW i \in 1 .. n, parts[i] # Null PROVE \E k \in 1 .. Len(f[n]) : f[n][k] = parts[i]
      <4>1. CASE i = n
        <5>1. Len(f[c]) + 1 \in 1 .. Len(f[n])
          BY <3>2, <3>3
        <5> QED
          BY <3>2, <4>1, <5>1
      <4>2. CASE i \in 1 .. c
        <5>1. PICK k \in 1 .. Len(f[c]) : f[c][k] = parts[i]
          BY <2>1, <3>4, <4>2
        <5>2. k \in 1 .. Len(f[n])
          BY <3>2, <3>3
        <5> QED
          BY <3>2, <5>1, <5>2
      <4> QED
        BY <2>0, <4>1, <4>2
    <3>5. ASSUME \A i \in 1 .. n : parts[i] # Null
          PROVE  Len(f[n]) = n /\ \A i \in 1 .. n : f[n][i] = parts[i]
      <4>1. Len(f[c]) = c /\ \A i \in 1 .. c : f[c][i] = parts[i]
        BY <2>1, <2>3, <3>5
      <4> QED
        BY <2>0, <3>2, <4>1
    <3>6. ~\A i \in 1 .. n : parts[i] = Null
      <4>1. n \in 1 .. n
        BY <2>0
      <4> QED
        BY <2>5, <4>1
    <3> QED
      BY <2>0, <3>2, <3>4, <3>5, <3>6
  <2> QED
    BY <2>4, <2>5
<1>5. N \in S
  <2>1. 0 .. N \subseteq S
    <3> HIDE DEF S
    <3> QED
      BY <1>0, <1>3, <1>4, Upwards
  <2>2. N \in 0 .. N
    BY <1>0
  <2> HIDE DEF S
  <2> QED
    BY <2>1, <2>2
<1>6. ASSUME \A n \in 1 .. N : parts[n] # Null PROVE f[N] = parts
  <2>1. f[N] \in Seq(T) /\ Len(f[N]) = N /\ \A i \in 1 .. N : f[N][i] = parts[i]
    BY <1>5, <1>6
  <2> QED
    BY <2>1 DEF N
<1> QED
  BY <1>1, <1>5, <1>6 DEF N

-----------------------------------------------------------------------------
(* The parts of a pattern.                                                 *)

StartsOf(q) == MiddleStarts(q, FrontEnd(q), BackStart(q))
StopOf(q, n) == IF n = Len(StartsOf(q)) THEN BackStart(q) ELSE StartsOf(q)[n + 1]
PartsOf(q) == [n \in 1 .. Len(StartsOf(q)) |-> CreatePattern(Part(q, StartsOf(q)[n], StopOf(q, n)))]
LEMMA SplitIs ==
    ASSUME NEW q
    PROVE  SplitIntoSubpatterns(q) =
              [start  |-> IF q[1] = Percent THEN Null ELSE CreatePattern(Part(q, 1, FrontEnd(q))),
               middle |-> KeptOf(PartsOf(q)),
               end    |-> IF SeenAsPercent(q, Len(q)) THEN Null
                          ELSE IF BackStart(q) > Len(q) THEN Null
                          ELSE CreatePattern(Part(q, BackStart(q), Len(q) + 1))]
BY Zenon DEF SplitIntoSubpatterns, KeptOf, IsKept, PartsOf, StartsOf, StopOf

LEMMA SeenIs ==
    ASSUME NEW q \in Seq(Nat), NEW B, Reads(q, B), Clear(q, B), NEW i \in 1 .. Len(q)
    PROVE  SeenAsPercent(q, i) <=> i \in B /\ q[i] = Percent
<1>1. Trailing(q, i) <=> i \in B /\ q[i] \in Wildcards
  BY TrailingIs
<1> QED
  BY <1>1 DEF Trailing, SeenAsPercent, Wildcards

\* The front part goes up to the first percent sign, and the wildcards behind
\* it are skipped.
LEMMA FrontIs ==
    ASSUME NEW q \in Seq(Nat), NEW B, Reads(q, B), Len(q) # 0
    PROVE  /\ FrontEnd(q) \in B
           /\ q[1] = Percent => FrontEnd(q) = 1
           /\ q[1] # Percent =>
                 \E h \in B : /\ 1 < h /\ h <= FrontEnd(q)
                              /\ h # Len(q) + 1 => q[h] = Percent
                              /\ \A i \in B : i < h => q[i] # Percent
                              /\ \A i \in h .. FrontEnd(q) - 1 : q[i] \in Wildcards
                              /\ FrontEnd(q) # Len(q) + 1 => q[FrontEnd(q)] \notin Wildcards
<1>1. Len(q) \in Nat /\ 1 \in B /\ B \subseteq 1 .. Len(q) + 1
  BY DEF Reads
<1>2. CASE q[1] = Percent
  BY <1>1, <1>2 DEF FrontEnd
<1>3. CASE q[1] # Percent
  <2> DEFINE h == SkipToUnescaped(q, 1, {Percent})
             f == SkipForward(q, h, Wildcards)
  <2>1. /\ h \in B /\ 1 <= h
        /\ h # Len(q) + 1 => q[h] = Percent
        /\ \A i \in B : 1 <= i /\ i < h => q[i] # Percent
    BY <1>1, Skips
  <2>2. FrontEnd(q) = f
    BY <1>3 DEF FrontEnd
  <2> HIDE DEF h
  <2>3. h \in 1 .. Len(q) + 1
    BY <1>1, <2>1
  <2>4. /\ f \in h .. Len(q) + 1
        /\ f # Len(q) + 1 => q[f] \notin Wildcards
        /\ \A i \in h .. f - 1 : q[i] \in Wildcards
    BY <2>3, SkipsForward
  <2> HIDE DEF f
  <2>5. h .. f \subseteq B
    BY <2>1, <2>4, WildcardRun
  <2>6. f \in B /\ h <= f
    BY <2>3, <2>4, <2>5
  <2>7. 1 < h
    BY <1>1, <1>3, <2>1, <2>3
  <2>8. \A i \in B : 1 <= i
    BY <1>1
  <2> QED
    BY <1>3, <2>1, <2>2, <2>4, <2>6, <2>7, <2>8
<1> QED
  BY <1>2, <1>3

\* The back part begins behind the last percent sign that the code sees, and
\* the underscores that follow it.
LEMMA BackLies ==
    ASSUME NEW q \in Seq(Nat), NEW B, Reads(q, B), Len(q) # 0
    PROVE  \E l \in 0 .. Len(q) :
              /\ l # 0 => l \in B /\ q[l] = Percent
              /\ \A i \in 1 .. Len(q) : SeenAsPercent(q, i) => i <= l
              /\ BackStart(q) \in B /\ l < BackStart(q)
              /\ \A i \in l + 1 .. BackStart(q) - 1 : q[i] = Underscore
              /\ SeenAsPercent(q, Len(q)) <=> l = Len(q)
<1> DEFINE n == Len(q)
           P == {i \in 1 .. n : SeenAsPercent(q, i)}
           l == IF P = {} THEN 0 ELSE CHOOSE i \in P : \A j \in P : j <= i
<1>1. n \in Nat \ {0} /\ 1 \in B /\ B \subseteq 1 .. n + 1 /\ n + 1 \in B
  BY DEF Reads
<1>2. \A i \in P : i \in B /\ q[i] = Percent
  <2>1. ASSUME NEW i \in 1 .. n, SeenAsPercent(q, i) PROVE i \in B /\ q[i] = Percent
    <3>1. Trailing(q, i)
      BY <2>1 DEF SeenAsPercent, Trailing, Wildcards
    <3> QED
      BY <2>1, <3>1, TrailingBegins DEF SeenAsPercent
  <2> QED
    BY <2>1
<1>3. BackStart(q) = IF SeenAsPercent(q, n) THEN n + 1 ELSE SkipForward(q, l + 1, {Underscore})
  BY DEF BackStart
<1>4. n \in P <=> SeenAsPercent(q, n)
  BY <1>1
<1> HIDE DEF n
<1>5. P # {} => \E i \in P : \A j \in P : j <= i
  <2> SUFFICES ASSUME P # {} PROVE \E i \in P : \A j \in P : j <= i
    OBVIOUS
  <2> DEFINE T == {n - i : i \in P}
  <2>1. T \in SUBSET Nat /\ T # {}
    BY <1>1
  <2>2. PICK x \in T : \A y \in T : x <= y
    BY <2>1, LeastNat
  <2>3. PICK i \in P : x = n - i
    BY <2>2
  <2>4. ASSUME NEW j \in P PROVE j <= i
    <3>1. n - j \in T
      OBVIOUS
    <3>2. n - i <= n - j
      BY <2>2, <2>3, <3>1
    <3>3. i \in 1 .. n /\ j \in 1 .. n
      OBVIOUS
    <3> QED
      BY <1>1, <3>2, <3>3
  <2> QED
    BY <2>4
<1>6. /\ l \in 0 .. n
      /\ l # 0 => l \in P
      /\ \A j \in P : j <= l
  <2>1. CASE P = {}
    BY <1>1, <2>1
  <2>2. CASE P # {}
    <3>1. l \in P /\ \A j \in P : j <= l
      <4> HIDE DEF P
      <4> QED
        BY <1>5, <2>2
    <3>2. \A j \in P : j \in 1 .. n /\ j \in 0 .. n
      BY <1>1
    <3> HIDE DEF P, l
    <3> QED
      BY <3>1, <3>2
  <2> QED
    BY <2>1, <2>2
<1> HIDE DEF l
<1>7. l # 0 => l \in B /\ q[l] = Percent
  BY <1>2, <1>6
<1>8. \A i \in 1 .. n : SeenAsPercent(q, i) => i <= l
  BY <1>6
<1>9. SeenAsPercent(q, n) <=> l = n
  <2>1. n \in P => n <= l
    BY <1>6
  <2>2. l = n => n \in P
    BY <1>1, <1>6
  <2> QED
    BY <1>1, <1>4, <1>6, <2>1, <2>2
<1>10. l + 1 \in B /\ l + 1 \in 1 .. n + 1
  <2>1. CASE l = 0
    BY <1>1, <2>1
  <2>2. CASE l # 0
    <3>1. l \in B /\ l # n + 1 /\ q[l] # Backslash
      BY <1>1, <1>6, <1>7, <2>2 DEF Percent, Backslash
    <3>2. Onwards(q, l) \in B /\ Onwards(q, l) = l + 1
      BY <3>1, NextCharacter DEF n
    <3> QED
      BY <1>1, <3>2
  <2> QED
    BY <2>1, <2>2
<1>11. CASE l = n
  <2>1. BackStart(q) = n + 1
    BY <1>3, <1>9, <1>11
  <2>2. \A i \in l + 1 .. BackStart(q) - 1 : FALSE
    BY <1>1, <1>11, <2>1
  <2>3. BackStart(q) \in B /\ l < BackStart(q) /\ l \in 0 .. Len(q)
    BY <1>1, <1>6, <1>11, <2>1 DEF n
  <2> QED
    BY <1>7, <1>8, <1>9, <2>2, <2>3 DEF n
<1>12. CASE l # n
  <2> DEFINE f == SkipForward(q, l + 1, {Underscore})
  <2>1. BackStart(q) = f
    BY <1>3, <1>9, <1>12
  <2>2. f \in l + 1 .. n + 1 /\ \A i \in l + 1 .. f - 1 : q[i] \in {Underscore}
    BY <1>10, SkipsForward DEF n
  <2> HIDE DEF f
  <2>3. l + 1 .. f \subseteq B
    <3>1. \A i \in l + 1 .. f - 1 : q[i] \in Wildcards
      BY <2>2 DEF Wildcards
    <3>2. f \in l + 1 .. Len(q) + 1
      BY <2>2 DEF n
    <3> QED
      BY <1>10, <3>1, <3>2, WildcardRun
  <2>4. f \in B /\ l < f /\ l \in 0 .. Len(q)
    BY <1>1, <1>6, <2>2, <2>3 DEF n
  <2> QED
    BY <1>7, <1>8, <1>9, <2>1, <2>2, <2>4 DEF n
<1> QED
  BY <1>11, <1>12

\* If no wildcard stands behind a backslash, that is the last one there is.
LEMMA BackIs ==
    ASSUME NEW q \in Seq(Nat), NEW B, Reads(q, B), Clear(q, B), Len(q) # 0
    PROVE  \E l \in 0 .. Len(q) :
              /\ l # 0 => l \in B /\ q[l] = Percent
              /\ \A i \in B : l < i /\ i # Len(q) + 1 => q[i] # Percent
              /\ BackStart(q) \in B /\ l < BackStart(q)
              /\ \A i \in l + 1 .. BackStart(q) - 1 : q[i] = Underscore
              /\ SeenAsPercent(q, Len(q)) <=> l = Len(q)
<1>1. PICK l \in 0 .. Len(q) :
         /\ l # 0 => l \in B /\ q[l] = Percent
         /\ \A i \in 1 .. Len(q) : SeenAsPercent(q, i) => i <= l
         /\ BackStart(q) \in B /\ l < BackStart(q)
         /\ \A i \in l + 1 .. BackStart(q) - 1 : q[i] = Underscore
         /\ SeenAsPercent(q, Len(q)) <=> l = Len(q)
  BY BackLies
<1>2. ASSUME NEW i \in B, l < i, i # Len(q) + 1 PROVE q[i] # Percent
  <2>1. i \in 1 .. Len(q) /\ ~(i <= l)
    BY <1>2 DEF Reads
  <2>2. ~SeenAsPercent(q, i)
    BY <1>1, <2>1
  <2> QED
    BY <2>1, <2>2, SeenIs
<1> QED
  BY <1>1, <1>2

\* What holds of the characters of a pattern holds of those of a part.
LEMMA PartIsClear ==
    ASSUME NEW q \in Seq(Nat), NEW B, Reads(q, B), Clear(q, B), NEW a \in B, NEW b \in B, a <= b
    PROVE  Clear(Part(q, a, b), Shifted(B, a, b))
<1> DEFINE r == Part(q, a, b)
<1>1. r \in Seq(Nat) /\ Len(r) = b - a /\ \A i \in 1 .. b - a : r[i] = q[i + (a - 1)]
  BY PartReads
<1>2. Len(q) \in Nat /\ a \in 1 .. Len(q) + 1 /\ b \in 1 .. Len(q) + 1
  BY DEF Reads
<1> HIDE DEF r
<1>3. ASSUME NEW i \in Shifted(B, a, b), i # 1, i # Len(r) + 1, r[i] \in Wildcards PROVE r[i - 1] # Backslash
  <2> DEFINE k == i + (a - 1)
  <2>1. i \in 1 .. (b - a) + 1 /\ k \in B
    BY DEF Shifted
  <2>2. i \in 1 .. b - a /\ i - 1 \in 1 .. b - a /\ k # 1 /\ k # Len(q) + 1 /\ (i - 1) + (a - 1) = k - 1
    <3>1. a \in Nat \ {0} /\ b \in Nat /\ b <= Len(q) + 1 /\ i \in Nat /\ i # 1 /\ i # (b - a) + 1
      <4>1. a \in Nat \ {0} /\ b \in Nat /\ b <= Len(q) + 1
        BY <1>2
      <4>2. i # 1 /\ i # (b - a) + 1
        BY <1>1, <1>3
      <4>3. i \in Nat
        BY <2>1, <4>1
      <4> QED
        BY <4>1, <4>2, <4>3
    <3> QED
      BY <1>2, <2>1, <3>1
  <2>3. r[i] = q[k] /\ r[i - 1] = q[(i - 1) + (a - 1)]
    BY <1>1, <2>2
  <2> HIDE DEF k
  <2>4. r[i - 1] = q[k - 1]
    BY <2>2, <2>3
  <2> QED
    BY <1>3, <2>1, <2>2, <2>3, <2>4 DEF Clear
<1> QED
  BY <1>3 DEF Clear, r
LEMMA PartIsPlain ==
    ASSUME NEW q \in Seq(Nat), NEW B, Reads(q, B), Plain(q, B), NEW a \in B, NEW b \in B, a <= b
    PROVE  Plain(Part(q, a, b), Shifted(B, a, b))
<1> DEFINE r == Part(q, a, b)
<1>1. r \in Seq(Nat) /\ Len(r) = b - a /\ \A i \in 1 .. b - a : r[i] = q[i + (a - 1)]
  BY PartReads
<1>2. Len(q) \in Nat /\ a \in 1 .. Len(q) + 1 /\ b \in 1 .. Len(q) + 1
  BY DEF Reads
<1> HIDE DEF r
<1>3. ASSUME NEW i \in Shifted(B, a, b), i # Len(r) + 1 PROVE r[i] # Underscore
  <2> DEFINE k == i + (a - 1)
  <2>1. i \in 1 .. (b - a) + 1 /\ k \in B
    BY DEF Shifted
  <2>2. i \in 1 .. b - a /\ k # Len(q) + 1
    <3>1. a \in Nat \ {0} /\ b \in Nat /\ b <= Len(q) + 1
      BY <1>2
    <3>2. i # (b - a) + 1
      BY <1>1, <1>3
    <3> QED
      BY <1>2, <2>1, <3>1, <3>2
  <2>3. r[i] = q[k]
    BY <1>1, <2>2
  <2> HIDE DEF k
  <2> QED
    BY <2>1, <2>2, <2>3 DEF Plain
<1> QED
  BY <1>3 DEF Plain, r

\* A part that ends with the pattern, or behind wildcards that begin with it or
\* with a percent sign: what is not lost in the pattern is not lost in the part.
Closes(q, b) ==
    \/ b = Len(q) + 1
    \/ \E c \in 1 .. b - 1 : (c = 1 \/ q[c] = Percent) /\ \A i \in c .. b - 1 : q[i] \in Wildcards

\* A part with an underscore that is not escaped is refused.
LEMMA PartIsRefused ==
    ASSUME NEW q \in Seq(Nat), NEW B, Reads(q, B), Len(q) < CountRange,
           NEW a \in B, NEW b \in B, NEW u \in B, a <= u, u < b, q[u] = Underscore,
           ~Lost(q, u), Closes(q, b)
    PROVE  CreatePattern(Part(q, a, b)) = UnderscorePattern
<1> DEFINE r == Part(q, a, b)
           D == Shifted(B, a, b)
           v == u - (a - 1)
<1>1. Len(q) \in Nat /\ a \in 1 .. Len(q) + 1 /\ b \in 1 .. Len(q) + 1 /\ u \in 1 .. Len(q) + 1
  BY DEF Reads
<1>2. a \in Nat \ {0} /\ b \in Nat /\ b <= Len(q) + 1 /\ u \in Nat /\ a <= b
  BY <1>1
<1>3. r \in Seq(Nat) /\ Len(r) = b - a /\ (\A i \in 1 .. b - a : r[i] = q[i + (a - 1)]) /\ Reads(r, D)
  <2>1. r \in Seq(Nat) /\ Len(r) = b - a /\ \A i \in 1 .. b - a : r[i] = q[i + (a - 1)]
    <3>1. a <= b
      BY <1>2
    <3> QED
      BY <3>1, PartReads
  <2>2. Reads(r, D)
    BY <1>2, PartReads
  <2> QED
    BY <2>1, <2>2
<1>5. v \in 1 .. b - a /\ v + (a - 1) = u
  BY <1>2
<1>6. v \in D
  BY <1>2, <1>5 DEF Shifted
<1>7. r[v] = Underscore
  BY <1>3, <1>5
<1>8. Len(r) < CountRange /\ v # Len(r) + 1
  BY <1>1, <1>2, <1>3, <1>5 DEF CountRange
<1>4. ~Lost(r, v)
  <2> SUFFICES ASSUME v > 1, r[v - 1] = Backslash, v = Len(r) \/ r[v + 1] = Percent PROVE FALSE
    BY DEF Lost
  <2>1. v - 1 \in 1 .. b - a /\ (v - 1) + (a - 1) = u - 1 /\ u > 1
    BY <1>2, <1>5
  <2>2. q[u - 1] = Backslash
    BY <1>3, <2>1
  <2>3. CASE u + 1 = b
    <3>1. b # Len(q) + 1
      <4> SUFFICES ASSUME u = Len(q) PROVE FALSE
        BY <1>1, <1>2, <2>3
      <4> QED
        BY <2>1, <2>2 DEF Lost
    <3>2. PICK c \in 1 .. b - 1 : (c = 1 \/ q[c] = Percent) /\ \A i \in c .. b - 1 : q[i] \in Wildcards
      BY <3>1 DEF Closes
    <3>3. c # u
      BY <2>1, <3>2 DEF Percent, Underscore
    <3>4. u - 1 \in c .. b - 1
      BY <1>2, <2>3, <3>2, <3>3
    <3> QED
      BY <2>2, <3>2, <3>4 DEF Wildcards, Percent, Underscore, Backslash
  <2>4. CASE u + 1 # b
    <3>1. v # Len(r) /\ v + 1 \in 1 .. b - a /\ (v + 1) + (a - 1) = u + 1
      BY <1>2, <1>3, <1>5, <2>4
    <3>2. q[u + 1] = Percent
      BY <1>3, <3>1
    <3> QED
      BY <2>1, <2>2, <3>2 DEF Lost
  <2> QED
    BY <2>3, <2>4
<1> HIDE DEF r, D, v
<1>9. CreatePattern(r) = UnderscorePattern
  BY <1>3, <1>4, <1>6, <1>7, <1>8, CreatesUnderscore
<1> QED
  BY <1>9 DEF r

\* A pattern with an underscore that is not escaped is refused: the byte lies
\* in the front part, in a middle part or in the back part.
LEMMA SplitIsRefused ==
    ASSUME NEW q \in Seq(Nat), NEW B, Reads(q, B), Len(q) < CountRange,
           NEW u \in B, u # Len(q) + 1, q[u] = Underscore, ~Lost(q, u)
    PROVE  ~Implemented(SplitIntoSubpatterns(q))
<1> DEFINE n == Len(q)
           front == FrontEnd(q)
           back == BackStart(q)
           T == StartsOf(q)
           parts == PartsOf(q)
           split == SplitIntoSubpatterns(q)
<1>1. n \in Nat \ {0} /\ 1 \in B /\ B \subseteq 1 .. n + 1 /\ n + 1 \in B /\ u \in 1 .. n
  BY DEF Reads
<1>2. /\ front \in B
      /\ q[1] = Percent => front = 1
      /\ q[1] # Percent => Closes(q, front)
  <2>1. /\ front \in B
        /\ q[1] = Percent => front = 1
    BY <1>1, FrontIs
  <2>2. ASSUME q[1] # Percent, front # n + 1 PROVE Closes(q, front)
    <3>1. PICK h \in B : /\ 1 < h /\ h <= front
                         /\ h # n + 1 => q[h] = Percent
                         /\ \A i \in h .. front - 1 : q[i] \in Wildcards
                         /\ front # n + 1 => q[front] \notin Wildcards
      BY <1>1, <2>2, FrontIs
    <3> HIDE DEF front, n
    <3>2. h \in 1 .. n + 1 /\ front \in 1 .. n + 1
      BY <1>1, <2>1
    <3>3. h # n + 1 /\ q[h] = Percent
      BY <1>1, <2>2, <3>1, <3>2
    <3>4. h # front
      BY <2>2, <3>1, <3>3 DEF Wildcards
    <3>5. h \in 1 .. front - 1
      BY <3>1, <3>2, <3>4
    <3> QED
      BY <3>1, <3>3, <3>5 DEF Closes
  <2>3. front = n + 1 => Closes(q, front)
    BY DEF Closes
  <2> QED
    BY <2>1, <2>2, <2>3
<1>3. /\ back \in B
      /\ SeenAsPercent(q, n) => back = n + 1
      /\ back # 1 => Closes(q, back)
  <2>1. PICK l \in 0 .. n :
           /\ l # 0 => l \in B /\ q[l] = Percent
           /\ back \in B /\ l < back
           /\ \A i \in l + 1 .. back - 1 : q[i] = Underscore
    BY <1>1, BackLies
  <2>2. SeenAsPercent(q, n) => back = n + 1
    BY DEF BackStart
  <2> HIDE DEF back, n
  <2>3. back \in 1 .. n + 1
    BY <1>1, <2>1
  <2>4. ASSUME back # 1 PROVE Closes(q, back)
    <3>1. CASE l = 0
      <4>1. 1 \in 1 .. back - 1 /\ \A i \in 1 .. back - 1 : q[i] = Underscore
        BY <2>1, <2>3, <2>4, <3>1
      <4> QED
        BY <4>1 DEF Closes, Wildcards
    <3>2. CASE l # 0
      <4>1. l \in 1 .. back - 1 /\ \A i \in l .. back - 1 : i = l \/ i \in l + 1 .. back - 1
        BY <2>1, <2>3, <3>2
      <4>2. \A i \in l .. back - 1 : q[i] \in Wildcards
        BY <2>1, <3>2, <4>1 DEF Wildcards
      <4> QED
        BY <2>1, <3>2, <4>1, <4>2 DEF Closes
    <3> QED
      BY <3>1, <3>2
  <2> QED
    BY <2>1, <2>2, <2>4
<1>4. /\ split.start = IF q[1] = Percent THEN Null ELSE CreatePattern(Part(q, 1, front))
      /\ split.middle = KeptOf(parts)
      /\ split.end = IF SeenAsPercent(q, n) THEN Null
                     ELSE IF back > n THEN Null ELSE CreatePattern(Part(q, back, n + 1))
  BY SplitIs
<1> HIDE DEF n, front, back
<1>5. UnderscorePattern.kind = "underscore" /\ UnderscorePattern # Null
  BY DEF UnderscorePattern, Null
<1>6. CASE u < front
  <2>1. q[1] # Percent
    BY <1>1, <1>2, <1>6
  <2>2. CreatePattern(Part(q, 1, front)) = UnderscorePattern
    <3>1. 1 <= u
      BY <1>1
    <3> QED
      BY <1>1, <1>2, <1>6, <2>1, <3>1, PartIsRefused
  <2> QED
    BY <1>4, <1>5, <2>1, <2>2 DEF Implemented
<1>7. CASE back <= u
  <2>1. ~SeenAsPercent(q, n) /\ ~(back > n)
    BY <1>1, <1>3, <1>7
  <2>2. CreatePattern(Part(q, back, n + 1)) = UnderscorePattern
    <3>1. u < n + 1 /\ Closes(q, n + 1)
      BY <1>1 DEF Closes, n
    <3> QED
      BY <1>1, <1>3, <1>7, <3>1, PartIsRefused
  <2> QED
    BY <1>4, <1>5, <2>1, <2>2 DEF Implemented
<1>8. CASE front <= u /\ u < back
  <2>0. front \in 1 .. n + 1 /\ back \in 1 .. n + 1 /\ front < back
    BY <1>1, <1>2, <1>3, <1>8
  <2>1. PICK W : Steps(W, q, back) /\ \A i : MiddleStarts(q, i, back) = IF i < back THEN <<i>> \o W[i][0] ELSE << >>
    BY <2>0, WalkSteps DEF n
  <2>2. T = <<front>> \o W[front][0]
    BY <2>0, <2>1 DEF StartsOf, front, back
  <2>3. W[front][0] \in Seq(Positions(B, front, back))
    <3>1. front <= back /\ 0 \in 0 .. 2
      BY <2>0
    <3> QED
      BY <1>2, <1>3, <2>1, <3>1, StartsLie
  <2>4. front \in Positions(B, front, back)
    BY <1>2, <2>0 DEF Positions
  <2> DEFINE G == {x \in B : BehindPercent(q, x)}
  <2>13. W[front][0] \in Seq(G)
    <3>1. front <= back
      BY <2>0
    <3> QED
      BY <1>2, <1>3, <2>1, <3>1, StartsBehindPercent
  <2>14. \A k \in 2 .. Len(T) : T[k] \in G
    <3> DEFINE tail == W[front][0]
    <3>1. tail \in Seq(G) /\ T = <<front>> \o tail
      BY <2>2, <2>13
    <3> HIDE DEF tail, T, G
    <3>2. tail \in Seq(G) /\ Len(tail) \in Nat /\ Len(<<front>>) = 1
      BY <3>1
    <3>3. Len(T) = 1 + Len(tail) /\ \A k \in 1 .. 1 + Len(tail) : T[k] = IF k <= 1 THEN front ELSE tail[k - 1]
      BY <3>1
    <3>4. ASSUME NEW k \in 2 .. Len(T) PROVE T[k] \in G
      <4>1. k \in 1 .. 1 + Len(tail) /\ ~(k <= 1) /\ k - 1 \in 1 .. Len(tail)
        BY <3>2, <3>3
      <4>2. tail[k - 1] \in G
        BY <3>2, <4>1
      <4> QED
        BY <3>3, <4>1, <4>2
    <3> QED
      BY <3>4
  <2> HIDE DEF T
  <2>5. T \in Seq(Positions(B, front, back)) /\ Len(T) >= 1 /\ T[1] = front
    BY <2>2, <2>3, <2>4
  <2> DEFINE K == Len(T)
             S == {K - k : k \in {i \in 1 .. K : T[i] <= u}}
  <2>6. K \in Nat /\ \A k \in 1 .. K : T[k] \in B
    BY <2>5 DEF Positions
  <2>7. PICK k \in 1 .. K : T[k] <= u /\ \A i \in 1 .. K : T[i] <= u => i <= k
    <3>1. 1 \in 1 .. K /\ T[1] <= u
      BY <1>8, <2>5, <2>6
    <3>2. S \in SUBSET Nat /\ S # {}
      BY <2>6, <3>1
    <3>3. PICK x \in S : \A y \in S : x <= y
      <4> HIDE DEF S
      <4> QED
        BY <3>2, LeastNat
    <3>4. PICK k \in 1 .. K : T[k] <= u /\ x = K - k
      BY <3>3
    <3>5. ASSUME NEW i \in 1 .. K, T[i] <= u PROVE i <= k
      <4>1. K - i \in S
        BY <3>5
      <4>2. K - k <= K - i
        <5> HIDE DEF S
        <5> QED
          BY <3>3, <3>4, <4>1
      <4> QED
        BY <2>6, <4>2
    <3> QED
      BY <3>4, <3>5
  <2> DEFINE e == StopOf(q, k)
  <2>8. e \in B /\ u < e /\ Closes(q, e)
    <3>1. CASE k = K
      <4>1. e = back
        BY <3>1 DEF StopOf, T, back
      <4>2. back # 1
        BY <2>0
      <4> QED
        BY <1>3, <1>8, <4>1, <4>2
    <3>2. CASE k # K
      <4>1. e = T[k + 1]
        BY <3>2 DEF StopOf, T
      <4>2. k + 1 \in 1 .. K /\ ~(k + 1 <= k)
        BY <2>6, <3>2
      <4>3. T[k + 1] \in B /\ ~(T[k + 1] <= u)
        BY <2>6, <2>7, <4>2
      <4>4. T[k + 1] \in Nat /\ u \in Nat
        <5>1. \A x \in B : x \in Nat
          BY <1>1
        <5> QED
          BY <1>1, <4>3, <5>1
      <4>5. Closes(q, T[k + 1])
        <5>1. k + 1 \in 2 .. K
          BY <4>2
        <5>2. BehindPercent(q, T[k + 1])
          BY <2>14, <5>1
        <5> QED
          BY <5>2 DEF BehindPercent, Closes
      <4> HIDE DEF e
      <4> QED
        BY <4>1, <4>3, <4>4, <4>5
    <3> QED
      BY <3>1, <3>2
  <2>9. parts[k] = UnderscorePattern
    <3>1. parts[k] = CreatePattern(Part(q, T[k], e))
      BY <2>7 DEF PartsOf, T
    <3> HIDE DEF e
    <3>2. CreatePattern(Part(q, T[k], e)) = UnderscorePattern
      BY <2>6, <2>7, <2>8, PartIsRefused
    <3> QED
      BY <3>1, <3>2
  <2> DEFINE R == {parts[i] : i \in 1 .. K}
  <2>10. parts \in Seq(R) /\ Len(parts) = K
    <3>1. parts = [i \in 1 .. K |-> parts[i]]
      BY DEF PartsOf, T
    <3> HIDE DEF parts, K
    <3> QED
      BY <2>6, <3>1
  <2> HIDE DEF R, parts
  <2>11. PICK i \in 1 .. Len(KeptOf(parts)) : KeptOf(parts)[i] = parts[k]
    BY <1>5, <2>9, <2>10, PartsKept
  <2>12. split.middle[i].kind = "underscore" /\ i \in 1 .. Len(split.middle)
    BY <1>4, <1>5, <2>9, <2>11
  <2> QED
    BY <2>12 DEF Implemented
<1>9. front \in 1 .. n + 1 /\ back \in 1 .. n + 1
  BY <1>1, <1>2, <1>3
<1> QED
  BY <1>1, <1>6, <1>7, <1>8, <1>9

-----------------------------------------------------------------------------
(* What the middle parts are made of.                                      *)

LEMMA OnwardsUpTo ==
    ASSUME NEW q \in Seq(Nat), NEW B, Reads(q, B), NEW i \in B, NEW b \in B, i < b
    PROVE  Onwards(q, i) \in B /\ i < Onwards(q, i) /\ Onwards(q, i) <= b
<1>1. Len(q) \in Nat /\ i \in 1 .. Len(q) + 1 /\ b \in 1 .. Len(q) + 1
  BY DEF Reads
<1>2. i # Len(q) + 1
  BY <1>1
<1>3. /\ Onwards(q, i) \in B /\ i < Onwards(q, i)
      /\ q[i] = Backslash => i + 1 \notin B /\ Onwards(q, i) = i + 2
      /\ q[i] # Backslash => Onwards(q, i) = i + 1
  BY <1>2, NextCharacter
<1>4. CASE q[i] = Backslash
  <2>1. b # i + 1
    BY <1>3, <1>4
  <2> QED
    BY <1>1, <1>3, <1>4, <2>1
<1>5. CASE q[i] # Backslash
  BY <1>1, <1>3, <1>5
<1> QED
  BY <1>4, <1>5

\* A part that begins at a is literal up to g, and the percent signs behind it
\* go up to e.  The parts V are such stretches, one behind the other.
Stretch(q, B, a, g, e) ==
    /\ a < g /\ g < e /\ e \in B
    /\ \A i \in B : a <= i /\ i < g => q[i] \notin Wildcards
    /\ \A i \in g .. e - 1 : q[i] = Percent
Gap(V, end, k) == IF k = Len(V) THEN end ELSE V[k + 1]
Stretches(q, B, end, V) ==
    V \in Seq(B) /\ \A k \in 1 .. Len(V) : \E g \in B : Stretch(q, B, V[k], g, Gap(V, end, k))
LEMMA OneMoreStretch ==
    ASSUME NEW q, NEW B, NEW end, NEW V, Stretches(q, B, end, V), NEW j \in B, NEW g \in B,
           Stretch(q, B, j, g, Gap(V, end, 0))
    PROVE  Stretches(q, B, end, <<j>> \o V) /\ Gap(<<j>> \o V, end, 0) = j
<1> DEFINE U == <<j>> \o V
           n == Len(V)
<1>1. V \in Seq(B) /\ n \in Nat
  BY DEF Stretches
<1>2. U \in Seq(B) /\ Len(U) = n + 1 /\ U[1] = j /\ \A k \in 1 .. n : U[k + 1] = V[k]
  BY <1>1
<1> HIDE DEF U, n
<1>3. ASSUME NEW k \in 0 .. n PROVE Gap(U, end, k + 1) = Gap(V, end, k)
  <2>1. CASE k = n
    BY <1>2, <2>1 DEF Gap, n
  <2>2. CASE k # n
    <3>1. k + 1 \in 1 .. n /\ k + 1 # Len(U) /\ k # Len(V)
      BY <1>1, <1>2, <2>2 DEF n
    <3>2. U[(k + 1) + 1] = V[k + 1]
      BY <1>2, <3>1
    <3> QED
      BY <3>1, <3>2 DEF Gap
  <2> QED
    BY <2>1, <2>2
<1>4. Gap(U, end, 0) = j
  BY <1>1, <1>2 DEF Gap
<1>5. ASSUME NEW k \in 1 .. Len(U) PROVE \E h \in B : Stretch(q, B, U[k], h, Gap(U, end, k))
  <2>1. CASE k = 1
    <3>1. 0 \in 0 .. n /\ 0 + 1 = 1
      BY <1>1
    <3>2. Gap(U, end, 1) = Gap(V, end, 0)
      BY <1>3, <3>1
    <3> QED
      BY <1>2, <2>1, <3>2
  <2>2. CASE k # 1
    <3> DEFINE c == k - 1
    <3>1. c \in 1 .. n /\ c \in 0 .. n /\ c + 1 = k
      BY <1>1, <1>2, <2>2
    <3> HIDE DEF c
    <3>2. U[k] = V[c] /\ Gap(U, end, k) = Gap(V, end, c)
      BY <1>2, <1>3, <3>1
    <3>3. \E h \in B : Stretch(q, B, V[c], h, Gap(V, end, c))
      BY <3>1 DEF Stretches, n
    <3> QED
      BY <3>2, <3>3
  <2> QED
    BY <2>1, <2>2
<1> QED
  BY <1>2, <1>4, <1>5 DEF Stretches, U

\* In stage 2 the walk is behind a literal stretch, among percent signs; in
\* stage 1 it is in a literal stretch; in stage 0 it has not met the first one.
AmongPercents(q, B, end, j, V) ==
    /\ Stretches(q, B, end, V)
    /\ Gap(V, end, 0) \in B /\ j <= Gap(V, end, 0)
    /\ \A i \in j .. Gap(V, end, 0) - 1 : q[i] = Percent
InLiterals(q, B, end, j, V) ==
    /\ Stretches(q, B, end, V)
    /\ Gap(V, end, 0) \in B
    /\ \E g \in B : /\ j <= g /\ g < Gap(V, end, 0)
                    /\ \A i \in B : j <= i /\ i < g => q[i] \notin Wildcards
                    /\ \A i \in g .. Gap(V, end, 0) - 1 : q[i] = Percent
SameButFirst(B, V, U) == (V = << >> /\ U = << >>) \/ \E r \in B : V = <<r>> \o U
LEMMA WalkStretches ==
    ASSUME NEW q \in Seq(Nat), NEW B, Reads(q, B), Plain(q, B), NEW l \in B, l # Len(q) + 1, q[l] = Percent,
           NEW W, Steps(W, q, l + 1)
    PROVE  \A j \in B : j <= l + 1 =>
              /\ AmongPercents(q, B, l + 1, j, W[j][2])
              /\ j < l + 1 => InLiterals(q, B, l + 1, j, W[j][1])
              /\ SameButFirst(B, W[j][2], W[j][0])
<1> DEFINE end == l + 1
           S == {j \in B : /\ AmongPercents(q, B, end, j, W[j][2])
                           /\ j < end => InLiterals(q, B, end, j, W[j][1])
                           /\ SameButFirst(B, W[j][2], W[j][0])}
<1>1. 1 \in B /\ B \subseteq 1 .. Len(q) + 1 /\ Len(q) \in Nat /\ l \in 1 .. Len(q)
  BY DEF Reads
<1>2. end \in B /\ end \in 1 .. Len(q) + 1
  <2>1. Onwards(q, l) = l + 1 /\ Onwards(q, l) \in B
    <3>1. q[l] # Backslash
      BY DEF Percent, Backslash
    <3> QED
      BY <3>1, NextCharacter
  <2> QED
    BY <1>1, <2>1
<1>3. \A j \in B : j \in Nat /\ j \in 1 .. Len(q) + 1
  BY <1>1
<1>4. l \in Nat /\ end \in Nat /\ end = l + 1
  BY <1>1
<1> HIDE DEF end
<1>5. end \in S
  <2>1. end \in 1 .. Len(q) + 2 /\ end >= end /\ ~(end < end)
    BY <1>2, <1>4
  <2>2. W[end] = RowEnd
    BY <2>1 DEF Steps, end
  <2>3. W[end][2] = << >> /\ W[end][0] = << >>
    BY <2>2 DEF RowEnd
  <2>4. Gap(<< >>, end, 0) = end
    BY DEF Gap
  <2>5. Stretches(q, B, end, << >>)
    BY DEF Stretches
  <2>6. AmongPercents(q, B, end, end, << >>)
    <3>1. \A i \in end .. end - 1 : FALSE
      BY <1>4
    <3> QED
      BY <1>2, <1>4, <2>4, <2>5, <3>1 DEF AmongPercents
  <2> QED
    BY <1>2, <2>1, <2>3, <2>6 DEF SameButFirst
<1>6. ASSUME NEW j \in B, 1 <= j /\ j < end /\ Onwards(q, j) \in S PROVE j \in S
  <2> DEFINE o == Onwards(q, j)
  <2>1. o \in B /\ j < o /\ o <= end /\ j \in Nat /\ o \in Nat
    BY <1>2, <1>3, <1>6, OnwardsUpTo
  <2>2. /\ AmongPercents(q, B, end, o, W[o][2])
        /\ o < end => InLiterals(q, B, end, o, W[o][1])
        /\ SameButFirst(B, W[o][2], W[o][0])
    BY <1>6
  <2>3. /\ W[j][0] = W[o][IF q[j] \notin Wildcards THEN 1 ELSE 0]
        /\ W[j][1] = W[o][IF q[j] = Percent THEN 2 ELSE 1]
        /\ W[j][2] = IF q[j] \notin Wildcards THEN <<j>> \o W[o][1] ELSE W[o][2]
    <3>1. j \in 1 .. Len(q) + 1 /\ j < end
      BY <1>3, <1>6
    <3>2. Steps(W, q, end)
      BY DEF end
    <3> QED
      BY <1>2, <3>1, <3>2, WalkCells
  <2>4. j # Len(q) + 1 /\ q[j] # Underscore
    <3>1. j # Len(q) + 1
      BY <1>1, <1>4, <1>6, <2>1
    <3> QED
      BY <3>1 DEF Plain
  <2> HIDE DEF o
  <2>5. CASE q[j] = Percent
    <3>1. q[j] \in Wildcards /\ o = j + 1
      BY <2>5 DEF Wildcards, Onwards, o, Percent, Backslash
    <3> DEFINE V == W[o][2]
               e == Gap(V, end, 0)
    <3>2. W[j][0] = W[o][0] /\ W[j][1] = V /\ W[j][2] = V
      BY <2>3, <2>5, <3>1
    <3>3. /\ Stretches(q, B, end, V) /\ e \in B /\ o <= e
          /\ \A i \in o .. e - 1 : q[i] = Percent
      BY <2>2 DEF AmongPercents
    <3> HIDE DEF V
    <3> HIDE DEF e
    <3>0. e \in Nat
      BY <1>3, <3>3
    <3>4. \A i \in j .. e - 1 : i = j \/ i \in o .. e - 1
      BY <2>1, <3>0, <3>1
    <3>5. j < e /\ j <= e
      BY <2>1, <3>0, <3>3
    <3>6. \A i \in j .. e - 1 : q[i] = Percent
      BY <2>5, <3>3, <3>4
    <3>7. AmongPercents(q, B, end, j, V)
      BY <3>3, <3>5, <3>6 DEF AmongPercents, e
    <3>8. InLiterals(q, B, end, j, V)
      <4>1. j <= j /\ \A i \in B : ~(j <= i /\ i < j)
        BY <1>3
      <4> QED
        BY <3>3, <3>5, <3>6, <4>1 DEF InLiterals, e
    <3> QED
      BY <2>2, <3>2, <3>7, <3>8 DEF V
  <2>6. CASE q[j] # Percent
    <3> DEFINE V == W[o][1]
               U == <<j>> \o V
               e == Gap(V, end, 0)
    <3>1. q[j] \notin Wildcards
      BY <2>4, <2>6 DEF Wildcards
    <3>2. W[j][0] = V /\ W[j][1] = V /\ W[j][2] = U
      BY <2>3, <2>6, <3>1
    <3>3. o < end
      <4>1. j # l
        BY <2>6
      <4>2. j < l
        BY <1>4, <1>6, <2>1, <4>1
      <4>3. o <= l
        BY <4>2, OnwardsUpTo DEF o
      <4> QED
        BY <1>4, <2>1, <4>3
    <3>4. Stretches(q, B, end, V) /\ e \in B
      BY <2>2, <3>3 DEF InLiterals
    <3>5. PICK g \in B : /\ o <= g /\ g < e
                         /\ \A i \in B : o <= i /\ i < g => q[i] \notin Wildcards
                         /\ \A i \in g .. e - 1 : q[i] = Percent
      BY <2>2, <3>3 DEF InLiterals
    <3> HIDE DEF V
    <3>6. ASSUME NEW i \in B, j <= i, i < g PROVE q[i] \notin Wildcards
      <4>1. CASE i = j
        BY <3>1, <4>1
      <4>2. CASE i # j
        <5>1. j < i
          BY <1>3, <3>6, <4>2
        <5>2. o <= i
          BY <5>1, OnwardsUpTo DEF o
        <5> QED
          BY <3>5, <3>6, <5>2
      <4> QED
        BY <4>1, <4>2
    <3>7. j < g /\ j <= g
      BY <1>3, <2>1, <3>5
    <3>8. InLiterals(q, B, end, j, V)
      BY <3>4, <3>5, <3>6, <3>7 DEF InLiterals
    <3>9. Stretch(q, B, j, g, e)
      BY <3>4, <3>5, <3>6, <3>7 DEF Stretch
    <3>10. Stretches(q, B, end, U) /\ Gap(U, end, 0) = j
      BY <3>4, <3>9, OneMoreStretch
    <3>11. AmongPercents(q, B, end, j, U)
      <4>1. j <= j /\ \A i \in j .. j - 1 : FALSE
        BY <1>3
      <4> HIDE DEF U
      <4> QED
        BY <3>10, <4>1 DEF AmongPercents
    <3>12. SameButFirst(B, U, V)
      BY DEF SameButFirst
    <3> QED
      BY <3>2, <3>8, <3>11, <3>12
  <2> QED
    BY <2>5, <2>6
<1>7. \A j \in B : 1 <= j /\ j <= end => j \in S
  <2> HIDE DEF S
  <2> QED
    BY <1>1, <1>2, <1>5, <1>6, CharactersDown
<1>8. \A j \in B : 1 <= j
  BY <1>1
<1> QED
  BY <1>7, <1>8 DEF end

-----------------------------------------------------------------------------
(* Texts that hold the parts.                                              *)

At(t, i, w) == i + Len(w) - 1 <= Len(t) /\ \A k \in 1 .. Len(w) : t[i + k - 1] = w[k]
LEMMA AtOneMore ==
    ASSUME NEW t \in Seq(Nat), NEW w \in Seq(Nat), NEW c \in Nat, NEW j \in Nat
    PROVE  At(t, j, <<c>> \o w) <=> j <= Len(t) /\ c = t[j] /\ At(t, j + 1, w)
<1> DEFINE v == <<c>> \o w
           n == Len(w)
           m == Len(t)
<1>1. n \in Nat /\ m \in Nat /\ Len(v) = n + 1 /\ v[1] = c /\ \A k \in 1 .. n : v[k + 1] = w[k]
  OBVIOUS
<1> HIDE DEF v, n, m
<1>2. ASSUME At(t, j, v) PROVE j <= m /\ c = t[j] /\ At(t, j + 1, w)
  <2>1. j + (n + 1) - 1 <= m /\ \A k \in 1 .. n + 1 : t[j + k - 1] = v[k]
    BY <1>1, <1>2 DEF At, m
  <2>2. j <= m /\ (j + 1) + n - 1 <= m
    BY <1>1, <2>1
  <2>3. t[j] = c
    <3>1. 1 \in 1 .. n + 1 /\ j + 1 - 1 = j
      BY <1>1
    <3>2. t[j + 1 - 1] = v[1]
      BY <2>1, <3>1
    <3> QED
      BY <1>1, <3>1, <3>2
  <2>4. ASSUME NEW k \in 1 .. n PROVE t[(j + 1) + k - 1] = w[k]
    <3>1. k + 1 \in 1 .. n + 1 /\ j + (k + 1) - 1 = (j + 1) + k - 1
      BY <1>1
    <3>2. t[j + (k + 1) - 1] = v[k + 1]
      BY <2>1, <3>1
    <3>3. v[k + 1] = w[k]
      BY <1>1
    <3> QED
      BY <3>1, <3>2, <3>3
  <2>5. At(t, j + 1, w)
    BY <2>2, <2>4 DEF At, n, m
  <2> QED
    BY <2>2, <2>3, <2>5
<1>3. ASSUME j <= m, c = t[j], At(t, j + 1, w) PROVE At(t, j, v)
  <2>1. (j + 1) + n - 1 <= m /\ \A k \in 1 .. n : t[(j + 1) + k - 1] = w[k]
    BY <1>3 DEF At, n, m
  <2>2. j + Len(v) - 1 <= m
    BY <1>1, <2>1
  <2>3. ASSUME NEW k \in 1 .. Len(v) PROVE t[j + k - 1] = v[k]
    <3>1. CASE k = 1
      <4>1. j + 1 - 1 = j
        OBVIOUS
      <4> QED
        BY <1>1, <1>3, <3>1, <4>1
    <3>2. CASE k # 1
      <4> DEFINE i == k - 1
      <4>1. i \in 1 .. n /\ i + 1 = k /\ (j + 1) + i - 1 = j + k - 1
        BY <1>1, <3>2
      <4> HIDE DEF i
      <4>2. v[k] = w[i] /\ t[(j + 1) + i - 1] = w[i]
        BY <1>1, <2>1, <4>1
      <4> QED
        BY <4>1, <4>2
    <3> QED
      BY <3>1, <3>2
  <2> QED
    BY <2>2, <2>3 DEF At, m
<1> QED
  BY <1>2, <1>3 DEF v, m

\* A literal stretch of the pattern matches its bytes.
LEMMA StretchMatches ==
    ASSUME NEW q \in Seq(Nat), NEW B, Reads(q, B), NEW t \in Seq(Nat), NEW M, IsTable(M, q, t),
           NEW a \in B, NEW b \in B, a <= b, \A i \in B : a <= i /\ i < b => q[i] \notin Wildcards
    PROVE  \A j \in 1 .. Len(t) + 1 :
              M[a][j] <=> At(t, j, Unescape(q, a, b - 1)) /\ M[b][j + Len(Unescape(q, a, b - 1))]
<1> DEFINE m == Len(t)
           w(i) == Unescape(q, i, b - 1)
           S == {i \in B : \A j \in 1 .. m + 1 : M[i][j] <=> At(t, j, w(i)) /\ M[b][j + Len(w(i))]}
<1>1. m \in Nat /\ Len(q) \in Nat /\ (\A i \in B : i \in Nat) /\ B \subseteq 1 .. Len(q) + 1
  BY DEF Reads
<1> HIDE DEF m
<1>2. b \in S
  <2>1. w(b) = << >>
    BY UnescapeSteps
  <2>2. ASSUME NEW j \in 1 .. m + 1 PROVE At(t, j, << >>) /\ j + Len(<< >>) = j
    BY <1>1 DEF At, m
  <2>3. Len(<< >>) = 0
    OBVIOUS
  <2> HIDE DEF w
  <2> QED
    BY <2>1, <2>2
<1>3. ASSUME NEW i \in B, a <= i /\ i < b /\ Onwards(q, i) \in S PROVE i \in S
  <2> DEFINE o == Onwards(q, i)
             c == Literal(q, i)
  <2>1. o \in B /\ i < o /\ o <= b
    BY <1>3, OnwardsUpTo
  <2>2. w(i) = <<c>> \o w(o)
    BY <1>3, UnescapeSteps
  <2>3. w(o) \in Seq(Nat)
    BY <2>1, UnescapeText
  <2>4. i \in 1 .. Len(q) /\ c \in Nat
    <3>1. i # Len(q) + 1 /\ i \in 1 .. Len(q)
      <4>1. b \in 1 .. Len(q) + 1 /\ i \in 1 .. Len(q) + 1
        BY <1>1
      <4> QED
        BY <1>1, <1>3, <4>1
    <3> QED
      BY <3>1, LiteralIsByte
  <2>5. q[i] \notin Wildcards
    BY <1>3
  <2>6. \A j \in 1 .. m + 1 : M[o][j] <=> At(t, j, w(o)) /\ M[b][j + Len(w(o))]
    BY <1>3
  <2> HIDE DEF w, c
  <2>7. Len(w(i)) = Len(w(o)) + 1 /\ Len(w(o)) \in Nat
    BY <2>2, <2>3
  <2>8. ASSUME NEW j \in 1 .. m + 1 PROVE M[i][j] <=> At(t, j, w(i)) /\ M[b][j + Len(w(i))]
    <3>1. M[i][j] <=> j <= m /\ c = t[j] /\ M[o][j + 1]
      <4>1. j \in 1 .. Len(t) + 1
        BY DEF m
      <4>2. \A k \in 1 .. Len(q) : q[k] \notin Wildcards =>
               (M[k][j] <=> j <= Len(t) /\ Literal(q, k) = t[j] /\ M[Onwards(q, k)][j + 1])
        BY <4>1, TableCells
      <4> QED
        BY <2>4, <2>5, <4>2 DEF m, c
    <3>2. At(t, j, w(i)) <=> j <= m /\ c = t[j] /\ At(t, j + 1, w(o))
      <4>1. j \in Nat
        BY <1>1
      <4> HIDE DEF o
      <4>2. At(t, j, <<c>> \o w(o)) <=> j <= Len(t) /\ c = t[j] /\ At(t, j + 1, w(o))
        BY <2>3, <2>4, <4>1, AtOneMore
      <4> QED
        BY <2>2, <4>2 DEF m
    <3>3. j <= m => (M[o][j + 1] <=> At(t, j + 1, w(o)) /\ M[b][(j + 1) + Len(w(o))])
      <4>1. j <= m => j + 1 \in 1 .. m + 1
        BY <1>1
      <4> QED
        BY <2>6, <4>1
    <3>4. (j + 1) + Len(w(o)) = j + Len(w(i))
      BY <1>1, <2>7
    <3> QED
      BY <3>1, <3>2, <3>3, <3>4
  <2> QED
    BY <2>8
<1>4. \A i \in B : a <= i /\ i <= b => i \in S
  <2> HIDE DEF S
  <2> QED
    BY <1>2, <1>3, CharactersDown
<1>5. a <= a
  BY <1>1
<1>6. a \in S
  BY <1>4, <1>5
<1> QED
  BY <1>6 DEF m

\* The table of PartsMatch: from where the middle parts from one on, and the
\* back part, are found.
AtEnd(parts, t) ==
    [i \in 1 .. Len(t) + 1 |->
        /\ i + Len(parts.end.text) <= Len(t) + 1
        /\ At(t, Len(t) + 1 - Len(parts.end.text), parts.end.text)]
AtMiddle(parts, t, n, row) ==
    [i \in 1 .. Len(t) + 1 |->
        \E j \in i .. Len(t) : At(t, j, parts.middle[n + 1].text) /\ row[j + Len(parts.middle[n + 1].text)]]
OrderRow(f, parts, t, n) ==
    [i \in 1 .. Len(t) + 1 |->
        IF n = Len(parts.middle)
        THEN /\ i + Len(parts.end.text) <= Len(t) + 1
             /\ At(t, Len(t) + 1 - Len(parts.end.text), parts.end.text)
        ELSE \E j \in i .. Len(t) : At(t, j, parts.middle[n + 1].text) /\ f[n + 1][j + Len(parts.middle[n + 1].text)]]
IsOrder(f, parts, t) == f = [n \in 0 .. Len(parts.middle) |-> OrderRow(f, parts, t, n)]
LEMMA OrderRowIs ==
    ASSUME NEW f, NEW parts, NEW t, NEW n
    PROVE  OrderRow(f, parts, t, n) = IF n = Len(parts.middle) THEN AtEnd(parts, t) ELSE AtMiddle(parts, t, n, f[n + 1])
<1>1. CASE n = Len(parts.middle)
  BY <1>1, Zenon DEF OrderRow, AtEnd
<1>2. CASE n # Len(parts.middle)
  BY <1>2, Zenon DEF OrderRow, AtMiddle
<1> QED
  BY <1>1, <1>2

\* That table, row by row.
Orders(f, parts, t) ==
    /\ f[Len(parts.middle)] = AtEnd(parts, t)
    /\ \A n \in 1 .. Len(parts.middle) : f[n - 1] = AtMiddle(parts, t, n - 1, f[n])
LEMMA OrderSteps ==
    ASSUME NEW parts, NEW t \in Seq(Nat), Len(parts.middle) \in Nat
    PROVE  \E f : /\ Orders(f, parts, t)
                  /\ PartsMatch(parts, t) = (At(t, 1, parts.start.text) /\ f[0][Len(parts.start.text) + 1])
<1> DEFINE N == Len(parts.middle)
           D == 0 .. N
           V == Row(t)
           rank == [n \in D |-> N - n]
           stop == {N}
           base == [n \in D |-> AtEnd(parts, t)]
           step == [n \in D |-> [row \in V |-> AtMiddle(parts, t, n, row)]]
           next == [n \in D |-> n + 1]
<1>0. N \in Nat
  OBVIOUS
<1> HIDE DEF N
<1>1. rank \in [D -> 0 .. N]
  BY <1>0
<1>2. AtEnd(parts, t) \in V /\ \A n : \A row \in V : AtMiddle(parts, t, n, row) \in V
  BY DEF AtEnd, AtMiddle, Row
<1>3. ASSUME NEW n \in D, n \notin stop PROVE next[n] \in D /\ rank[next[n]] < rank[n]
  BY <1>0, <1>3
<1>4. ASSUME NEW n \in D PROVE base[n] \in V /\ step[n] \in [V -> V]
  <2>1. base[n] = AtEnd(parts, t) /\ step[n] = [row \in V |-> AtMiddle(parts, t, n, row)]
    OBVIOUS
  <2> HIDE DEF V, base, step
  <2> QED
    BY <1>2, <2>1
<1>5. Descends(D, V, N, rank, stop, base, step, next)
  <2> HIDE DEF D, V, rank, stop, base, step, next
  <2> QED
    BY <1>0, <1>1, <1>3, <1>4 DEF Descends
<1>6. PICK F : Follows(F, D, V, stop, base, step, next)
  <2> HIDE DEF D, V, rank, stop, base, step, next
  <2> QED
    BY <1>5, RankedFunction
<1>7. F \in [D -> V] /\ \A n \in D : F[n] = IF n \in stop THEN base[n] ELSE step[n][F[next[n]]]
  BY <1>6 DEF Follows
<1>8. ASSUME NEW n \in D
      PROVE  F[n] = IF n = N THEN AtEnd(parts, t) ELSE AtMiddle(parts, t, n, F[n + 1])
  <2>1. (n \in stop <=> n = N) /\ base[n] = AtEnd(parts, t) /\ next[n] = n + 1
        /\ step[n] = [row \in V |-> AtMiddle(parts, t, n, row)]
    BY <1>0
  <2>2. ASSUME n # N PROVE step[n][F[next[n]]] = AtMiddle(parts, t, n, F[n + 1])
    <3>1. next[n] \in D
      BY <1>0, <2>2
    <3>2. F[n + 1] \in V
      <4> HIDE DEF D, V, next
      <4> QED
        BY <1>7, <2>1, <3>1
    <3> HIDE DEF D, V, next, step
    <3> QED
      BY <2>1, <3>2
  <2>3. F[n] = IF n \in stop THEN base[n] ELSE step[n][F[next[n]]]
    <3> HIDE DEF D, V, next, step, base, stop
    <3> QED
      BY <1>7
  <2> HIDE DEF D, V, next, step, base, stop
  <2> QED
    BY <2>1, <2>2, <2>3
<1>9. IsOrder(F, parts, t)
  <2>1. ASSUME NEW n \in D PROVE F[n] = OrderRow(F, parts, t, n)
    <3> HIDE DEF D
    <3> QED
      BY <1>8, OrderRowIs DEF N
  <2> HIDE DEF V
  <2>2. F = [n \in D |-> OrderRow(F, parts, t, n)]
    BY <1>7, <2>1, Zenon
  <2> QED
    BY <2>2 DEF IsOrder, N
<1> DEFINE G == CHOOSE G : IsOrder(G, parts, t)
<1>10. IsOrder(G, parts, t)
  BY <1>9
<1>11. PartsMatch(parts, t) = (At(t, 1, parts.start.text) /\ G[0][Len(parts.start.text) + 1])
  BY Zenon DEF PartsMatch, IsOrder, OrderRow, At
<1> HIDE DEF G
<1>12. ASSUME NEW n \in D
       PROVE  G[n] = IF n = N THEN AtEnd(parts, t) ELSE AtMiddle(parts, t, n, G[n + 1])
  <2>1. G[n] = OrderRow(G, parts, t, n)
    BY <1>10, Zenon DEF IsOrder, N
  <2> HIDE DEF D
  <2> QED
    BY <2>1, OrderRowIs DEF N
<1>13. Orders(G, parts, t)
  <2>1. G[N] = AtEnd(parts, t)
    <3>1. N \in D
      BY <1>0
    <3> QED
      BY <1>12, <3>1
  <2>2. ASSUME NEW n \in 1 .. N PROVE G[n - 1] = AtMiddle(parts, t, n - 1, G[n])
    <3> DEFINE c == n - 1
    <3>1. c \in D /\ c # N /\ c + 1 = n
      BY <1>0
    <3> HIDE DEF c, D
    <3>2. G[c] = AtMiddle(parts, t, c, G[c + 1])
      BY <1>12, <3>1
    <3> QED
      BY <3>1, <3>2 DEF c
  <2> QED
    BY <2>1, <2>2 DEF Orders, N
<1> QED
  BY <1>11, <1>13

-----------------------------------------------------------------------------
(* What the parts mean.                                                    *)

\* A part with a literal stretch from c up to g, among percent signs.
LEMMA PartText ==
    ASSUME NEW q \in Seq(Nat), NEW B, Reads(q, B), Clear(q, B), Plain(q, B),
           NEW a \in B, NEW c \in B, NEW g \in B, NEW e \in B, a <= c, c < g, g <= e,
           \A i \in a .. c - 1 : q[i] = Percent,
           \A i \in B : c <= i /\ i < g => q[i] \notin Wildcards,
           \A i \in g .. e - 1 : q[i] = Percent
    PROVE  CreatePattern(Part(q, a, e)) = StringPattern(Unescape(q, c, g - 1))
<1> DEFINE r == Part(q, a, e)
           D == Shifted(B, a, e)
           x == c - (a - 1)
           y == g - (a - 1)
<1>1. a \in Nat \ {0} /\ c \in Nat /\ g \in Nat /\ e \in Nat /\ a <= e /\ c <= g /\ Len(q) \in Nat
  <2>1. Len(q) \in Nat /\ a \in 1 .. Len(q) + 1 /\ c \in 1 .. Len(q) + 1 /\ g \in 1 .. Len(q) + 1 /\ e \in 1 .. Len(q) + 1
    BY DEF Reads
  <2> QED
    BY <2>1
<1>2. r \in Seq(Nat) /\ Len(r) = e - a /\ \A i \in 1 .. e - a : r[i] = q[i + (a - 1)]
  <2>1. a <= e
    BY <1>1
  <2> QED
    BY <2>1, PartReads
<1>3. Reads(r, D)
  BY <1>1, PartReads
<1>4. Clear(r, D) /\ Plain(r, D)
  BY <1>1, PartIsClear, PartIsPlain
<1>5. x \in 1 .. e - a /\ y \in 1 .. (e - a) + 1 /\ x < y /\ x + (a - 1) = c /\ y + (a - 1) = g
  BY <1>1
<1>6. x \in D /\ y \in D
  BY <1>1, <1>5 DEF Shifted
<1>7. Unescape(r, x, y - 1) = Unescape(q, c, g - 1)
  BY <1>1, UnescapePart
<1> HIDE DEF r, x, y
<1>8. ASSUME NEW i \in 1 .. x - 1 PROVE r[i] = Percent
  <2>1. i \in 1 .. e - a /\ i + (a - 1) \in a .. c - 1
    BY <1>1, <1>5
  <2> QED
    BY <1>2, <2>1
<1>9. ASSUME NEW i \in D, x <= i, i < y PROVE r[i] \notin Wildcards
  <2> DEFINE k == i + (a - 1)
  <2>1. i \in 1 .. (e - a) + 1 /\ k \in B
    BY DEF Shifted
  <2>2. i \in 1 .. e - a /\ c <= k /\ k < g
    BY <1>1, <1>5, <1>9, <2>1
  <2>3. r[i] = q[k]
    BY <1>2, <2>2
  <2> HIDE DEF k
  <2> QED
    BY <2>1, <2>2, <2>3
<1>10. ASSUME NEW i \in y .. Len(r) PROVE r[i] = Percent
  <2>1. i \in 1 .. e - a /\ i + (a - 1) \in g .. e - 1
    BY <1>1, <1>2, <1>5
  <2> QED
    BY <1>2, <2>1
<1> HIDE DEF D
<1>11. CreatePattern(r) = StringPattern(Unescape(r, x, y - 1))
  BY <1>2, <1>3, <1>4, <1>5, <1>6, <1>8, <1>9, <1>10, CreatesText
<1> QED
  BY <1>7, <1>11 DEF r

LEMMA LiteralPart ==
    ASSUME NEW q \in Seq(Nat), NEW B, Reads(q, B), Clear(q, B), Plain(q, B),
           NEW a \in B, NEW g \in B, NEW e \in B, a < g, g <= e,
           \A i \in B : a <= i /\ i < g => q[i] \notin Wildcards,
           \A i \in g .. e - 1 : q[i] = Percent
    PROVE  CreatePattern(Part(q, a, e)) = StringPattern(Unescape(q, a, g - 1))
<1>1. a \in Nat
  BY DEF Reads
<1>2. a <= a /\ \A i \in a .. a - 1 : q[i] = Percent
  BY <1>1
<1> QED
  BY <1>2, PartText

\* The texts that the middle parts and the back part find behind a position
\* are those that the pattern finds behind the percent signs.
CutTexts(q, B, end, V, parts) ==
    /\ Len(parts.middle) = Len(V)
    /\ \A k \in 1 .. Len(V) : \A g \in B :
          Stretch(q, B, V[k], g, Gap(V, end, k)) => parts.middle[k].text = Unescape(q, V[k], g - 1)
    /\ parts.end.text = Unescape(q, end, Len(q))
MeansBehind(f, M, m, k, a) == \A x \in 1 .. m + 1 : f[k][x] <=> \E y \in x .. m + 1 : M[a][y]
LEMMA BackMeans ==
    ASSUME NEW q \in Seq(Nat), NEW B, Reads(q, B), NEW t \in Seq(Nat), NEW M, IsTable(M, q, t),
           NEW end \in B, \A i \in B : end <= i /\ i # Len(q) + 1 => q[i] \notin Wildcards,
           NEW V, NEW parts, CutTexts(q, B, end, V, parts), NEW f, Orders(f, parts, t)
    PROVE  MeansBehind(f, M, Len(t), Len(V), end)
<1> DEFINE m == Len(t)
           n == Len(q)
           w == parts.end.text
           c == Len(w)
<1>1. m \in Nat /\ n \in Nat /\ end \in 1 .. n + 1 /\ n + 1 \in B /\ end <= n + 1
  BY DEF Reads
<1>2. w = Unescape(q, end, (n + 1) - 1) /\ Len(parts.middle) = Len(V)
  BY <1>1 DEF CutTexts
<1>3. c \in Nat
  <2>1. Unescape(q, end, (n + 1) - 1) \in Seq(Nat)
    BY <1>1, UnescapeText
  <2> QED
    BY <1>2, <2>1
<1>4. \A y \in 1 .. m + 1 : M[end][y] <=> At(t, y, w) /\ M[n + 1][y + c]
  <2>1. \A i \in B : end <= i /\ i < n + 1 => q[i] \notin Wildcards
    BY <1>1
  <2>2. \A y \in 1 .. Len(t) + 1 : M[end][y] <=> At(t, y, Unescape(q, end, (n + 1) - 1))
                                             /\ M[n + 1][y + Len(Unescape(q, end, (n + 1) - 1))]
    BY <1>1, <2>1, StretchMatches
  <2> QED
    BY <1>2, <2>2
<1>5. \A z \in 1 .. m + 1 : M[n + 1][z] <=> z > m
  BY TableCells
<1>6. \A x \in 1 .. m + 1 : f[Len(V)][x] = (x + c <= m + 1 /\ At(t, m + 1 - c, w))
  BY <1>2, Zenon DEF Orders, AtEnd
<1> HIDE DEF m, n, c, w
<1>7. ASSUME NEW x \in 1 .. m + 1 PROVE f[Len(V)][x] <=> \E y \in x .. m + 1 : M[end][y]
  <2>1. ASSUME x + c <= m + 1, At(t, m + 1 - c, w) PROVE \E y \in x .. m + 1 : M[end][y]
    <3> DEFINE y == m + 1 - c
    <3>1. y \in x .. m + 1 /\ y \in 1 .. m + 1 /\ y + c = m + 1 /\ m + 1 > m /\ m + 1 \in 1 .. m + 1
      BY <1>1, <1>3, <2>1
    <3>2. M[n + 1][y + c]
      BY <1>5, <3>1
    <3>3. At(t, y, w)
      BY <2>1
    <3> HIDE DEF y
    <3> QED
      BY <1>4, <3>1, <3>2, <3>3
  <2>2. ASSUME NEW y \in x .. m + 1, M[end][y] PROVE x + c <= m + 1 /\ At(t, m + 1 - c, w)
    <3>1. y \in 1 .. m + 1
      BY <1>1
    <3>2. At(t, y, w) /\ M[n + 1][y + c]
      BY <1>4, <2>2, <3>1
    <3>3. y + c - 1 <= m
      BY <3>2 DEF At, m, c
    <3>4. y + c \in 1 .. m + 1
      BY <1>1, <1>3, <3>1, <3>3
    <3>5. y + c > m
      BY <1>5, <3>2, <3>4
    <3>6. y = m + 1 - c /\ x + c <= m + 1
      BY <1>1, <1>3, <3>1, <3>3, <3>5
    <3> QED
      BY <3>2, <3>6
  <2> QED
    BY <1>6, <2>1, <2>2
<1> QED
  BY <1>7 DEF MeansBehind, m

LEMMA MiddleMeans ==
    ASSUME NEW q \in Seq(Nat), NEW B, Reads(q, B), NEW t \in Seq(Nat), NEW M, IsTable(M, q, t),
           NEW end \in B, NEW V, Stretches(q, B, end, V), NEW parts, CutTexts(q, B, end, V, parts),
           NEW f, Orders(f, parts, t), NEW k \in 1 .. Len(V), MeansBehind(f, M, Len(t), k, Gap(V, end, k))
    PROVE  MeansBehind(f, M, Len(t), k - 1, Gap(V, end, k - 1))
<1> DEFINE m == Len(t)
           a == V[k]
           e == Gap(V, end, k)
<1>1. V \in Seq(B) /\ Len(V) \in Nat /\ a \in B /\ m \in Nat
  BY DEF Stretches
<1>2. PICK g \in B : Stretch(q, B, a, g, e)
  BY DEF Stretches
<1> DEFINE w == Unescape(q, a, g - 1)
           c == Len(w)
<1>3. e \in B /\ a < g /\ g < e /\ (\A i \in B : a <= i /\ i < g => q[i] \notin Wildcards)
      /\ \A i \in g .. e - 1 : q[i] = Percent
  BY <1>2 DEF Stretch
<1>4. parts.middle[k].text = w
  BY <1>2 DEF CutTexts
<1>5. Gap(V, end, k - 1) = a
  BY <1>1 DEF Gap
<1> HIDE DEF m, a, e
<1>6. a \in 1 .. Len(q) + 1 /\ g \in 1 .. Len(q) + 1 /\ e \in 1 .. Len(q) + 1 /\ Len(q) \in Nat /\ a <= g
  <2>1. Len(q) \in Nat /\ B \subseteq 1 .. Len(q) + 1
    BY DEF Reads
  <2>2. a \in 1 .. Len(q) + 1 /\ g \in 1 .. Len(q) + 1 /\ e \in 1 .. Len(q) + 1
    BY <1>1, <1>3, <2>1
  <2> QED
    BY <1>3, <2>1, <2>2
<1>7. c \in Nat \ {0}
  <2>1. w \in Seq(Nat) /\ Len(w) > 0
    BY <1>1, <1>3, <1>6, UnescapeText
  <2> HIDE DEF w
  <2> QED
    BY <2>1
<1>8. \A j \in 1 .. m + 1 : M[a][j] <=> At(t, j, w) /\ M[g][j + c]
  BY <1>1, <1>3, <1>6, StretchMatches DEF m
<1>9. LeadsTo(M, Len(t), g, e)
  BY <1>3, <1>6, PercentRun
<1> HIDE DEF w, c
<1>10. \A z \in 1 .. m + 1 : f[k][z] <=> M[g][z]
  BY <1>9 DEF LeadsTo, MeansBehind, m, e
<1>11. \A x \in 1 .. m + 1 : f[k - 1][x] <=> \E j \in x .. m : At(t, j, w) /\ f[k][j + c]
  <2>1. f[k - 1] = AtMiddle(parts, t, k - 1, f[k])
    BY DEF Orders, CutTexts
  <2>2. (k - 1) + 1 = k
    BY <1>1
  <2> QED
    BY <1>4, <2>1, <2>2 DEF AtMiddle, m, c
<1>12. ASSUME NEW j \in 1 .. m + 1 PROVE M[a][j] <=> j <= m /\ At(t, j, w) /\ f[k][j + c]
  <2>1. At(t, j, w) => j + c \in 1 .. m + 1 /\ j <= m
    <3>1. At(t, j, w) => j + c - 1 <= m
      BY DEF At, m, c
    <3> QED
      BY <1>1, <1>7, <3>1
  <2>2. At(t, j, w) => (f[k][j + c] <=> M[g][j + c])
    BY <1>10, <2>1
  <2> QED
    BY <1>8, <2>1, <2>2
<1>13. ASSUME NEW x \in 1 .. m + 1 PROVE f[k - 1][x] <=> \E y \in x .. m + 1 : M[a][y]
  <2>1. \A y \in x .. m + 1 : y \in 1 .. m + 1 /\ (y <= m => y \in x .. m)
    BY <1>1
  <2>2. \A y \in x .. m : y \in x .. m + 1 /\ y <= m
    BY <1>1
  <2> QED
    BY <1>11, <1>12, <2>1, <2>2
<1> QED
  BY <1>5, <1>13 DEF MeansBehind, m

LEMMA PartsMean ==
    ASSUME NEW q \in Seq(Nat), NEW B, Reads(q, B), NEW t \in Seq(Nat), NEW M, IsTable(M, q, t),
           NEW end \in B, \A i \in B : end <= i /\ i # Len(q) + 1 => q[i] \notin Wildcards,
           NEW V, Stretches(q, B, end, V), NEW parts, CutTexts(q, B, end, V, parts),
           NEW f, Orders(f, parts, t)
    PROVE  MeansBehind(f, M, Len(t), 0, Gap(V, end, 0))
<1> DEFINE N == Len(V)
           S == {k \in 0 .. N : MeansBehind(f, M, Len(t), k, Gap(V, end, k))}
<1>1. N \in Nat
  BY DEF Stretches
<1>2. N \in S
  <2>1. MeansBehind(f, M, Len(t), N, end)
    BY BackMeans
  <2> QED
    BY <1>1, <2>1 DEF Gap
<1> HIDE DEF N
<1>3. ASSUME NEW k \in 0 .. N, k + 1 .. N \subseteq S PROVE k \in S
  <2>1. CASE k = N
    BY <1>2, <2>1
  <2>2. CASE k # N
    <3> DEFINE c == k + 1
    <3>1. c \in 1 .. N /\ c \in k + 1 .. N /\ c - 1 = k
      BY <1>1, <2>2
    <3>2. c \in S
      BY <1>3, <3>1
    <3> HIDE DEF c
    <3>3. MeansBehind(f, M, Len(t), c, Gap(V, end, c))
      BY <3>2
    <3>4. MeansBehind(f, M, Len(t), c - 1, Gap(V, end, c - 1))
      BY <3>1, <3>3, MiddleMeans DEF N
    <3> QED
      BY <3>1, <3>4
  <2> QED
    BY <2>1, <2>2
<1>4. 0 .. N \subseteq S
  <2> HIDE DEF S
  <2> QED
    BY <1>1, <1>3, Downwards
<1>5. 0 \in 0 .. N
  BY <1>1
<1>6. 0 \in S
  <2> HIDE DEF S
  <2> QED
    BY <1>4, <1>5
<1> QED
  BY <1>6

\* The middle parts that are kept are the texts of the stretches V.
StretchesKept(q, B, end, V) ==
    /\ Len(KeptOf(PartsOf(q))) = Len(V)
    /\ \A k \in 1 .. Len(V) : \A g \in B :
          Stretch(q, B, V[k], g, Gap(V, end, k)) =>
              KeptOf(PartsOf(q))[k] = StringPattern(Unescape(q, V[k], g - 1))

\* The middle parts are the stretches of the walk, percent signs in front of
\* the first one or not; what is empty is not kept.
LEMMA MiddleIs ==
    ASSUME NEW q \in Seq(Nat), NEW B, Reads(q, B), Clear(q, B), Plain(q, B),
           NEW l \in B, l # Len(q) + 1, q[l] = Percent, BackStart(q) = l + 1,
           FrontEnd(q) \in B, FrontEnd(q) <= l + 1
    PROVE  \E V : AmongPercents(q, B, l + 1, FrontEnd(q), V) /\ StretchesKept(q, B, l + 1, V)
<1> DEFINE end == l + 1
           front == FrontEnd(q)
           T == StartsOf(q)
           P == PartsOf(q)
<1>1. Len(q) \in Nat /\ 1 \in B /\ B \subseteq 1 .. Len(q) + 1 /\ l \in 1 .. Len(q) /\ front \in 1 .. Len(q) + 1
  <2>1. Len(q) \in Nat /\ 1 \in B /\ B \subseteq 1 .. Len(q) + 1
    BY DEF Reads
  <2>2. front \in 1 .. Len(q) + 1 /\ l \in 1 .. Len(q) + 1
    BY <2>1
  <2> HIDE DEF front
  <2> QED
    BY <2>1, <2>2
<1>2. end \in 1 .. Len(q) + 1 /\ end \in B
  <2>1. q[l] # Backslash
    BY DEF Percent, Backslash
  <2> QED
    BY <1>1, <2>1, NextCharacter
<1>3. PICK W : Steps(W, q, end) /\ \A i : MiddleStarts(q, i, end) = IF i < end THEN <<i>> \o W[i][0] ELSE << >>
  BY <1>2, WalkSteps
<1> DEFINE V == W[front][2]
           U == W[front][0]
<1>4. /\ AmongPercents(q, B, end, front, V)
      /\ SameButFirst(B, V, U)
  BY <1>3, WalkStretches
<1>5. T = IF front < end THEN <<front>> \o U ELSE << >>
  BY <1>3 DEF StartsOf
<1>6. /\ Stretches(q, B, end, V) /\ Gap(V, end, 0) \in B /\ front <= Gap(V, end, 0)
      /\ \A i \in front .. Gap(V, end, 0) - 1 : q[i] = Percent
  BY <1>4 DEF AmongPercents
<1>7. V \in Seq(B) /\ Len(V) \in Nat
  BY <1>6 DEF Stretches
<1>8. U \in Seq(Positions(B, front, end))
  <2>1. front \in B /\ front <= end /\ 0 \in 0 .. 2
    OBVIOUS
  <2> QED
    BY <1>2, <1>3, <2>1, StartsLie
<1>9. /\ P = [n \in 1 .. Len(T) |-> CreatePattern(Part(q, T[n], StopOf(q, n)))]
      /\ \A n : StopOf(q, n) = IF n = Len(T) THEN end ELSE T[n + 1]
  BY DEF PartsOf, StopOf
<1> HIDE DEF end, front, T, P, V, U
<1>10. Len(T) \in Nat => P \in Seq({P[n] : n \in 1 .. Len(T)}) /\ Len(P) = Len(T)
  <2> SUFFICES ASSUME Len(T) \in Nat PROVE P \in Seq({P[n] : n \in 1 .. Len(T)}) /\ Len(P) = Len(T)
    OBVIOUS
  <2>1. P = [n \in 1 .. Len(T) |-> P[n]]
    BY <1>9
  <2> DEFINE R == {P[n] : n \in 1 .. Len(T)}
  <2>2. \A n \in 1 .. Len(T) : P[n] \in R
    OBVIOUS
  <2> HIDE DEF R
  <2>3. P \in Seq(R) /\ Len(P) = Len(T)
    BY <2>1, <2>2
  <2> QED
    BY <2>3 DEF R
<1>11. front <= end /\ front \in Nat /\ end \in Nat /\ end = l + 1
  BY <1>1, <1>2 DEF front, end
<1>12. \/ KeptOf(P) = << >> /\ V = << >>
       \/ /\ Len(KeptOf(P)) = Len(V)
          /\ \A k \in 1 .. Len(V) : \A g \in B :
                Stretch(q, B, V[k], g, Gap(V, end, k)) => KeptOf(P)[k] = StringPattern(Unescape(q, V[k], g - 1))
  <2>1. CASE V = << >> /\ U = << >>
    <3>1. T = IF front < end THEN <<front>> ELSE << >>
      BY <1>5, <2>1
    <3>2. Gap(V, end, 0) = end
      BY <2>1 DEF Gap
    <3>3. ASSUME NEW n \in 1 .. Len(T) PROVE P[n] = Null
      <4>1. front < end /\ n = 1 /\ Len(T) = 1 /\ T[1] = front
        BY <3>1, <3>3
      <4>2. P[n] = CreatePattern(Part(q, front, end))
        BY <1>9, <3>3, <4>1
      <4>3. /\ Part(q, front, end) \in Seq(Nat) /\ Len(Part(q, front, end)) = end - front
            /\ \A i \in 1 .. end - front : Part(q, front, end)[i] = q[i + (front - 1)]
        <5>1. front \in B /\ end \in B /\ front <= end
          BY <1>2, <1>11 DEF front
        <5> QED
          BY ONLY q \in Seq(Nat), Reads(q, B), <5>1, PartReads
      <4>4. ASSUME NEW i \in 1 .. Len(Part(q, front, end)) PROVE Part(q, front, end)[i] = Percent
        <5>1. i \in 1 .. end - front
          BY <4>3
        <5>2. i + (front - 1) \in front .. end - 1
          BY <1>11, <5>1
        <5>3. q[i + (front - 1)] = Percent
          BY <1>6, <3>2, <5>2
        <5> QED
          BY <4>3, <5>1, <5>3
      <4> QED
        BY <4>2, <4>3, <4>4, CreatesNull
    <3>4. Len(T) \in Nat
      BY <3>1
    <3>5. KeptOf(P) = << >>
      BY <1>10, <3>3, <3>4, PartsKept
    <3> QED
      BY <2>1, <3>5
  <2>2. CASE \E r \in B : V = <<r>> \o U
    <3>1. PICK r \in B : V = <<r>> \o U
      BY <2>2
    <3>2. Len(V) = Len(U) + 1 /\ V[1] = r /\ Len(U) \in Nat /\ \A k \in 1 .. Len(U) : V[k + 1] = U[k]
      BY <1>8, <3>1
    <3>3. r = Gap(V, end, 0)
      BY <3>2 DEF Gap
    <3>4. front < end
      <4>1. PICK g \in B : Stretch(q, B, V[1], g, Gap(V, end, 1))
        <5>1. 1 \in 1 .. Len(V)
          BY <3>2
        <5> QED
          BY <1>6, <5>1 DEF Stretches
      <4>2. r < g /\ q[r] \notin Wildcards
        <5>1. r < g /\ \A i \in B : r <= i /\ i < g => q[i] \notin Wildcards
          BY <3>2, <4>1 DEF Stretch
        <5>2. r <= r
          BY <1>1
        <5> QED
          BY <5>1, <5>2
      <4> SUFFICES ASSUME ~(front < end) PROVE FALSE
        OBVIOUS
      <4>3. front = end
        BY <1>11
      <4>4. \A stage \in 0 .. 2 : W[end][stage] = << >>
        <5>1. end \in 1 .. Len(q) + 2 /\ end >= end
          BY <1>1, <1>2
        <5>2. W[end] = RowEnd
          BY <1>3, <5>1 DEF Steps
        <5> QED
          BY <5>2 DEF RowEnd
      <4>5. V = << >>
        BY <4>3, <4>4 DEF V
      <4> QED
        BY <3>2, <4>5
    <3>5. T = <<front>> \o U
      BY <1>5, <3>4
    <3>6. front \in Positions(B, front, end)
      BY <1>11, <3>4 DEF Positions, front
    <3>7. Len(T) = Len(V) /\ T[1] = front /\ \A k \in 1 .. Len(U) : T[k + 1] = U[k]
      BY <1>8, <3>2, <3>5, <3>6
    <3>8. ASSUME NEW k \in 1 .. Len(V) PROVE /\ StopOf(q, k) = Gap(V, end, k)
                                             /\ k # 1 => T[k] = V[k]
      <4>1. ASSUME NEW i \in 1 .. Len(V), i # 1 PROVE T[i] = V[i]
        <5> DEFINE c == i - 1
        <5>1. c \in 1 .. Len(U) /\ c + 1 = i
          BY <3>2, <4>1
        <5> HIDE DEF c
        <5> QED
          BY <3>2, <3>7, <5>1
      <4>2. CASE k = Len(V)
        BY <1>9, <3>7, <4>1, <4>2 DEF Gap
      <4>3. CASE k # Len(V)
        <5>1. k + 1 \in 1 .. Len(V) /\ k + 1 # 1
          BY <1>7, <4>3
        <5>2. T[k + 1] = V[k + 1]
          BY <4>1, <5>1
        <5> QED
          BY <1>9, <3>7, <4>1, <4>3, <5>2 DEF Gap
      <4> QED
        BY <4>2, <4>3
    <3>9. ASSUME NEW k \in 1 .. Len(V), NEW g \in B, Stretch(q, B, V[k], g, Gap(V, end, k))
          PROVE  P[k] = StringPattern(Unescape(q, V[k], g - 1))
      <4> DEFINE a == T[k]
                 c == V[k]
                 e == Gap(V, end, k)
      <4>1. P[k] = CreatePattern(Part(q, a, e))
        BY <1>9, <3>7, <3>8
      <4>2. c \in B /\ e \in B /\ c < g /\ g < e
            /\ (\A i \in B : c <= i /\ i < g => q[i] \notin Wildcards)
            /\ \A i \in g .. e - 1 : q[i] = Percent
        BY <1>7, <3>9 DEF Stretch
      <4> HIDE DEF a, c, e
      <4>3. a \in B /\ a <= c /\ \A i \in a .. c - 1 : q[i] = Percent
        <5>1. CASE k = 1
          <6>1. a = front /\ c = Gap(V, end, 0)
            BY <3>2, <3>3, <3>7, <5>1 DEF a, c
          <6>2. front \in B
            BY DEF front
          <6> QED
            BY <1>6, <6>1, <6>2
        <5>2. CASE k # 1
          <6>1. a = c
            BY <3>8, <5>2 DEF a, c
          <6>2. c \in Nat
            BY <1>1, <4>2
          <6>3. a <= c /\ \A i \in a .. c - 1 : FALSE
            BY <6>1, <6>2
          <6> QED
            BY <4>2, <6>1, <6>3
        <5> QED
          BY <5>1, <5>2
      <4>4. g <= e
        <5>1. g \in Nat /\ e \in Nat
          BY <1>1, <4>2
        <5> QED
          BY <4>2, <5>1
      <4>5. CreatePattern(Part(q, a, e)) = StringPattern(Unescape(q, c, g - 1))
        <5>1. e \in B /\ c \in B /\ a \in B /\ a <= c /\ c < g /\ g <= e
          BY <4>2, <4>3, <4>4
        <5>2. \A i \in a .. c - 1 : q[i] = Percent
          BY <4>3
        <5>3. \A i \in B : c <= i /\ i < g => q[i] \notin Wildcards
          BY <4>2
        <5>4. \A i \in g .. e - 1 : q[i] = Percent
          BY <4>2
        <5> QED
          BY <5>1, <5>2, <5>3, <5>4, PartText
      <4> QED
        BY <4>1, <4>5 DEF c
    <3>10. ASSUME NEW n \in 1 .. Len(T) PROVE P[n] # Null
      <4>1. PICK g \in B : Stretch(q, B, V[n], g, Gap(V, end, n))
        BY <1>6, <3>7 DEF Stretches
      <4>2. P[n] = StringPattern(Unescape(q, V[n], g - 1))
        BY <3>7, <3>9, <4>1
      <4> QED
        BY <4>2 DEF StringPattern, Null
    <3>11. KeptOf(P) = P /\ Len(P) = Len(V)
      <4>1. Len(T) \in Nat
        BY <1>7, <3>7
      <4> QED
        BY <1>10, <3>7, <3>10, <4>1, PartsKept
    <3> QED
      BY <3>9, <3>11
  <2> QED
    BY <1>4, <2>1, <2>2 DEF SameButFirst
<1>13. V = << >> => Len(V) = 0
  OBVIOUS
<1>14. /\ Len(KeptOf(P)) = Len(V)
       /\ \A k \in 1 .. Len(V) : \A g \in B :
             Stretch(q, B, V[k], g, Gap(V, end, k)) => KeptOf(P)[k] = StringPattern(Unescape(q, V[k], g - 1))
  <2>1. Len(<< >>) = 0 /\ \A k \in 1 .. 0 : FALSE
    OBVIOUS
  <2> QED
    BY <1>12, <1>13, <2>1
<1>15. AmongPercents(q, B, l + 1, FrontEnd(q), V) /\ StretchesKept(q, B, l + 1, V)
  BY <1>4, <1>14 DEF StretchesKept, end, front, P
<1> QED
  BY <1>15

\* The parts of a pattern with a percent sign mean what the pattern means.
LEMMA CutIsLike ==
    ASSUME NEW q \in Seq(Nat), NEW B, Reads(q, B), Clear(q, B), Plain(q, B),
           NEW z \in B, z # Len(q) + 1, q[z] = Percent, NEW t \in Seq(Nat)
    PROVE  PartsMatch(SplitIntoSubpatterns(q), t) = Like(q, t)
<1> DEFINE n == Len(q)
           m == Len(t)
           front == FrontEnd(q)
           parts == SplitIntoSubpatterns(q)
<1>1. n \in Nat \ {0} /\ m \in Nat /\ 1 \in B /\ n + 1 \in B /\ B \subseteq 1 .. n + 1 /\ z \in 1 .. n
  <2>1. n \in Nat /\ m \in Nat /\ 1 \in B /\ n + 1 \in B /\ B \subseteq 1 .. n + 1
    BY DEF Reads
  <2>2. z \in 1 .. n + 1 /\ z # n + 1
    BY <2>1
  <2> HIDE DEF n, m
  <2> QED
    BY <2>1, <2>2
<1>2. \A i \in B : i \in Nat /\ 1 <= i /\ i <= n + 1
  BY <1>1
<1>3. PICK l \in 0 .. n : /\ l # 0 => l \in B /\ q[l] = Percent
                          /\ \A i \in B : l < i /\ i # n + 1 => q[i] # Percent
                          /\ BackStart(q) \in B /\ l < BackStart(q)
                          /\ \A i \in l + 1 .. BackStart(q) - 1 : q[i] = Underscore
                          /\ SeenAsPercent(q, n) <=> l = n
  BY <1>1, BackIs
<1> HIDE DEF n, m
<1>4. l \in B /\ q[l] = Percent /\ l \in 1 .. n /\ l # n + 1
  <2>1. ~(l < z)
    BY <1>1, <1>3 DEF n
  <2>2. l # 0
    BY <1>1, <2>1
  <2> QED
    BY <1>1, <1>3, <2>2
<1> DEFINE end == l + 1
<1>5. end \in B /\ end \in 1 .. n + 1
  <2>1. q[l] # Backslash /\ l # Len(q) + 1
    BY <1>4 DEF n, Percent, Backslash
  <2>2. l + 1 \in B
    BY <1>4, <2>1, NextCharacter
  <2> QED
    BY <1>1, <1>4, <2>2
<1>6. BackStart(q) = end
  <2> SUFFICES ASSUME BackStart(q) # l + 1 PROVE FALSE
    OBVIOUS
  <2>1. BackStart(q) \in Nat /\ BackStart(q) <= n + 1
    BY <1>2, <1>3
  <2>2. l + 1 \in l + 1 .. BackStart(q) - 1 /\ l + 1 # n + 1
    BY <1>1, <1>3, <1>4, <2>1
  <2>3. q[l + 1] = Underscore
    BY <1>3, <2>2
  <2> QED
    BY <1>5, <2>2, <2>3 DEF Plain, n
<1>7. \A i \in B : i # n + 1 => q[i] = Percent \/ q[i] \notin Wildcards
  BY DEF Plain, Wildcards, n
<1>8. \A i \in B : end <= i /\ i # n + 1 => q[i] \notin Wildcards
  <2>1. \A i \in B : end <= i => l < i
    BY <1>2, <1>4
  <2> QED
    BY <1>3, <1>7, <2>1
<1>9. front \in B /\ \E h \in B :
         /\ h <= front /\ front <= end
         /\ \A i \in B : i < h => q[i] \notin Wildcards
         /\ \A i \in h .. front - 1 : q[i] = Percent
         /\ q[1] = Percent => h = 1 /\ front = 1
         /\ q[1] # Percent => 1 < h /\ h < front
  <2>0. n # 0
    BY <1>1
  <2>1. CASE q[1] = Percent
    <3>1. front = 1
      BY <2>0, <2>1, FrontIs DEF n
    <3>2. (\A i \in B : ~(i < 1)) /\ (\A i \in 1 .. 1 - 1 : FALSE) /\ 1 <= 1 /\ 1 <= end
      BY <1>2, <1>4
    <3> HIDE DEF front
    <3> QED
      BY <1>1, <2>1, <3>1, <3>2
  <2>2. CASE q[1] # Percent
    <3>1. front \in B
      BY <2>0, FrontIs DEF n
    <3>2. PICK h \in B : /\ 1 < h /\ h <= front
                         /\ h # Len(q) + 1 => q[h] = Percent
                         /\ \A i \in B : i < h => q[i] # Percent
                         /\ \A i \in h .. front - 1 : q[i] \in Wildcards
                         /\ front # Len(q) + 1 => q[front] \notin Wildcards
      BY <2>0, <2>2, FrontIs DEF n
    <3> HIDE DEF front
    <3>3. h \in 1 .. n + 1 /\ front \in 1 .. n + 1
      BY <1>1, <3>1
    <3>4. h <= l
      <4>1. ~(l < h)
        BY <1>4, <3>2
      <4> QED
        BY <1>4, <3>3, <4>1
    <3>5. \A i \in h .. front : i \in B
      <4>1. front \in h .. Len(q) + 1
        BY <3>2, <3>3 DEF n
      <4>2. h .. front \subseteq B
        BY <3>2, <4>1, WildcardRun
      <4> QED
        BY <4>2
    <3>6. \A i \in h .. front - 1 : i \in B /\ i # n + 1 /\ q[i] = Percent
      <4>1. \A i \in h .. front - 1 : i \in h .. front /\ i # n + 1
        BY <1>1, <3>3
      <4> QED
        BY <1>7, <3>2, <3>5, <4>1
    <3>7. h < front
      <4> SUFFICES ASSUME h = front PROVE FALSE
        BY <3>2, <3>3
      <4>1. h # n + 1
        BY <1>1, <1>4, <3>3, <3>4
      <4> QED
        BY <3>2, <4>1 DEF n, Wildcards
    <3>8. front <= end
      <4> SUFFICES ASSUME front > l + 1 PROVE FALSE
        BY <1>4, <3>3
      <4>1. front - 1 \in h .. front - 1 /\ l < front - 1
        BY <1>4, <3>3, <3>7
      <4> QED
        BY <1>3, <3>6, <4>1
    <3>9. \A i \in B : i < h => q[i] \notin Wildcards
      <4>1. \A i \in B : i < h => i # n + 1
        BY <1>2, <3>3
      <4> QED
        BY <1>7, <3>2, <4>1
    <3> QED
      BY <2>2, <3>1, <3>2, <3>6, <3>7, <3>8, <3>9
  <2> QED
    BY <2>1, <2>2
<1>10. PICK h \in B :
         /\ h <= front /\ front <= end
         /\ \A i \in B : i < h => q[i] \notin Wildcards
         /\ \A i \in h .. front - 1 : q[i] = Percent
         /\ q[1] = Percent => h = 1 /\ front = 1
         /\ q[1] # Percent => 1 < h /\ h < front
  BY <1>9
<1>11. PICK V : AmongPercents(q, B, end, front, V) /\ StretchesKept(q, B, end, V)
  <2>1. /\ l \in B /\ l # Len(q) + 1 /\ q[l] = Percent
        /\ BackStart(q) = l + 1 /\ FrontEnd(q) \in B /\ FrontEnd(q) <= l + 1
    BY <1>4, <1>6, <1>9, <1>10 DEF n
  <2> QED
    BY <2>1, MiddleIs
<1> DEFINE e == Gap(V, end, 0)
<1>12. /\ Stretches(q, B, end, V) /\ e \in B /\ front <= e
       /\ \A i \in front .. e - 1 : q[i] = Percent
  BY <1>11 DEF AmongPercents
<1>13. /\ parts.start = IF q[1] = Percent THEN Null ELSE CreatePattern(Part(q, 1, front))
       /\ parts.middle = KeptOf(PartsOf(q))
       /\ parts.end = IF SeenAsPercent(q, n) THEN Null
                      ELSE IF end > n THEN Null ELSE CreatePattern(Part(q, end, n + 1))
  BY <1>6, SplitIs DEF n
<1> DEFINE w == Unescape(q, 1, h - 1)
<1> HIDE DEF front, parts, e, end
<1>14. parts.start.text = w /\ w \in Seq(Nat)
  <2>0. 1 <= h
    BY <1>2
  <2>1. w \in Seq(Nat)
    BY <1>1, <2>0, UnescapeText
  <2>2. CASE q[1] = Percent
    <3>1. w = << >>
      BY <1>1, <1>10, <2>2, UnescapeSteps
    <3>2. Null.text = << >>
      BY DEF Null
    <3> QED
      BY <1>13, <2>1, <2>2, <3>1, <3>2
  <2>3. CASE q[1] # Percent
    <3>1. CreatePattern(Part(q, 1, front)) = StringPattern(w)
      <4>1. 1 \in B /\ h \in B /\ front \in B /\ 1 < h /\ h <= front
        BY <1>1, <1>9, <1>10, <2>3
      <4>3. \A i \in B : 1 <= i /\ i < h => q[i] \notin Wildcards
        BY <1>10
      <4>4. \A i \in h .. front - 1 : q[i] = Percent
        BY <1>10
      <4> QED
        BY <4>1, <4>3, <4>4, LiteralPart
    <3> QED
      BY <1>13, <2>1, <2>3, <3>1 DEF StringPattern
  <2> QED
    BY <2>2, <2>3
<1>15. parts.end.text = Unescape(q, end, n)
  <2>1. (n + 1) - 1 = n /\ end = l + 1
    BY <1>1 DEF end
  <2>2. CASE l = n
    <3>1. Unescape(q, n + 1, (n + 1) - 1) = << >>
      BY <1>1, UnescapeSteps
    <3>2. Null.text = << >>
      BY DEF Null
    <3> QED
      BY <1>3, <1>13, <2>1, <2>2, <3>1, <3>2
  <2>3. CASE l # n
    <3>1. ~(end > n) /\ end < n + 1 /\ n + 1 <= n + 1 /\ ~SeenAsPercent(q, n)
      BY <1>1, <1>3, <1>4, <2>1, <2>3
    <3>2. CreatePattern(Part(q, end, n + 1)) = StringPattern(Unescape(q, end, (n + 1) - 1))
      <4>1. end \in B /\ n + 1 \in B
        BY <1>1, <1>5 DEF end
      <4>2. \A i \in n + 1 .. (n + 1) - 1 : q[i] = Percent
        BY <1>1, <1>4, <2>1
      <4>3. \A i \in B : end <= i /\ i < n + 1 => q[i] \notin Wildcards
        <5>1. \A i \in B : i < n + 1 => i # n + 1
          BY <1>1
        <5> QED
          BY <1>8, <5>1 DEF end
      <4> QED
        BY <3>1, <4>1, <4>2, <4>3, LiteralPart
    <3> QED
      BY <1>13, <2>1, <3>1, <3>2 DEF StringPattern
  <2> QED
    BY <2>2, <2>3
<1>16. CutTexts(q, B, end, V, parts)
  <2>1. ASSUME NEW k \in 1 .. Len(V), NEW g \in B, Stretch(q, B, V[k], g, Gap(V, end, k))
        PROVE  parts.middle[k].text = Unescape(q, V[k], g - 1)
    <3>1. parts.middle[k] = StringPattern(Unescape(q, V[k], g - 1))
      BY <1>11, <1>13, <2>1 DEF StretchesKept
    <3> QED
      BY <3>1 DEF StringPattern
  <2> QED
    BY <1>11, <1>13, <1>15, <2>1 DEF StretchesKept, CutTexts, n
<1>17. PICK M : IsTable(M, q, t) /\ Like(q, t) = M[1][1]
  BY LikeSteps
<1>18. PICK f : /\ Orders(f, parts, t)
                /\ PartsMatch(parts, t) = (At(t, 1, parts.start.text) /\ f[0][Len(parts.start.text) + 1])
  <2>1. Len(parts.middle) \in Nat
    BY <1>11, <1>12, <1>13 DEF Stretches, StretchesKept
  <2> QED
    BY <2>1, OrderSteps
<1>19. MeansBehind(f, M, Len(t), 0, e)
  <2>1. end \in B
    BY <1>5 DEF end
  <2>2. \A i \in B : end <= i /\ i # Len(q) + 1 => q[i] \notin Wildcards
    BY <1>8 DEF end, n
  <2>3. IsTable(M, q, t) /\ Orders(f, parts, t) /\ Stretches(q, B, end, V)
    BY <1>12, <1>17, <1>18
  <2> QED
    BY <1>16, <2>1, <2>2, <2>3, PartsMean DEF e
<1>20. \A i \in h .. e - 1 : q[i] = Percent
  <2>1. h \in Nat /\ front \in Nat /\ e \in Nat
    BY <1>2, <1>9, <1>12
  <2>2. \A i \in h .. e - 1 : i \in h .. front - 1 \/ i \in front .. e - 1
    BY <2>1
  <2> QED
    BY <1>10, <1>12, <2>2
<1>21. h < e
  <2>1. h \in Nat /\ front \in Nat /\ e \in Nat
    BY <1>2, <1>9, <1>12
  <2>2. CASE q[1] # Percent
    BY <1>10, <1>12, <2>1, <2>2
  <2>3. CASE q[1] = Percent
    <3> SUFFICES ASSUME e = 1 PROVE FALSE
      BY <1>2, <1>10, <1>12, <2>1, <2>3
    <3>1. CASE Len(V) = 0
      <4>1. e = l + 1
        BY <3>1 DEF e, Gap, end
      <4> QED
        BY <1>4, <4>1
    <3>2. CASE Len(V) # 0
      <4>1. 1 \in 1 .. Len(V) /\ V[1] = 1
        <5>1. Len(V) \in Nat
          BY <1>12 DEF Stretches
        <5>2. e = V[1]
          BY <3>2 DEF e, Gap
        <5> QED
          BY <3>2, <5>1, <5>2
      <4>2. PICK g \in B : Stretch(q, B, V[1], g, Gap(V, end, 1))
        BY <1>12, <4>1 DEF Stretches
      <4>3. q[1] \notin Wildcards
        BY <1>1, <4>1, <4>2 DEF Stretch
      <4> QED
        BY <2>3, <4>3 DEF Wildcards
    <3> QED
      BY <3>1, <3>2
  <2> QED
    BY <2>2, <2>3
<1>22. LeadsTo(M, Len(t), h, e)
  <2>1. h \in 1 .. Len(q) + 1 /\ e \in 1 .. Len(q) + 1
    BY <1>1, <1>12 DEF n
  <2>2. IsTable(M, q, t)
    BY <1>17
  <2> QED
    BY <1>20, <1>21, <2>1, <2>2, PercentRun
<1>23. \A x \in 1 .. m + 1 : f[0][x] <=> M[h][x]
  BY <1>19, <1>22 DEF LeadsTo, MeansBehind, m
<1>24. M[1][1] <=> At(t, 1, w) /\ M[h][1 + Len(w)]
  <2>1. 1 <= h /\ \A i \in B : 1 <= i /\ i < h => q[i] \notin Wildcards
    BY <1>2, <1>10
  <2>2. IsTable(M, q, t) /\ 1 \in 1 .. Len(t) + 1
    BY <1>1, <1>17 DEF m
  <2>3. \A j \in 1 .. Len(t) + 1 : M[1][j] <=> At(t, j, Unescape(q, 1, h - 1)) /\ M[h][j + Len(Unescape(q, 1, h - 1))]
    BY <1>1, <2>1, <2>2, StretchMatches
  <2> QED
    BY <2>2, <2>3
<1> HIDE DEF w
<1>25. At(t, 1, w) => Len(w) + 1 \in 1 .. m + 1 /\ 1 + Len(w) = Len(w) + 1
  <2>1. At(t, 1, w) => 1 + Len(w) - 1 <= m
    BY DEF At, m
  <2>2. Len(w) \in Nat
    BY <1>14
  <2> QED
    BY <1>1, <2>1, <2>2
<1>26. PartsMatch(parts, t) <=> M[1][1]
  BY <1>14, <1>18, <1>23, <1>24, <1>25
<1>27. M[1][1] \in BOOLEAN
  <2>1. 1 \in 1 .. Len(t) + 1 /\ 1 \in 1 .. Len(q) + 2
    BY <1>1 DEF n, m
  <2> QED
    BY <1>17, <2>1, TableCells
<1>28. PartsMatch(parts, t) \in BOOLEAN
  BY <1>18
<1> QED
  BY <1>17, <1>26, <1>27, <1>28 DEF parts

-----------------------------------------------------------------------------
(* What cutting does to the patterns that are grown, if they are shorter   *)
(* than the counter of underscores can count.                              *)

\* No wildcard stands behind an escaped backslash: the byte in front of it
\* says whether it is escaped.
LEMMA ClearIs ==
    ASSUME LikeCutType, ~BehindBackslash
    PROVE  Clear(p, Begins)
<1> SUFFICES ASSUME NEW i \in Begins, i # 1, i # Len(p) + 1, p[i] \in Wildcards, p[i - 1] = Backslash
             PROVE  FALSE
  BY DEF Clear
<1>1. Len(p) \in Nat \ {0}
  BY BytesAreNumbers
<1>2. i \in 1 .. Len(p) /\ ~EscapedAt(i)
  BY DEF Begins
<1>3. i \in 2 .. Len(p)
  BY <1>1, <1>2
<1> QED
  BY <1>2, <1>3 DEF BehindBackslash

\* The only underscore among the characters of a pattern that the code accepts
\* is one that is lost.
LEMMA UnderscoreIsRefused ==
    ASSUME MaxPattern < CountRange, LikeCutType, WellFormedPattern(p),
           Implemented(SplitIntoSubpatterns(p)),
           NEW u \in Begins, u # Len(p) + 1, p[u] = Underscore
    PROVE  Lost(p, u)
<1>1. p \in Seq(Nat) /\ Len(p) \in Nat \ {0}
  BY BytesAreNumbers
<1>2. Reads(p, Begins)
  BY <1>1, PatternReads
<1>3. Len(p) < CountRange
  <2>1. Len(p) <= MaxPattern
    BY DEF LikeCutType
  <2> QED
    BY <1>1, <2>1, BytesAssumption DEF CountRange
<1> QED
  BY <1>1, <1>2, <1>3, SplitIsRefused

\* If no wildcard stands behind an escaped backslash, there is none.
LEMMA AcceptedIsPlain ==
    ASSUME MaxPattern < CountRange, LikeCutType, WellFormedPattern(p), ~BehindBackslash,
           Implemented(SplitIntoSubpatterns(p))
    PROVE  Plain(p, Begins)
<1> SUFFICES ASSUME NEW u \in Begins, u # Len(p) + 1, p[u] = Underscore PROVE FALSE
  BY DEF Plain
<1>1. Lost(p, u)
  BY UnderscoreIsRefused
<1>2. Clear(p, Begins)
  BY ClearIs
<1> QED
  BY <1>1, <1>2 DEF Lost, Clear, Wildcards

\* A pattern in which an underscore stands that no backslash escapes is one
\* that the code refuses, wherever in the pattern the underscore stands and
\* whatever stands around it: splitIntoSubpatterns neither drops it nor takes
\* it for a literal.  The gap is the one of createPattern, an underscore behind
\* an escaped backslash and the last byte of its part (UnderscoresAreRefused).
THEOREM NoUnderscoreIsLost ==
    ASSUME MaxPattern < CountRange
    PROVE  Spec => []UnderscoresAreRefused
<1>1. ASSUME LikeCutType PROVE UnderscoresAreRefused
  <2> SUFFICES ASSUME WellFormedPattern(p), Implemented(SplitIntoSubpatterns(p)),
                      NEW i \in 1 .. Len(p), p[i] = Underscore, ~EscapedAt(i)
               PROVE  LastBehindBackslash(i)
    BY DEF UnderscoresAreRefused
  <2>1. i \in Begins /\ i # Len(p) + 1
    <3>1. Len(p) \in Nat
      BY <1>1, BytesAreNumbers
    <3> QED
      BY <3>1 DEF Begins
  <2>2. Lost(p, i)
    BY <1>1, <2>1, UnderscoreIsRefused
  <2> QED
    BY <2>2 DEF Lost, LastBehindBackslash
<1> QED
  BY <1>1, BytesOnly, PTL

\* The parts that splitIntoSubpatterns cuts a pattern with a percent sign into
\* ask of every text what LIKE asks of it with the whole pattern: the text
\* begins with the front part, ends with the back part, and holds the middle
\* parts between them, in their order and apart (CutMeansLike, with the same
\* exception).
THEOREM PartsMeanThePattern ==
    ASSUME MaxPattern < CountRange
    PROVE  Spec => []CutMeansLike
<1>1. ASSUME LikeCutType PROVE CutMeansLike
  <2> SUFFICES ASSUME Supported, ~BehindBackslash
               PROVE  PartsMatch(SplitIntoSubpatterns(p), s) = Like(p, s)
    BY DEF CutMeansLike
  <2>1. p \in Seq(Nat) /\ s \in Seq(Nat) /\ Len(p) \in Nat \ {0}
    BY <1>1, BytesAreNumbers
  <2>2. WellFormedPattern(p) /\ HasPercent /\ Implemented(SplitIntoSubpatterns(p))
    BY DEF Supported
  <2>3. Reads(p, Begins)
    BY <2>1, <2>2, PatternReads
  <2>4. Clear(p, Begins) /\ Plain(p, Begins)
    BY <1>1, <2>2, ClearIs, AcceptedIsPlain
  <2>5. PICK z \in 1 .. Len(p) : p[z] = Percent /\ ~EscapedAt(z)
    BY <2>2 DEF HasPercent
  <2>6. z \in Begins /\ z # Len(p) + 1
    BY <2>1, <2>5 DEF Begins
  <2> QED
    BY <2>1, <2>3, <2>4, <2>5, <2>6, CutIsLike
<1> QED
  BY <1>1, BytesOnly, PTL
=============================================================================
