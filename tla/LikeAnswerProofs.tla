-------------------------- MODULE LikeAnswerProofs --------------------------
(***************************************************************************)
(* Theorems about the answer of the matcher for decompressed text: it is   *)
(* TRUE if and only if the parts of the pattern lie in the text, although  *)
(* the matcher never takes back a part for which it has found a place.     *)
(***************************************************************************)
EXTENDS LikeProgramProofs

-----------------------------------------------------------------------------
(* Where the bytes of a part lie.                                          *)

\* What holds at m and, if it holds in front of i, at i, holds for all of
\* m .. n; the set S stands for what it holds for.
LEMMA Upwards ==
    ASSUME NEW m \in Nat, NEW n \in Nat, NEW S, m \in S,
           \A i \in m + 1 .. n : i - 1 \in S => i \in S
    PROVE  m .. n \subseteq S
<1> DEFINE Bad == (m .. n) \ S
<1> SUFFICES ASSUME Bad # {} PROVE FALSE
  OBVIOUS
<1>1. PICK k \in Bad : IsLeast(k, Bad)
  <2>1. Bad \in SUBSET Nat
    OBVIOUS
  <2> HIDE DEF Bad
  <2> QED
    BY <2>1, LeastNat
<1>2. k \in m + 1 .. n /\ k - 1 \notin Bad
  BY <1>1 DEF IsLeast
<1> QED
  BY <1>1, <1>2

\* What Way is: it begins at i, and goes on by StepTo.
LEMMA WaySteps ==
    ASSUME NEW p, NEW s, NEW w, Len(w) \in Nat, NEW t \in 0 .. Len(w), NEW i
    PROVE  /\ Way(p, s, w, t, i)[t] = i
           /\ \A k \in t + 1 .. Len(w) :
                 Way(p, s, w, t, i)[k] = StepTo(p, s, w[k], Way(p, s, w, t, i)[k - 1])
<1> DEFINE n == Len(w)
           rule(way, k) == IF k = t THEN i ELSE StepTo(p, s, w[k], way[k - 1])
           S == {m \in t .. n : \E way : way = [k \in t .. m |-> rule(way, k)]}
<1>0. n \in Nat /\ t \in Nat /\ t <= n
  OBVIOUS
<1> HIDE DEF n
<1>1. t \in S
  <2> DEFINE one == [k \in t .. t |-> i]
  <2>1. one = [k \in t .. t |-> rule(one, k)]
    BY <1>0
  <2>2. \E way : way = [k \in t .. t |-> rule(way, k)]
    BY <2>1, Zenon
  <2> QED
    BY <1>0, <2>2
<1>2. ASSUME NEW m \in t + 1 .. n, m - 1 \in S PROVE m \in S
  <2>1. PICK way : way = [k \in t .. m - 1 |-> rule(way, k)]
    BY <1>2
  <2> DEFINE longer == [k \in t .. m |-> IF k = m THEN rule(way, m) ELSE way[k]]
  <2>2. ASSUME NEW k \in t .. m PROVE longer[k] = rule(longer, k)
    <3>1. k # t => k - 1 \in t .. m - 1 /\ longer[k - 1] = way[k - 1]
      BY <1>0
    <3>2. rule(longer, k) = rule(way, k)
      BY <3>1
    <3>3. k # m => k \in t .. m - 1 /\ way[k] = rule(way, k)
      BY <1>0, <2>1
    <3> QED
      BY <3>2, <3>3
  <2>3. longer = [k \in t .. m |-> rule(longer, k)]
    BY <2>2
  <2>4. \E v : v = [k \in t .. m |-> rule(v, k)]
    BY <2>3, Zenon
  <2> QED
    BY <1>0, <2>4
<1>3. n \in S
  <2> HIDE DEF S
  <2>1. t .. n \subseteq S
    BY <1>0, <1>1, <1>2, Upwards
  <2> QED
    BY <1>0, <2>1
<1>4. PICK way : way = [k \in t .. n |-> rule(way, k)]
  BY <1>3
<1> DEFINE walked == Way(p, s, w, t, i)
<1>5. walked = [k \in t .. n |-> rule(walked, k)]
  BY <1>4 DEF Way, n
<1> HIDE DEF walked
<1>6. ASSUME NEW k \in t .. n PROVE walked[k] = rule(walked, k)
  BY <1>5
<1>7. walked[t] = i
  BY <1>0, <1>6
<1>8. ASSUME NEW k \in t + 1 .. n PROVE walked[k] = StepTo(p, s, w[k], walked[k - 1])
  <2>1. k \in t .. n /\ k # t
    BY <1>0
  <2> QED
    BY <1>6, <2>1
<1> QED
  BY <1>7, <1>8 DEF walked, n

\* A way over no bytes ends where it begins.
LEMMA NothingLeft ==
    ASSUME NEW p, NEW s, NEW w, Len(w) \in Nat, NEW i
    PROVE  EndFrom(p, s, w, Len(w), i) = i
<1> DEFINE t == Len(w)
<1>1. t \in 0 .. Len(w) /\ t = Len(w)
  OBVIOUS
<1> HIDE DEF t
<1>2. /\ Way(p, s, w, t, i)[t] = i
      /\ \A k \in t + 1 .. Len(w) :
            Way(p, s, w, t, i)[k] = StepTo(p, s, w[k], Way(p, s, w, t, i)[k - 1])
  BY <1>1, WaySteps
<1> QED
  BY <1>1, <1>2 DEF EndFrom

\* A step ends behind its beginning, or behind the text.
LEMMA StepEnds ==
    ASSUME NEW p, NEW s \in Seq(Byte), NEW c, NEW i \in Nat
    PROVE  /\ StepTo(p, s, c, i) \in Nat
           /\ StepTo(p, s, c, i) <= Len(s) => i < Len(s) /\ i + 1 <= StepTo(p, s, c, i)
<1>1. CASE i >= Len(s)
  BY <1>1 DEF StepTo
<1>2. CASE i < Len(s)
  <2>1. s[i + 1] \in Byte
    BY <1>2
  <2>2. MultiByteSequenceLength(s[i + 1]) \in 1 .. 4
    BY <2>1, CodePointLengths
  <2> QED
    BY <1>2, <2>2 DEF StepTo
<1> QED
  BY <1>1, <1>2

\* A way that does not leave the text goes on by at least one byte a step.
LEMMA WayGrows ==
    ASSUME NEW p, NEW s \in Seq(Byte), NEW w, Len(w) \in Nat, NEW t \in 0 .. Len(w), NEW i \in Nat,
           NEW j \in t .. Len(w)
    PROVE  \A k \in j .. Len(w) :
              /\ Way(p, s, w, t, i)[k] \in Nat
              /\ Way(p, s, w, t, i)[k] <= Len(s) =>
                    Way(p, s, w, t, i)[j] + (k - j) <= Way(p, s, w, t, i)[k]
<1> DEFINE way == Way(p, s, w, t, i)
           n == Len(w)
           Typed == {k \in t .. n : way[k] \in Nat}
           S == {k \in j .. n : way[k] <= Len(s) => way[j] + (k - j) <= way[k]}
<1>0. n \in Nat /\ t \in Nat /\ t <= j /\ j \in Nat /\ j <= n /\ Len(s) \in Nat
  OBVIOUS
<1>1. way[t] = i /\ \A k \in t + 1 .. n : way[k] = StepTo(p, s, w[k], way[k - 1])
  BY WaySteps
<1> HIDE DEF way, n
<1>2. t .. n \subseteq Typed
  <2>1. t \in Typed
    BY <1>0, <1>1
  <2>2. ASSUME NEW k \in t + 1 .. n, k - 1 \in Typed PROVE k \in Typed
    BY <1>0, <1>1, <2>2, StepEnds
  <2> HIDE DEF Typed
  <2> QED
    BY <1>0, <2>1, <2>2, Upwards
<1>3. j .. n \subseteq S
  <2>1. j \in S
    <3>1. way[j] \in Nat
      BY <1>0, <1>2
    <3> QED
      BY <1>0, <3>1
  <2>2. ASSUME NEW k \in j + 1 .. n, k - 1 \in S PROVE k \in S
    <3>1. k \in t + 1 .. n /\ k - 1 \in t .. n /\ k \in t .. n /\ k \in j .. n
      BY <1>0
    <3>2. way[k] = StepTo(p, s, w[k], way[k - 1]) /\ way[k - 1] \in Nat /\ way[k] \in Nat /\ way[j] \in Nat
      BY <1>0, <1>1, <1>2, <3>1
    <3>3. way[k] <= Len(s) => way[k - 1] < Len(s) /\ way[k - 1] + 1 <= way[k]
      BY <3>2, StepEnds
    <3> QED
      BY <1>0, <2>2, <3>1, <3>2, <3>3
  <2> HIDE DEF S
  <2> QED
    BY <1>0, <2>1, <2>2, Upwards
<1>4. ASSUME NEW k \in j .. n
      PROVE  way[k] \in Nat /\ (way[k] <= Len(s) => way[j] + (k - j) <= way[k])
  <2>1. k \in t .. n
    BY <1>0
  <2> QED
    BY <1>2, <1>3, <2>1
<1> QED
  BY <1>4 DEF way, n

\* A way goes on from any of its places as if it had begun there.
LEMMA WayGoesOn ==
    ASSUME NEW p, NEW s, NEW w, Len(w) \in Nat, NEW t \in 0 .. Len(w), NEW i, NEW u \in t .. Len(w)
    PROVE  \A k \in u .. Len(w) : Way(p, s, w, u, Way(p, s, w, t, i)[u])[k] = Way(p, s, w, t, i)[k]
<1> DEFINE way == Way(p, s, w, t, i)
           on == Way(p, s, w, u, way[u])
           n == Len(w)
           S == {k \in u .. n : on[k] = way[k]}
<1>0. n \in Nat /\ t \in Nat /\ u \in Nat /\ t <= u /\ u <= n /\ u \in 0 .. n
  OBVIOUS
<1>1. \A k \in t + 1 .. n : way[k] = StepTo(p, s, w[k], way[k - 1])
  BY WaySteps
<1>2. on[u] = way[u] /\ \A k \in u + 1 .. n : on[k] = StepTo(p, s, w[k], on[k - 1])
  <2> HIDE DEF way
  <2> QED
    BY <1>0, WaySteps
<1> HIDE DEF way, on, n
<1>3. u \in S
  BY <1>0, <1>2
<1>4. ASSUME NEW k \in u + 1 .. n, k - 1 \in S PROVE k \in S
  <2>1. k \in t + 1 .. n /\ k \in u .. n
    BY <1>0
  <2> QED
    BY <1>1, <1>2, <1>4, <2>1
<1>5. u .. n \subseteq S
  <2> HIDE DEF S
  <2> QED
    BY <1>0, <1>3, <1>4, Upwards
<1>6. \A k \in u .. n : on[k] = way[k]
  BY <1>5
<1> QED
  BY <1>6 DEF way, on, n

\* Bytes without underscores lie where all of them are equal.
LEMMA WayOverBytes ==
    ASSUME NEW p, NEW s \in Seq(Byte), NEW w, Len(w) \in Nat, NEW t \in 0 .. Len(w), NEW i \in Nat,
           NEW u \in t .. Len(w),
           p.underscores => \A k \in t + 1 .. u : w[k] # Underscore
    PROVE  /\ Way(p, s, w, t, i)[u] <= Len(s) =>
                 /\ i + (u - t) <= Len(s)
                 /\ \A k \in t + 1 .. u : s[i + (k - t)] = w[k]
           /\ i + (u - t) <= Len(s) /\ (\A k \in t + 1 .. u : s[i + (k - t)] = w[k]) =>
                 Way(p, s, w, t, i)[u] = i + (u - t)
<1> DEFINE way == Way(p, s, w, t, i)
           n == Len(w)
           S == {k \in t .. u : way[k] <= Len(s) =>
                    /\ way[k] = i + (k - t)
                    /\ \A l \in t + 1 .. k : s[i + (l - t)] = w[l]}
           T == {k \in t .. u : way[k] = i + (k - t)}
<1>0. n \in Nat /\ t \in Nat /\ u \in Nat /\ t <= u /\ u <= n /\ Len(s) \in Nat
  OBVIOUS
<1>1. way[t] = i /\ \A k \in t + 1 .. n : way[k] = StepTo(p, s, w[k], way[k - 1])
  BY WaySteps
<1>2. \A k \in t .. n : way[k] \in Nat
  <2>1. t \in t .. n
    BY <1>0
  <2> QED
    BY <2>1, WayGrows
<1> HIDE DEF way, n
<1>3. t .. u \subseteq S
  <2>1. t \in S
    BY <1>0, <1>1
  <2>2. ASSUME NEW k \in t + 1 .. u, k - 1 \in S PROVE k \in S
    <3> SUFFICES ASSUME way[k] <= Len(s)
                 PROVE  way[k] = i + (k - t) /\ \A l \in t + 1 .. k : s[i + (l - t)] = w[l]
      BY <1>0
    <3>1. way[k] = StepTo(p, s, w[k], way[k - 1]) /\ way[k - 1] \in Nat
      BY <1>0, <1>1, <1>2
    <3>2. way[k - 1] < Len(s)
      BY <3>1, StepEnds
    <3>3. way[k - 1] = i + (k - 1 - t) /\ \A l \in t + 1 .. k - 1 : s[i + (l - t)] = w[l]
      <4>1. way[k - 1] <= Len(s)
        BY <1>0, <3>1, <3>2
      <4> QED
        BY <2>2, <4>1
    <3>4. ~(p.underscores /\ w[k] = Underscore)
      BY <1>0
    <3>5. s[way[k - 1] + 1] = w[k] /\ way[k] = way[k - 1] + 1
      BY <1>0, <3>1, <3>2, <3>4 DEF StepTo
    <3>6. way[k - 1] + 1 = i + (k - t)
      BY <1>0, <3>3
    <3>7. ASSUME NEW l \in t + 1 .. k PROVE s[i + (l - t)] = w[l]
      <4>1. CASE l = k
        BY <3>5, <3>6, <4>1
      <4>2. CASE l # k
        <5>1. l \in t + 1 .. k - 1
          BY <1>0, <4>2
        <5> QED
          BY <3>3, <5>1
      <4> QED
        BY <4>1, <4>2
    <3> QED
      BY <3>5, <3>6, <3>7
  <2> HIDE DEF S
  <2> QED
    BY <1>0, <2>1, <2>2, Upwards
<1>4. ASSUME i + (u - t) <= Len(s), \A k \in t + 1 .. u : s[i + (k - t)] = w[k]
      PROVE  way[u] = i + (u - t)
  <2>1. t \in T
    BY <1>0, <1>1
  <2>2. ASSUME NEW k \in t + 1 .. u, k - 1 \in T PROVE k \in T
    <3>1. way[k] = StepTo(p, s, w[k], way[k - 1])
      BY <1>0, <1>1
    <3>2. way[k - 1] = i + (k - 1 - t)
      BY <2>2
    <3>3. way[k - 1] < Len(s) /\ way[k - 1] + 1 = i + (k - t)
      BY <1>0, <1>4, <3>2
    <3>4. ~(p.underscores /\ w[k] = Underscore) /\ s[way[k - 1] + 1] = w[k]
      BY <1>0, <1>4, <3>3
    <3>5. way[k] = way[k - 1] + 1
      BY <1>0, <1>2, <3>1, <3>3, <3>4 DEF StepTo
    <3> QED
      BY <1>0, <3>3, <3>5
  <2>3. t .. u \subseteq T
    <3> HIDE DEF T
    <3> QED
      BY <1>0, <2>1, <2>2, Upwards
  <2> QED
    BY <1>0, <2>3
<1>5. way[u] <= Len(s) => i + (u - t) <= Len(s) /\ \A k \in t + 1 .. u : s[i + (k - t)] = w[k]
  BY <1>0, <1>3
<1> QED
  BY <1>4, <1>5 DEF way

-----------------------------------------------------------------------------
(* Code points.                                                            *)

Path(w, t, i) == Way(program, text, w, t, i)
Between(i) == IsBetween(program, text, i)

\* The code point in front of a boundary ends there.
LEMMA CodePointEnds ==
    ASSUME text \in Seq(Byte), WellEncoded(text),
           NEW b \in Nat, NEW e \in Nat, b < e, e <= Len(text), Boundary(b), Boundary(e)
    PROVE  /\ CodePointBefore(e) \in b .. e - 1 /\ Boundary(CodePointBefore(e))
           /\ CodePointBefore(e) + MultiByteSequenceLength(text[CodePointBefore(e) + 1]) = e
<1> DEFINE a == CodePointBefore(e)
           next == a + MultiByteSequenceLength(text[a + 1])
<1>1. a \in b .. e - 1 /\ Boundary(a) /\ \A k \in a + 1 .. e - 1 : Continues(text[k + 1])
  BY CodePointInFront
<1>2. a \in Nat /\ a < e
  BY <1>1
<1> HIDE DEF a
<1>3. next \in a + 1 .. e /\ Boundary(next)
  BY <1>1, <1>2, NextCodePoint
<1> HIDE DEF next
<1>4. next = e
  BY <1>1, <1>2, <1>3 DEF Boundary
<1> QED
  BY <1>1, <1>4 DEF a, next

\* Only the code point in front of a boundary ends there.
LEMMA CodePointIsBefore ==
    ASSUME text \in Seq(Byte), WellEncoded(text),
           NEW a \in Nat, NEW e \in Nat, a < e, e <= Len(text), Boundary(a), Boundary(e),
           a + MultiByteSequenceLength(text[a + 1]) = e
    PROVE  a = CodePointBefore(e)
<1> DEFINE x == CodePointBefore(e)
<1>1. x \in a .. e - 1 /\ Boundary(x)
  BY CodePointEnds
<1> HIDE DEF x
<1>2. CASE a < x
  <2>1. x \in Nat /\ x <= Len(text)
    BY <1>1
  <2>2. a + MultiByteSequenceLength(text[a + 1]) \in a + 1 .. x
    BY <1>1, <1>2, <2>1, NextCodePoint
  <2> QED
    BY <1>1, <2>2
<1> QED
  BY <1>1, <1>2 DEF x

\* A step over an underscore or a single byte leads from boundary to boundary,
\* and of two boundaries, the later one never to an earlier one.
LEMMA StepsInOrder ==
    ASSUME text \in Seq(Byte), WellEncoded(text), program.underscores,
           NEW c \in Byte, c < 128,
           NEW i \in Nat, NEW j \in Nat, i <= j, Boundary(i), Boundary(j),
           StepTo(program, text, c, i) <= Len(text), StepTo(program, text, c, j) <= Len(text)
    PROVE  /\ Boundary(StepTo(program, text, c, i)) /\ Boundary(StepTo(program, text, c, j))
           /\ StepTo(program, text, c, i) <= StepTo(program, text, c, j)
<1>1. ASSUME NEW x \in Nat, Boundary(x), StepTo(program, text, c, x) <= Len(text)
      PROVE  /\ Boundary(StepTo(program, text, c, x)) /\ x < Len(text)
             /\ StepTo(program, text, c, x) \in Nat /\ x + 1 <= StepTo(program, text, c, x)
             /\ \A y \in Nat : Boundary(y) /\ x < y /\ y <= Len(text) =>
                    StepTo(program, text, c, x) <= y
  <2>1. x < Len(text) /\ StepTo(program, text, c, x) \in Nat /\ x + 1 <= StepTo(program, text, c, x)
    BY <1>1, StepEnds
  <2>2. CASE c = Underscore
    <3> DEFINE next == x + MultiByteSequenceLength(text[x + 1])
    <3>1. StepTo(program, text, c, x) = next
      BY <2>1, <2>2 DEF StepTo
    <3>2. Boundary(Len(text)) /\ Len(text) \in Nat
      BY DEF Boundary
    <3>3. Boundary(next)
      BY <1>1, <2>1, <3>2, NextCodePoint
    <3>4. ASSUME NEW y \in Nat, Boundary(y), x < y, y <= Len(text) PROVE next <= y
      <4>1. next \in x + 1 .. y
        BY <1>1, <3>4, NextCodePoint
      <4> QED
        BY <4>1
    <3> QED
      BY <2>1, <3>1, <3>3, <3>4
  <2>3. CASE c # Underscore
    <3>1. text[x + 1] = c /\ StepTo(program, text, c, x) = x + 1
      BY <1>1, <2>1, <2>3 DEF StepTo
    <3>2. AsChar(c) = text[x + 1]
      BY <3>1 DEF AsChar
    <3>3. Boundary(x + 1)
      BY <1>1, <2>1, <3>2, NextAscii
    <3> QED
      BY <1>1, <2>1, <3>1, <3>3
  <2> QED
    BY <2>2, <2>3
<1> DEFINE x1 == StepTo(program, text, c, i)
           y1 == StepTo(program, text, c, j)
<1>2. Boundary(x1) /\ x1 \in Nat /\ \A y \in Nat : Boundary(y) /\ i < y /\ y <= Len(text) => x1 <= y
  BY <1>1
<1>3. Boundary(y1) /\ j < Len(text) /\ y1 \in Nat /\ j + 1 <= y1
  BY <1>1
<1>4. i = j => x1 = y1
  OBVIOUS
<1> HIDE DEF x1, y1
<1>5. x1 <= y1
  BY <1>2, <1>3, <1>4
<1> QED
  BY <1>2, <1>3, <1>5 DEF x1, y1

\* So do the ways over such bytes.
LEMMA WaysInOrder ==
    ASSUME text \in Seq(Byte), WellEncoded(text), program.underscores,
           NEW w, Len(w) \in Nat, NEW t \in 0 .. Len(w), NEW u \in t .. Len(w),
           \A k \in t + 1 .. u : w[k] \in Byte /\ w[k] < 128,
           NEW i \in Nat, NEW j \in Nat, i <= j, Boundary(i), Boundary(j),
           Path(w, t, i)[u] <= Len(text), Path(w, t, j)[u] <= Len(text)
    PROVE  /\ Boundary(Path(w, t, i)[u]) /\ Boundary(Path(w, t, j)[u])
           /\ Path(w, t, i)[u] <= Path(w, t, j)[u]
<1> DEFINE x == Path(w, t, i)
           y == Path(w, t, j)
           n == Len(w)
           S == {k \in t .. u : x[k] <= Len(text) /\ y[k] <= Len(text) =>
                                  Boundary(x[k]) /\ Boundary(y[k]) /\ x[k] <= y[k]}
<1>0. n \in Nat /\ t \in Nat /\ u \in Nat /\ t <= u /\ u <= n /\ Len(text) \in Nat
  OBVIOUS
<1>1. /\ x[t] = i /\ \A k \in t + 1 .. n : x[k] = StepTo(program, text, w[k], x[k - 1])
      /\ y[t] = j /\ \A k \in t + 1 .. n : y[k] = StepTo(program, text, w[k], y[k - 1])
  BY WaySteps DEF Path
<1>2. \A k \in t .. n : x[k] \in Nat /\ y[k] \in Nat
  <2>1. t \in t .. n
    BY <1>0
  <2> QED
    BY <2>1, WayGrows DEF Path
<1> HIDE DEF x, y, n
<1>3. t \in S
  BY <1>0, <1>1
<1>4. ASSUME NEW k \in t + 1 .. u, k - 1 \in S PROVE k \in S
  <2> SUFFICES ASSUME x[k] <= Len(text), y[k] <= Len(text)
               PROVE  Boundary(x[k]) /\ Boundary(y[k]) /\ x[k] <= y[k]
    BY <1>0
  <2>1. /\ x[k] = StepTo(program, text, w[k], x[k - 1]) /\ x[k - 1] \in Nat
        /\ y[k] = StepTo(program, text, w[k], y[k - 1]) /\ y[k - 1] \in Nat
    BY <1>0, <1>1, <1>2
  <2>2. x[k - 1] <= Len(text) /\ y[k - 1] <= Len(text)
    <3>1. x[k - 1] < Len(text) /\ y[k - 1] < Len(text)
      BY <2>1, StepEnds
    <3> QED
      BY <1>0, <2>1, <3>1
  <2>3. Boundary(x[k - 1]) /\ Boundary(y[k - 1]) /\ x[k - 1] <= y[k - 1]
    BY <1>4, <2>2
  <2>4. w[k] \in Byte /\ w[k] < 128
    OBVIOUS
  <2> QED
    BY <2>1, <2>3, <2>4, StepsInOrder
<1>5. t .. u \subseteq S
  <2> HIDE DEF S
  <2> QED
    BY <1>0, <1>3, <1>4, Upwards
<1>6. u \in S
  BY <1>0, <1>5
<1> QED
  BY <1>6 DEF x, y

\* A path goes on from any of its places as if it had begun there.
LEMMA PathGoesOn ==
    ASSUME NEW w, Len(w) \in Nat, NEW t \in 0 .. Len(w), NEW i, NEW u \in t .. Len(w),
           NEW k \in u .. Len(w)
    PROVE  Path(w, u, Path(w, t, i)[u])[k] = Path(w, t, i)[k]
<1>1. \A l \in u .. Len(w) :
         Way(program, text, w, u, Way(program, text, w, t, i)[u])[l] = Way(program, text, w, t, i)[l]
  BY WayGoesOn
<1> QED
  BY <1>1 DEF Path

\* Bytes without underscores, if they lie in the text.
LEMMA BytesOnPath ==
    ASSUME text \in Seq(Byte), NEW w, Len(w) \in Nat, NEW t \in 0 .. Len(w), NEW i \in Nat,
           NEW u \in t .. Len(w), program.underscores => \A k \in t + 1 .. u : w[k] # Underscore,
           Path(w, t, i)[u] <= Len(text)
    PROVE  /\ Path(w, t, i)[u] = i + (u - t) /\ i + (u - t) <= Len(text)
           /\ \A k \in t + 1 .. u : text[i + (k - t)] = w[k]
<1>1. /\ Way(program, text, w, t, i)[u] <= Len(text) =>
            /\ i + (u - t) <= Len(text)
            /\ \A k \in t + 1 .. u : text[i + (k - t)] = w[k]
      /\ i + (u - t) <= Len(text) /\ (\A k \in t + 1 .. u : text[i + (k - t)] = w[k]) =>
            Way(program, text, w, t, i)[u] = i + (u - t)
  BY WayOverBytes
<1> QED
  BY <1>1, Zenon DEF Path

\* Bytes without underscores, if they are equal.
LEMMA EqualBytesOnPath ==
    ASSUME text \in Seq(Byte), NEW w, Len(w) \in Nat, NEW t \in 0 .. Len(w), NEW i \in Nat,
           NEW u \in t .. Len(w), program.underscores => \A k \in t + 1 .. u : w[k] # Underscore,
           i + (u - t) <= Len(text), \A k \in t + 1 .. u : text[i + (k - t)] = w[k]
    PROVE  Path(w, t, i)[u] = i + (u - t)
<1>1. /\ Way(program, text, w, t, i)[u] <= Len(text) =>
            /\ i + (u - t) <= Len(text)
            /\ \A k \in t + 1 .. u : text[i + (k - t)] = w[k]
      /\ i + (u - t) <= Len(text) /\ (\A k \in t + 1 .. u : text[i + (k - t)] = w[k]) =>
            Way(program, text, w, t, i)[u] = i + (u - t)
  BY WayOverBytes
<1> QED
  BY <1>1, Zenon DEF Path

\* The code points of encoded bytes.
LEMMA CodePointsOf ==
    ASSUME NEW w \in Seq(Byte), WellEncoded(w), NEW a \in 0 .. Len(w) - 1, ~Continues(w[a + 1])
    PROVE  /\ a + MultiByteSequenceLength(w[a + 1]) <= Len(w)
           /\ \A l \in a + 1 .. (a + MultiByteSequenceLength(w[a + 1])) - 1 : Continues(w[l + 1])
           /\ a + MultiByteSequenceLength(w[a + 1]) < Len(w) =>
                 ~Continues(w[a + MultiByteSequenceLength(w[a + 1]) + 1])
BY Zenon DEF WellEncoded

\* A way over encoded bytes comes to a boundary in front of each code point.
LEMMA OnTheWay ==
    ASSUME text \in Seq(Byte), WellEncoded(text), program.underscores,
           NEW w \in Seq(Byte), WellEncoded(w), NEW i \in Nat, Boundary(i),
           NEW k \in 0 .. Len(w), Path(w, 0, i)[k] <= Len(text),
           k < Len(w) => ~Continues(w[k + 1])
    PROVE  Boundary(Path(w, 0, i)[k])
<1> DEFINE x == Path(w, 0, i)
           n == Len(w)
           Bad == {m \in 0 .. n : /\ x[m] <= Len(text) /\ ~Boundary(x[m])
                                  /\ m < n => ~Continues(w[m + 1])}
<1>0. n \in Nat /\ Len(text) \in Nat /\ 0 \in 0 .. n
  OBVIOUS
<1>1. x[0] = i /\ \A m \in 0 .. n : x[m] \in Nat
  BY <1>0, WaySteps, WayGrows DEF Path
<1>2. \A m \in 0 .. n : \A l \in m .. n : x[l] <= Len(text) => x[m] + (l - m) <= x[l]
  BY <1>0, WayGrows DEF Path
<1> SUFFICES ASSUME Bad # {} PROVE FALSE
  BY <1>0
<1> HIDE DEF x, n
<1>3. PICK m \in Bad : \A l \in Bad : m <= l
  <2>1. Bad \in SUBSET Nat
    BY <1>0
  <2> HIDE DEF Bad
  <2> QED
    BY <2>1, LeastNat DEF IsLeast
<1>4. m \in 1 .. n /\ n # 0
  <2>1. m # 0
    BY <1>1, <1>3
  <2> QED
    BY <1>0, <1>3, <2>1
<1>5. ~Continues(w[1])
  BY <1>0, <1>4 DEF WellEncoded, n
<1> DEFINE Back == {d \in 0 .. m - 1 : ~Continues(w[(m - 1 - d) + 1])}
<1>6. PICK d \in Back : \A y \in Back : d <= y
  <2>1. Back \in SUBSET Nat
    OBVIOUS
  <2>2. m - 1 \in Back
    <3>1. m - 1 \in 0 .. m - 1 /\ m - 1 - (m - 1) = 0
      BY <1>4
    <3> QED
      BY <1>5, <3>1
  <2> HIDE DEF Back
  <2> QED
    BY <2>1, <2>2, LeastNat DEF IsLeast
<1> DEFINE j == m - 1 - d
<1>7. j \in 0 .. m - 1 /\ ~Continues(w[j + 1])
  BY <1>4, <1>6
<1>8. ASSUME NEW l \in j + 1 .. m - 1 PROVE Continues(w[l + 1])
  <2>1. m - 1 - l \in 0 .. m - 1 /\ m - 1 - l < d /\ m - 1 - (m - 1 - l) = l
    BY <1>4, <1>6
  <2>2. ~(d <= m - 1 - l)
    BY <1>4, <1>6, <2>1
  <2>3. m - 1 - l \notin Back
    <3> HIDE DEF Back
    <3> QED
      BY <1>6, <2>2
  <2> QED
    BY <2>1, <2>3
<1> HIDE DEF j, Back
<1>9. j \in Nat /\ j < m /\ m \in Nat /\ m <= n /\ j \in 0 .. n /\ m \in j .. n /\ m \in 0 .. n
  BY <1>0, <1>4, <1>7
<1>10. x[j] + (m - j) <= x[m] /\ x[j] \in Nat /\ x[m] \in Nat /\ x[m] <= Len(text)
  BY <1>1, <1>2, <1>3, <1>9
<1>11. Boundary(x[j])
  <2>1. j \notin Bad
    BY <1>3, <1>9
  <2>2. x[j] <= Len(text)
    BY <1>0, <1>9, <1>10
  <2> QED
    BY <1>7, <1>9, <2>1, <2>2
<1> DEFINE len == MultiByteSequenceLength(w[j + 1])
<1>12. len \in 1 .. 4 /\ w[j + 1] \in Byte
  <2>1. w[j + 1] \in Byte
    BY <1>9 DEF n
  <2> QED
    BY <2>1, CodePointLengths
<1>13. /\ j + len <= n
       /\ \A l \in j + 1 .. (j + len) - 1 : Continues(w[l + 1])
       /\ j + len < n => ~Continues(w[j + len + 1])
  <2>1. j \in 0 .. Len(w) - 1
    BY <1>9 DEF n
  <2>2. \A a \in 0 .. Len(w) - 1 : ~Continues(w[a + 1]) =>
           /\ a + MultiByteSequenceLength(w[a + 1]) <= Len(w)
           /\ \A l \in a + 1 .. (a + MultiByteSequenceLength(w[a + 1])) - 1 : Continues(w[l + 1])
           /\ a + MultiByteSequenceLength(w[a + 1]) < Len(w) =>
                 ~Continues(w[a + MultiByteSequenceLength(w[a + 1]) + 1])
    BY CodePointsOf
  <2> QED
    BY <1>7, <2>1, <2>2, Zenon DEF n
<1> HIDE DEF len
<1>14. j + len = m
  <2>1. CASE j + len > m
    BY <1>0, <1>3, <1>9, <1>12, <1>13, <2>1
  <2>2. CASE j + len < m
    <3>1. j + len \in j + 1 .. m - 1 /\ j + len < n
      BY <1>0, <1>9, <1>12, <2>2
    <3> QED
      BY <1>8, <1>13, <3>1
  <2> QED
    BY <1>9, <1>12, <2>1, <2>2
<1>15. x[j] < Len(text) /\ Boundary(Len(text))
  BY <1>0, <1>9, <1>10 DEF Boundary
<1>16. Boundary(x[j] + MultiByteSequenceLength(text[x[j] + 1]))
  BY <1>10, <1>11, <1>15, <1>0, NextCodePoint
<1>17. x[m] = x[j] + MultiByteSequenceLength(text[x[j] + 1])
  <2>1. CASE w[j + 1] = Underscore
    <3>1. len = 1
      BY <2>1 DEF len, MultiByteSequenceLength, Underscore
    <3>2. m = j + 1 /\ m \in 1 .. n
      BY <1>4, <1>9, <1>14, <3>1
    <3>3. x[m] = StepTo(program, text, w[m], x[m - 1])
      BY <1>0, <3>2, WaySteps DEF Path, x, n
    <3>4. m - 1 = j
      BY <1>9, <3>2
    <3>5. x[m] = StepTo(program, text, Underscore, x[j])
      BY <2>1, <3>2, <3>3, <3>4
    <3> QED
      BY <3>5, <1>0, <1>10, <1>15 DEF StepTo
  <2>2. CASE w[j + 1] # Underscore
    <3> DEFINE y == Path(w, j, x[j])
    <3>1. y[m] = x[m]
      BY <1>0, <1>9, WayGoesOn DEF Path, x, n
    <3>2. \A l \in j + 1 .. m : w[l] # Underscore
      <4>1. \A l \in j + 2 .. m : l - 1 \in j + 1 .. m - 1 /\ l - 1 + 1 = l
        BY <1>9
      <4>2. \A l \in j + 2 .. m : Continues(w[l])
        BY <1>8, <4>1
      <4>3. \A l \in j + 1 .. m : l = j + 1 \/ l \in j + 2 .. m
        BY <1>9
      <4>4. \A c : Continues(c) => c # Underscore
        BY DEF Continues, Underscore
      <4> QED
        BY <2>2, <4>2, <4>3, <4>4
    <3>3. Len(w) \in Nat /\ j \in 0 .. Len(w) /\ m \in j .. Len(w) /\ x[j] \in Nat /\ y[m] <= Len(text)
      BY <1>0, <1>9, <1>10, <3>1 DEF n
    <3>4. y[m] = x[j] + (m - j) /\ \A l \in j + 1 .. m : text[x[j] + (l - j)] = w[l]
      <4> DEFINE z == x[j]
      <4>1. z \in Nat /\ Path(w, j, z)[m] <= Len(text)
        BY <3>3
      <4> HIDE DEF z, Bad
      <4>2. Path(w, j, z)[m] = z + (m - j) /\ \A l \in j + 1 .. m : text[z + (l - j)] = w[l]
        BY <3>2, <3>3, <4>1, BytesOnPath
      <4> QED
        BY <4>2 DEF z
    <3> HIDE DEF y
    <3>5. text[x[j] + 1] = w[j + 1]
      <4>1. j + 1 \in j + 1 .. m /\ (j + 1) - j = 1
        BY <1>9
      <4>2. text[x[j] + ((j + 1) - j)] = w[j + 1]
        BY <3>4, <4>1
      <4> QED
        BY <4>1, <4>2
    <3>6. len = m - j
      BY <1>9, <1>12, <1>14
    <3> QED
      BY <3>1, <3>4, <3>5, <3>6 DEF len
  <2> QED
    BY <2>1, <2>2
<1> QED
  BY <1>3, <1>16, <1>17

-----------------------------------------------------------------------------
(* The middle parts, one behind the other.                                 *)

MiddlePart(m) == program.middle[m].part
PartEnds(m, t, i) == EndFrom(program, text, MiddlePart(m), t, i)
Behind(k, i, e) == PartsLie(program, text, k, i, e)

\* A part has a length.
LEMMA PartLength ==
    ASSUME Programs, NEW m \in 1 .. Len(program.middle)
    PROVE  Len(MiddlePart(m)) \in Nat
BY DEF Programs, Fits, PartFits, MiddlePart

\* Where a part lies, its end is behind its beginning.
LEMMA PartGrows ==
    ASSUME Programs, NEW m \in 1 .. Len(program.middle), NEW t \in 0 .. Len(MiddlePart(m)), NEW i \in Nat
    PROVE  /\ Len(MiddlePart(m)) \in Nat /\ PartEnds(m, t, i) \in Nat
           /\ PartEnds(m, t, i) <= Len(text) => i + (Len(MiddlePart(m)) - t) <= PartEnds(m, t, i)
<1> DEFINE w == MiddlePart(m)
           x == Path(w, t, i)
<1>1. Len(w) \in Nat /\ text \in Seq(Byte)
  BY DEF Programs, Fits, PartFits, MiddlePart
<1> HIDE DEF w
<1>2. t \in t .. Len(w) /\ Len(w) \in t .. Len(w) /\ t \in 0 .. Len(w)
  BY <1>1 DEF w
<1>3. x[t] = i
  BY <1>1, <1>2, WaySteps DEF Path
<1>4. x[Len(w)] \in Nat /\ (x[Len(w)] <= Len(text) => x[t] + (Len(w) - t) <= x[Len(w)])
  BY <1>1, <1>2, WayGrows DEF Path
<1> QED
  BY <1>1, <1>3, <1>4 DEF w, PartEnds, EndFrom, Path

\* None is left: nothing is asked.
LEMMA NoneBehind ==
    ASSUME Programs, NEW i, NEW e
    PROVE  Behind(Len(program.middle), i, e)
<1> DEFINE n == Len(program.middle)
<1>1. n \in Nat
  BY DEF Programs, Fits
<1>2. n + 1 .. n = {}
  BY <1>1
<1> HIDE DEF n
<1>3. [j \in n + 1 .. n |-> i] \in [n + 1 .. n -> i .. e]
  BY <1>2
<1> QED
  BY <1>2, <1>3 DEF Behind, PartsLie, n

\* The first of them lies at some place, the others behind it.
LEMMA FirstBehind ==
    ASSUME Programs, NEW k \in Nat, k < Len(program.middle),
           NEW i \in Nat, NEW e \in Nat, e <= Len(text)
    PROVE  Behind(k, i, e) <=>
              \E a \in i .. e : /\ Between(a) /\ PartEnds(k + 1, 0, a) <= e
                                /\ Behind(k + 1, PartEnds(k + 1, 0, a), e)
<1> DEFINE n == Len(program.middle)
           Lie(place, j, b) ==
              /\ place \in [j + 1 .. n -> b .. e]
              /\ \A m \in j + 1 .. n :
                    /\ Between(place[m]) /\ PartEnds(m, 0, place[m]) <= e
                    /\ \A l \in m + 1 .. n : PartEnds(m, 0, place[m]) <= place[l]
<1>0. n \in Nat /\ k + 1 \in 1 .. n /\ Len(text) \in Nat
  BY DEF Programs, Fits
<1>1. \A j, b : Behind(j, b, e) <=> \E place : Lie(place, j, b)
  BY DEF Behind, PartsLie, Between, PartEnds, MiddlePart
<1>2. ASSUME NEW a \in Nat, a <= e
      PROVE  /\ PartEnds(k + 1, 0, a) \in Nat
             /\ PartEnds(k + 1, 0, a) <= e => a <= PartEnds(k + 1, 0, a)
  <2>1. Len(MiddlePart(k + 1)) \in Nat
    BY <1>0 DEF Programs, Fits, PartFits, MiddlePart
  <2>2. 0 \in 0 .. Len(MiddlePart(k + 1))
    BY <2>1
  <2>3. /\ PartEnds(k + 1, 0, a) \in Nat
        /\ PartEnds(k + 1, 0, a) <= Len(text) => a + (Len(MiddlePart(k + 1)) - 0) <= PartEnds(k + 1, 0, a)
    BY <1>0, <1>2, <2>2, PartGrows
  <2> QED
    BY <1>0, <2>1, <2>3
<1> HIDE DEF n
<1>3. ASSUME NEW place, Lie(place, k, i)
      PROVE  \E a \in i .. e : /\ Between(a) /\ PartEnds(k + 1, 0, a) <= e
                               /\ Behind(k + 1, PartEnds(k + 1, 0, a), e)
  <2> DEFINE a == place[k + 1]
             b == PartEnds(k + 1, 0, a)
             others == [l \in k + 2 .. n |-> place[l]]
  <2>1. k + 1 \in k + 1 .. n /\ \A l \in k + 2 .. n : l \in k + 1 .. n /\ l \in (k + 1) + 1 .. n
    BY <1>0
  <2>2. a \in i .. e /\ Between(a) /\ b <= e /\ \A l \in k + 2 .. n : b <= place[l] /\ place[l] \in i .. e
    BY <1>3, <2>1
  <2>3. b \in Nat
    BY <1>2, <2>2
  <2>4. Lie(others, k + 1, b)
    <3>1. others \in [(k + 1) + 1 .. n -> b .. e]
      <4>1. \A l \in k + 2 .. n : place[l] \in b .. e
        <5> HIDE DEF a, b
        <5> QED
          BY <2>2, <2>3
      <4>2. (k + 1) + 1 .. n = k + 2 .. n
        BY <1>0
      <4> QED
        BY <4>1, <4>2
    <3>2. ASSUME NEW m \in (k + 1) + 1 .. n
          PROVE  /\ Between(others[m]) /\ PartEnds(m, 0, others[m]) <= e
                 /\ \A l \in m + 1 .. n : PartEnds(m, 0, others[m]) <= others[l]
      <4>1. m \in k + 1 .. n /\ m \in k + 2 .. n /\ \A l \in m + 1 .. n : l \in k + 2 .. n
        BY <1>0
      <4>2. others[m] = place[m] /\ \A l \in m + 1 .. n : others[l] = place[l]
        BY <4>1
      <4> QED
        BY <1>3, <4>1, <4>2
    <3> QED
      BY <3>1, <3>2
  <2>5. Behind(k + 1, b, e)
    <3> HIDE DEF Lie, others, b
    <3> QED
      BY <1>1, <2>4
  <2> QED
    BY <2>2, <2>5
<1>4. ASSUME NEW a \in i .. e, Between(a), PartEnds(k + 1, 0, a) <= e,
             NEW others, Lie(others, k + 1, PartEnds(k + 1, 0, a))
      PROVE  \E place : Lie(place, k, i)
  <2> DEFINE b == PartEnds(k + 1, 0, a)
             place == [l \in k + 1 .. n |-> IF l = k + 1 THEN a ELSE others[l]]
  <2>1. \A l \in k + 1 .. n : l = k + 1 \/ l \in (k + 1) + 1 .. n
    BY <1>0
  <2>2. b \in Nat /\ a <= b
    BY <1>2, <1>4
  <2>3. \A l \in (k + 1) + 1 .. n : others[l] \in b .. e /\ place[l] = others[l]
    BY <1>0, <1>4
  <2>4. place[k + 1] = a
    BY <1>0
  <2>5. Lie(place, k, i)
    <3> HIDE DEF b
    <3>1. \A l \in k + 1 .. n : place[l] \in i .. e
      <4>1. \A l \in (k + 1) + 1 .. n : place[l] \in i .. e
        <5> HIDE DEF place, Lie
        <5>1. \A x \in b .. e : x \in i .. e
          BY <2>2
        <5> QED
          BY <2>3, <5>1
      <4> HIDE DEF place
      <4> QED
        BY <2>1, <2>4, <4>1
    <3>2. place \in [k + 1 .. n -> i .. e]
      BY <3>1
    <3>3. ASSUME NEW m \in k + 1 .. n
          PROVE  /\ Between(place[m]) /\ PartEnds(m, 0, place[m]) <= e
                 /\ \A l \in m + 1 .. n : PartEnds(m, 0, place[m]) <= place[l]
      <4> HIDE DEF place
      <4>1. CASE m = k + 1
        BY <1>4, <2>2, <2>3, <2>4, <4>1 DEF b
      <4>2. CASE m \in (k + 1) + 1 .. n
        <5>1. \A l \in m + 1 .. n : l \in (k + 1) + 1 .. n
          BY <1>0, <4>2
        <5> QED
          BY <1>4, <2>3, <4>2, <5>1
      <4> QED
        BY <2>1, <4>1, <4>2
    <3> QED
      BY <3>2, <3>3
  <2> QED
    <3> HIDE DEF Lie, place
    <3> QED
      BY <2>5
<1> HIDE DEF Lie
<1> QED
  BY <1>1, <1>3, <1>4

\* What lies behind a place lies behind an earlier one.
LEMMA BehindEarlier ==
    ASSUME NEW k, NEW i \in Nat, NEW j \in Nat, NEW e, i <= j, Behind(k, j, e)
    PROVE  Behind(k, i, e)
<1> DEFINE n == Len(program.middle)
<1>1. \A l : l \in j .. e => l \in i .. e
  OBVIOUS
<1>2. [k + 1 .. n -> j .. e] \subseteq [k + 1 .. n -> i .. e]
  <2>1. j .. e \subseteq i .. e
    BY <1>1
  <2> HIDE DEF n
  <2> QED
    BY <2>1
<1> QED
  BY <1>2 DEF Behind, PartsLie

\* They need their bytes.
LEMMA BehindNeedsRoom ==
    ASSUME Programs, NEW e \in Nat, e <= Len(text),
           NEW k \in 0 .. Len(program.middle), NEW i \in Nat, i <= e, Behind(k, i, e)
    PROVE  i + Left(k) <= e
<1> DEFINE n == Len(program.middle)
           Room(d) == \A b \in Nat : b <= e /\ Behind(n - d, b, e) => b + Left(n - d) <= e
           S == {d \in 0 .. n : Room(d)}
<1>0. n \in Nat /\ Fits(program) /\ Len(text) \in Nat
  BY DEF Programs, Fits
<1> HIDE DEF n
<1>1. 0 \in S
  <2>1. n + 1 .. n = {} /\ n - 0 = n
    BY <1>0
  <2>2. Left(n) = 0
    BY <2>1, FS_EmptySet DEF Left, Rest, n
  <2>3. Room(0)
    BY <2>1, <2>2
  <2> QED
    BY <1>0, <2>3
<1>2. ASSUME NEW d \in 0 + 1 .. n, d - 1 \in S PROVE d \in S
  <2> DEFINE j == n - d
  <2>1. j \in Nat /\ j < n /\ n - (d - 1) = j + 1 /\ j + 1 \in 1 .. n
    BY <1>0
  <2>2. /\ Left(j) \in Nat /\ Left(j + 1) \in Nat /\ Left(j) = Len(MiddlePart(j + 1)) + Left(j + 1)
        /\ Len(MiddlePart(j + 1)) \in Nat
    <3>1. /\ Left(j) \in Nat /\ Left(j + 1) \in Nat
          /\ Left(j) = Len(program.middle[j + 1].part) + Left(j + 1)
      BY <1>0, <2>1, RestSplits DEF n
    <3>2. Len(MiddlePart(j + 1)) \in Nat
      <4> HIDE DEF j
      <4> QED
        BY <2>1, PartLength DEF n
    <3> QED
      BY <3>1, <3>2 DEF MiddlePart
  <2>3. \A b \in Nat : b <= e /\ Behind(j + 1, b, e) => b + Left(j + 1) <= e
    BY <1>2, <2>1
  <2> HIDE DEF j
  <2>4. ASSUME NEW b \in Nat, b <= e, Behind(j, b, e) PROVE b + Left(j) <= e
    <3>1. PICK a \in b .. e : PartEnds(j + 1, 0, a) <= e /\ Behind(j + 1, PartEnds(j + 1, 0, a), e)
      BY <2>1, <2>4, FirstBehind DEF n
    <3> DEFINE c == PartEnds(j + 1, 0, a)
    <3>2. c \in Nat /\ (c <= Len(text) => a + (Len(MiddlePart(j + 1)) - 0) <= c)
      <4>1. 0 \in 0 .. Len(MiddlePart(j + 1)) /\ a \in Nat
        BY <2>2, <3>1
      <4> QED
        BY <2>1, <4>1, PartGrows DEF n
    <3> HIDE DEF c
    <3>3. c <= e /\ c + Left(j + 1) <= e
      BY <2>3, <3>1, <3>2 DEF c
    <3> DEFINE part == Len(MiddlePart(j + 1))
               rest == Left(j + 1)
    <3>4. part \in Nat /\ rest \in Nat /\ Left(j) = part + rest /\ (c <= Len(text) => a + (part - 0) <= c)
          /\ c + rest <= e
      BY <2>2, <3>2, <3>3
    <3> HIDE DEF part, rest
    <3>5. b + (part + rest) <= e
      BY <1>0, <3>1, <3>2, <3>3, <3>4
    <3> QED
      BY <3>4, <3>5
  <2>5. Room(d)
    BY <2>4 DEF j
  <2> QED
    BY <1>0, <2>5
<1>3. 0 .. n \subseteq S
  <2> HIDE DEF S
  <2> QED
    BY <1>0, <1>1, <1>2, Upwards
<1>4. n - k \in 0 .. n /\ n - (n - k) = k
  BY <1>0 DEF n
<1>5. Room(n - k)
  BY <1>3, <1>4
<1> QED
  BY <1>4, <1>5

\* Where the bytes of the m-th part behind the t-th may begin, so that the
\* parts behind it lie in what is left.
Starts(m, t, i, e) ==
    {a \in i .. e : Between(a) /\ PartEnds(m, t, a) <= e /\ Behind(m, PartEnds(m, t, a), e)}

\* There must be room for all of these bytes.
LEMMA StartsNeedRoom ==
    ASSUME Programs, NEW m \in 1 .. Len(program.middle), NEW t \in 0 .. Len(MiddlePart(m)),
           NEW i \in Nat, NEW e \in Nat, e <= Len(text), NEW a \in Starts(m, t, i, e)
    PROVE  (a + (Len(MiddlePart(m)) - t)) + Left(m) <= e
<1>0. /\ Len(text) \in Nat /\ a \in Nat /\ i <= a /\ a <= e /\ m \in 0 .. Len(program.middle)
      /\ Fits(program)
  BY DEF Programs, Fits, Starts
<1> DEFINE b == PartEnds(m, t, a)
           part == Len(MiddlePart(m))
           rest == Left(m)
<1>1. b <= e /\ Behind(m, b, e)
  BY DEF Starts
<1>2. part \in Nat /\ b \in Nat /\ (b <= Len(text) => a + (part - t) <= b)
  BY <1>0, PartGrows
<1>3. rest \in Nat
  BY <1>0, LeftIsNat
<1> HIDE DEF b
<1>4. b + rest <= e
  BY <1>0, <1>1, <1>2, BehindNeedsRoom
<1> HIDE DEF rest, part
<1>5. (a + (part - t)) + rest <= e
  <2>1. t \in Nat
    BY DEF part
  <2> QED
    BY <1>0, <1>1, <1>2, <1>3, <1>4, <2>1
<1> QED
  BY <1>5 DEF rest, part

\* What is no start need not be looked at again.
LEMMA StartsLater ==
    ASSUME NEW m, NEW t, NEW e \in Nat, NEW i \in Nat, NEW j \in Nat, i <= j,
           \A a \in i .. j - 1 : a \notin Starts(m, t, i, e)
    PROVE  Starts(m, t, i, e) # {} <=> Starts(m, t, j, e) # {}
<1>1. \A a \in Starts(m, t, i, e) : a \in j .. e
  <2>1. \A a \in i .. e : a \in i .. j - 1 \/ a \in j .. e
    OBVIOUS
  <2>2. Starts(m, t, i, e) \subseteq i .. e
    BY DEF Starts
  <2> QED
    BY <2>1, <2>2
<1>2. \A a \in j .. e : a \in i .. e
  OBVIOUS
<1>3. Starts(m, t, i, e) = Starts(m, t, j, e)
  BY <1>1, <1>2 DEF Starts
<1> QED
  BY <1>3

\* The place from which the part ends first does for all.
LEMMA FirstStartDoes ==
    ASSUME NEW m, NEW t, NEW e \in Nat, NEW i \in Nat, NEW a \in i .. e,
           Between(a), PartEnds(m, t, a) <= e, PartEnds(m, t, a) \in Nat,
           \A j \in Starts(m, t, i, e) : PartEnds(m, t, j) \in Nat /\ PartEnds(m, t, a) <= PartEnds(m, t, j)
    PROVE  Starts(m, t, i, e) # {} <=> Behind(m, PartEnds(m, t, a), e)
<1>1. ASSUME NEW j \in Starts(m, t, i, e) PROVE Behind(m, PartEnds(m, t, a), e)
  <2>1. Behind(m, PartEnds(m, t, j), e)
    BY DEF Starts
  <2> QED
    BY <2>1, BehindEarlier
<1>2. ASSUME Behind(m, PartEnds(m, t, a), e) PROVE a \in Starts(m, t, i, e)
  BY <1>2 DEF Starts
<1> QED
  BY <1>1, <1>2

\* An underscore that a part begins with may stand for the first code point
\* that is left: instead of the starts of the part, those of what follows it
\* behind this code point.
LEMMA SkipsOne ==
    ASSUME Programs, program.underscores, NEW m \in 1 .. Len(program.middle),
           NEW t \in Nat, t < Len(MiddlePart(m)), MiddlePart(m)[t + 1] = Underscore,
           NEW i \in Nat, NEW e \in Nat, i < e, e <= Len(text), Boundary(i), Boundary(e)
    PROVE  Starts(m, t, i, e) # {}
             <=> Starts(m, t + 1, i + MultiByteSequenceLength(text[i + 1]), e) # {}
<1> DEFINE w == MiddlePart(m)
           next(a) == a + MultiByteSequenceLength(text[a + 1])
<1>0. /\ text \in Seq(Byte) /\ WellEncoded(text) /\ Len(text) \in Nat /\ Len(w) \in Nat
      /\ t \in 0 .. Len(w) /\ t + 1 \in 0 .. Len(w) /\ t + 1 \in t .. Len(w)
  BY DEF Programs, Fits, PartFits, MiddlePart
<1>1. ASSUME NEW a \in Nat, a < Len(text)
      PROVE  PartEnds(m, t, a) = PartEnds(m, t + 1, next(a))
  <2> DEFINE x == Path(w, t, a)
  <2>1. x[t] = a /\ \A k \in t + 1 .. Len(w) : x[k] = StepTo(program, text, w[k], x[k - 1])
    BY <1>0, WaySteps DEF Path
  <2>2. x[t + 1] = StepTo(program, text, w[t + 1], a)
    <3>1. t + 1 \in t + 1 .. Len(w) /\ (t + 1) - 1 = t
      BY <1>0
    <3> QED
      BY <2>1, <3>1
  <2>3. StepTo(program, text, w[t + 1], a) = next(a)
    BY <1>0, <1>1 DEF StepTo
  <2>4. Path(w, t + 1, x[t + 1])[Len(w)] = x[Len(w)]
    <3>1. Len(w) \in t + 1 .. Len(w)
      BY <1>0
    <3> QED
      <4> DEFINE u == t + 1
      <4>1. u \in t .. Len(w) /\ Len(w) \in u .. Len(w)
        BY <1>0, <3>1
      <4> HIDE DEF u, w
      <4>2. Path(w, u, Path(w, t, a)[u])[Len(w)] = Path(w, t, a)[Len(w)]
        BY <1>0, <4>1, PathGoesOn
      <4> QED
        BY <4>2 DEF u
  <2> QED
    BY <2>2, <2>3, <2>4 DEF PartEnds, EndFrom, Path
<1>2. \A a \in Nat : a <= Len(text) => (Between(a) <=> Boundary(a))
  BY <1>0 DEF Between, IsBetween, Boundary
<1>3. ASSUME NEW a \in Starts(m, t, i, e)
      PROVE  next(a) \in Starts(m, t + 1, next(i), e)
  <2>1. /\ a \in Nat /\ i <= a /\ a <= e /\ Between(a) /\ PartEnds(m, t, a) <= e
        /\ Behind(m, PartEnds(m, t, a), e)
    BY DEF Starts
  <2>2. /\ PartEnds(m, t, a) \in Nat
        /\ PartEnds(m, t, a) <= Len(text) => a + (Len(w) - t) <= PartEnds(m, t, a)
    BY <1>0, <2>1, PartGrows
  <2>3. a < e /\ a < Len(text) /\ Boundary(a)
    BY <1>0, <1>2, <2>1, <2>2
  <2>4. next(a) \in a + 1 .. e /\ Boundary(next(a))
    BY <1>0, <2>1, <2>3, NextCodePoint
  <2>5. next(i) \in i + 1 .. e
    BY <1>0, NextCodePoint
  <2>6. next(i) <= next(a)
    <3>1. CASE a = i
      BY <2>4, <3>1
    <3>2. CASE i < a
      <4>1. next(i) \in i + 1 .. a
        BY <1>0, <2>1, <2>3, <3>2, NextCodePoint
      <4> HIDE DEF next
      <4> QED
        BY <2>1, <2>4, <4>1
    <3> QED
      BY <2>1, <3>1, <3>2
  <2>7. PartEnds(m, t, a) = PartEnds(m, t + 1, next(a))
    BY <1>1, <2>1, <2>3
  <2> HIDE DEF next
  <2>8. next(a) \in next(i) .. e /\ Between(next(a))
    BY <1>0, <1>2, <2>1, <2>4, <2>5, <2>6
  <2> QED
    BY <2>1, <2>7, <2>8 DEF Starts
<1>4. ASSUME NEW b \in Starts(m, t + 1, next(i), e)
      PROVE  CodePointBefore(b) \in Starts(m, t, i, e)
  <2>0. next(i) \in i + 1 .. e
    BY <1>0, NextCodePoint
  <2>1. /\ b \in Nat /\ i < b /\ b <= e /\ Between(b) /\ PartEnds(m, t + 1, b) <= e
        /\ Behind(m, PartEnds(m, t + 1, b), e)
    <3> HIDE DEF next
    <3> QED
      BY <2>0 DEF Starts
  <2>2. Boundary(b) /\ b <= Len(text)
    BY <1>0, <1>2, <2>1
  <2> DEFINE a == CodePointBefore(b)
  <2>3. a \in i .. b - 1 /\ Boundary(a) /\ next(a) = b
    BY <1>0, <2>1, <2>2, CodePointEnds
  <2> HIDE DEF a, next
  <2>4. a \in i .. e /\ a \in Nat /\ a < Len(text) /\ Between(a)
    BY <1>0, <1>2, <2>1, <2>2, <2>3
  <2>5. PartEnds(m, t, a) = PartEnds(m, t + 1, b)
    BY <1>1, <2>3, <2>4
  <2> QED
    BY <2>1, <2>4, <2>5 DEF Starts, a
<1> QED
  BY <1>3, <1>4

-----------------------------------------------------------------------------
(***************************************************************************)
(* The invariant: what the program asks of the text is what is still to be *)
(* found in what is left of it.                                            *)
(***************************************************************************)

Asked == Lies(program, text)
PrefixEnds == EndFrom(program, text, program.prefix, 0, 0)
SuffixEnds(i) == EndFrom(program, text, program.suffix, 0, i)

\* The ends: what of the prefix and of the suffix has been compared.
EndsRead ==
    /\ result \in BOOLEAN
    /\ pc = "begin" => begin = 0
    /\ pc \in {"begin", "prefix"} => end = Len(text)
    /\ pc = "prefix" =>
          IF program.underscores
          THEN iter <= Len(program.prefix) /\ Path(program.prefix, 0, 0)[iter] = begin
          ELSE begin = 0
    /\ pc = "suffix" =>
          /\ PrefixEnds = begin
          /\ IF program.underscores
             THEN \A e \in 0 .. Len(text) : Between(e) =>
                     (SuffixEnds(e) = Len(text) <=> Path(program.suffix, 0, e)[iter] = end)
             ELSE end = Len(text)

\* Behind a needle: the part is read up to reader, and wherever else it lies,
\* at most steps behind its needle.
RestRead ==
    pc = "rest" =>
        /\ Between(begin)
        /\ iter \in Middle.skip + Length .. Len(Middle.part)
        /\ Path(Middle.part, Middle.skip, begin)[iter] = reader
        /\ \A a \in begin .. end :
              Between(a) /\ Path(Middle.part, Middle.skip, a)[iter] <= end =>
                  Path(Middle.part, Middle.skip, a)[iter] <= (a + Length) + steps

Meaning ==
    /\ pc = "next" => (Asked <=> Behind(index, begin, end))
    /\ pc = "skip" => (Asked <=> Starts(index + 1, Middle.skip - iter, begin, end) # {})
    /\ pc \in SearchStates \cup {"again", "rest"} =>
          (Asked <=> Starts(index + 1, Middle.skip, begin, end) # {})
    /\ pc \in SearchStates => limit = end - begin - Needed + 1
    /\ pc = "done" => (result <=> Asked)

Reads == EndsRead /\ RestRead /\ Meaning

\* What no step changes.
LEMMA AskedIsConstant ==
    ASSUME UNCHANGED constant
    PROVE  /\ program' = program /\ text' = text
           /\ Asked' = Asked /\ PrefixEnds' = PrefixEnds
           /\ \A i : SuffixEnds(i)' = SuffixEnds(i) /\ Between(i)' = Between(i)
           /\ \A w, t, i : Path(w, t, i)' = Path(w, t, i)
           /\ \A k, i, e : Behind(k, i, e)' = Behind(k, i, e)
           /\ \A m, t, i, e : Starts(m, t, i, e)' = Starts(m, t, i, e)
BY DEF constant, Asked, PrefixEnds, SuffixEnds, Between, Path, Behind, Starts, PartEnds, MiddlePart

\* What is asked in the next state.
LEMMA AskedNext ==
    ASSUME UNCHANGED constant
    PROVE  /\ Behind(index, begin, end)' <=> Behind(index', begin', end')
           /\ Starts(index + 1, Middle.skip - iter, begin, end)'
                = Starts(index' + 1, Middle'.skip - iter', begin', end')
           /\ Starts(index + 1, Middle.skip, begin, end)' = Starts(index' + 1, Middle'.skip, begin', end')
<1>1. program' = program /\ text' = text
  BY DEF constant
<1> QED
  BY <1>1 DEF Starts, Behind, PartEnds, MiddlePart, Between

\* A return says so.
LEMMA ReturnsRight ==
    ASSUME (Return(FALSE) /\ ~Asked) \/ (Return(TRUE) /\ Asked)
    PROVE  Reads'
<1>1. UNCHANGED constant /\ pc' = "done" /\ result' \in BOOLEAN /\ (result' <=> Asked)
  BY DEF Return
<1>2. Asked' = Asked
  BY <1>1, AskedIsConstant
<1> QED
  BY <1>1, <1>2 DEF Reads, EndsRead, RestRead, Meaning, SearchStates

\* The parts need their bytes.
LEMMA AskedNeedsRoom ==
    ASSUME Inv, NEW e \in PrefixEnds .. Len(text), SuffixEnds(e) = Len(text), Behind(0, PrefixEnds, e)
    PROVE  /\ PrefixEnds \in Nat /\ PrefixEnds >= Len(program.prefix)
           /\ PrefixEnds + Left(0) <= e /\ e \in Nat
           /\ e + Len(program.suffix) <= Len(text)
<1>1. /\ Len(program.prefix) \in Nat /\ Len(program.suffix) \in Nat /\ Len(text) \in Nat
      /\ text \in Seq(Byte) /\ Programs /\ 0 \in 0 .. Len(program.middle)
  BY Numbers DEF Inv, Programs
<1>2. ASSUME NEW w, Len(w) \in Nat, NEW i \in Nat
      PROVE  /\ EndFrom(program, text, w, 0, i) \in Nat
             /\ EndFrom(program, text, w, 0, i) <= Len(text) =>
                    i + Len(w) <= EndFrom(program, text, w, 0, i)
  <2> DEFINE x == Way(program, text, w, 0, i)
  <2>1. 0 \in 0 .. Len(w) /\ Len(w) \in 0 .. Len(w) /\ Len(w) - 0 = Len(w)
    BY <1>2
  <2>2. x[0] = i
    BY <1>2, <2>1, WaySteps
  <2>3. x[Len(w)] \in Nat /\ (x[Len(w)] <= Len(text) => x[0] + (Len(w) - 0) <= x[Len(w)])
    BY <1>1, <1>2, <2>1, WayGrows
  <2> QED
    BY <2>1, <2>2, <2>3 DEF EndFrom
<1>3. PrefixEnds \in Nat /\ (PrefixEnds <= Len(text) => 0 + Len(program.prefix) <= PrefixEnds)
  BY <1>1, <1>2 DEF PrefixEnds
<1>4. e \in Nat /\ PrefixEnds <= e /\ e <= Len(text)
  BY <1>1, <1>3
<1>5. e + Len(program.suffix) <= SuffixEnds(e)
  <2>1. SuffixEnds(e) = EndFrom(program, text, program.suffix, 0, e)
    BY DEF SuffixEnds
  <2>2. EndFrom(program, text, program.suffix, 0, e) <= Len(text) =>
           e + Len(program.suffix) <= EndFrom(program, text, program.suffix, 0, e)
    BY <1>1, <1>2, <1>4
  <2> QED
    BY <1>1, <2>1, <2>2
<1>6. PrefixEnds + Left(0) <= e
  BY <1>1, <1>3, <1>4, BehindNeedsRoom
<1> QED
  BY <1>1, <1>3, <1>4, <1>5, <1>6

\* What is asked, in other words.
LEMMA AskedIs ==
    Asked <=> \E e \in PrefixEnds .. Len(text) :
                 Between(e) /\ SuffixEnds(e) = Len(text) /\ Behind(0, PrefixEnds, e)
BY Zenon DEF Asked, Lies, PrefixEnds, SuffixEnds, Between, Behind

\* Without underscores, bytes lie where they are equal.
LEMMA PlainBytes ==
    ASSUME Inv, ~program.underscores, NEW w, Len(w) \in Nat, NEW i \in Nat
    PROVE  /\ EndFrom(program, text, w, 0, i) <= Len(text) => i + Len(w) <= Len(text) /\ EqualAt(i, w)
           /\ i + Len(w) <= Len(text) /\ EqualAt(i, w) => EndFrom(program, text, w, 0, i) = i + Len(w)
<1>1. text \in Seq(Byte) /\ 0 \in 0 .. Len(w) /\ Len(w) \in 0 .. Len(w)
  BY DEF Inv, Programs
<1> DEFINE t == 0
           u == Len(w)
<1>2. t \in 0 .. Len(w) /\ u \in t .. Len(w) /\ t = 0 /\ u = Len(w)
  BY <1>1
<1> HIDE DEF t, u
<1>p. program.underscores => \A k \in t + 1 .. u : w[k] # Underscore
  OBVIOUS
<1>3. ASSUME Path(w, t, i)[u] <= Len(text)
      PROVE  /\ Path(w, t, i)[u] = i + (u - t) /\ i + (u - t) <= Len(text)
             /\ \A k \in t + 1 .. u : text[i + (k - t)] = w[k]
  <2>1. i + (u - t) <= Len(text)
    BY <1>1, <1>2, <1>3, <1>p, BytesOnPath
  <2>2. \A k \in t + 1 .. u : text[i + (k - t)] = w[k]
    BY <1>1, <1>2, <1>3, <1>p, BytesOnPath
  <2>3. Path(w, t, i)[u] = i + (u - t)
    BY <1>1, <1>2, <1>p, <2>1, <2>2, EqualBytesOnPath
  <2> QED
    BY <2>1, <2>2, <2>3
<1>7. ASSUME i + (u - t) <= Len(text), \A k \in t + 1 .. u : text[i + (k - t)] = w[k]
      PROVE  Path(w, t, i)[u] = i + (u - t)
  BY <1>1, <1>2, <1>7, <1>p, EqualBytesOnPath
<1>4. u - t = Len(w) /\ t + 1 = 1 /\ \A k \in 1 .. Len(w) : k - t = k
  BY <1>2
<1>5. (\A k \in t + 1 .. u : text[i + (k - t)] = w[k]) <=> EqualAt(i, w)
  BY <1>2, <1>4 DEF EqualAt
<1>6. EndFrom(program, text, w, 0, i) = Path(w, t, i)[u]
  BY <1>2 DEF EndFrom, Path
<1> QED
  BY <1>3, <1>4, <1>5, <1>6, <1>7, Zenon

\* The length of the text, and the prefix.
LEMMA PrefixReads ==
    ASSUME Inv, ReadsAscii(program), Reads,
           TooShort \/ LongEnough \/ PrefixDiffers \/ PrefixEqual \/ WalkPrefix \/ PrefixWalked
    PROVE  Reads'
<1>n. /\ Len(program.prefix) \in Nat /\ Len(program.suffix) \in Nat /\ Left(0) \in Nat
      /\ Len(text) \in Nat /\ begin \in Nat /\ end \in Nat /\ iter \in Nat
      /\ Len(program.suffix) + Left(0) \in Nat
      /\ Len(program.prefix) + Len(program.suffix) + Left(0)
           = Len(program.prefix) + (Len(program.suffix) + Left(0))
  BY Numbers DEF Inv, Types
<1>u. /\ program.underscores \in BOOLEAN /\ program.prefix \in Seq(Byte) /\ text \in Seq(Byte)
      /\ result \in BOOLEAN
  BY DEF Inv, Programs, Fits, Reads, EndsRead
<1>c. ASSUME UNCHANGED constant
      PROVE  /\ program' = program /\ text' = text
             /\ Asked' = Asked /\ PrefixEnds' = PrefixEnds
             /\ \A i : SuffixEnds(i)' = SuffixEnds(i) /\ Between(i)' = Between(i)
             /\ \A w, t, i : Path(w, t, i)' = Path(w, t, i)
  BY <1>c, AskedIsConstant
<1>w. /\ Path(program.prefix, 0, 0)[0] = 0
      /\ \A k \in 0 + 1 .. Len(program.prefix) :
            Path(program.prefix, 0, 0)[k]
              = StepTo(program, text, program.prefix[k], Path(program.prefix, 0, 0)[k - 1])
      /\ PrefixEnds = Path(program.prefix, 0, 0)[Len(program.prefix)]
  <2>1. 0 \in 0 .. Len(program.prefix)
    BY <1>n
  <2> QED
    BY <1>n, <2>1, WaySteps DEF Path, PrefixEnds, EndFrom
<1>1. CASE TooShort
  <2>1. pc = "begin" /\ Return(FALSE) /\ end - begin < sums
    BY <1>1 DEF TooShort, NoRoomFor
  <2>2. begin = 0 /\ end = Len(text)
    BY <2>1 DEF Reads, EndsRead
  <2>3. sums = Len(program.prefix) + (Len(program.suffix) + Left(0))
    BY <2>1, <1>n DEF Inv, Sums
  <2>4. ASSUME NEW e \in PrefixEnds .. Len(text), Between(e), SuffixEnds(e) = Len(text), Behind(0, PrefixEnds, e)
        PROVE  FALSE
    <3> DEFINE front == Len(program.prefix)
               back == Len(program.suffix)
               rest == Left(0)
               pre == PrefixEnds
    <3>1. pre \in Nat /\ pre >= front /\ pre + rest <= e /\ e \in Nat /\ e + back <= Len(text)
      BY <2>4, AskedNeedsRoom
    <3>2. Len(text) < front + (back + rest)
      BY <2>1, <2>2, <2>3, <1>n
    <3>3. front \in Nat /\ back \in Nat /\ rest \in Nat /\ Len(text) \in Nat
      BY <1>n
    <3> HIDE DEF front, back, rest, pre
    <3> QED
      BY <3>1, <3>2, <3>3
  <2>5. ~Asked
    BY <2>4, AskedIs
  <2> QED
    BY <2>1, <2>5, ReturnsRight
<1>2. CASE LongEnough
  <2>1. /\ pc = "begin" /\ pc' = "prefix" /\ iter' = 0
        /\ UNCHANGED constant /\ UNCHANGED <<begin, end, result>>
    BY <1>2 DEF LongEnough
  <2>2. begin = 0 /\ end = Len(text)
    BY <2>1 DEF Reads, EndsRead
  <2>3. EndsRead'
    BY <2>1, <2>2, <1>n, <1>u, <1>c, <1>w DEF EndsRead
  <2> QED
    BY <2>1, <2>3 DEF Reads, RestRead, Meaning, SearchStates
<1>3. CASE PrefixDiffers
  <2>1. pc = "prefix" /\ ~program.underscores /\ ~EqualAt(begin, program.prefix) /\ Return(FALSE)
    BY <1>3 DEF PrefixDiffers
  <2>2. begin = 0
    BY <2>1 DEF Reads, EndsRead
  <2>3. ~(PrefixEnds <= Len(text))
    BY <2>1, <2>2, <1>n, PlainBytes DEF PrefixEnds
  <2>4. ASSUME NEW e \in PrefixEnds .. Len(text), Between(e), SuffixEnds(e) = Len(text), Behind(0, PrefixEnds, e)
        PROVE  FALSE
    <3>1. PrefixEnds \in Nat /\ PrefixEnds + Left(0) <= e
      BY <2>4, AskedNeedsRoom
    <3> QED
      BY <2>3, <3>1, <1>n
  <2>5. ~Asked
    BY <2>4, AskedIs
  <2> QED
    BY <2>1, <2>5, ReturnsRight
<1>4. CASE PrefixEqual
  <2>1. /\ pc = "prefix" /\ pc' = "suffix" /\ ~program.underscores /\ EqualAt(begin, program.prefix)
        /\ begin' = begin + Len(program.prefix)
        /\ UNCHANGED constant /\ UNCHANGED <<end, result>>
    BY <1>4 DEF PrefixEqual
  <2>2. begin = 0 /\ end = Len(text)
    BY <2>1 DEF Reads, EndsRead
  <2>3. Len(program.prefix) <= Len(text)
    <3>1. sums = Len(program.prefix) + (Len(program.suffix) + Left(0)) /\ end - begin >= sums
      BY <2>1, <1>n DEF Inv, Sums
    <3> DEFINE back == Len(program.suffix) + Left(0)
    <3>2. back \in Nat /\ sums = Len(program.prefix) + back
      BY <3>1, <1>n
    <3> HIDE DEF back
    <3> QED
      BY <2>2, <3>1, <3>2, <1>n
  <2>4. PrefixEnds = 0 + Len(program.prefix)
    BY <2>1, <2>2, <2>3, <1>n, PlainBytes DEF PrefixEnds
  <2>5. EndsRead'
    BY <2>1, <2>2, <2>4, <1>u, <1>c DEF EndsRead
  <2> QED
    BY <2>1, <2>5 DEF Reads, RestRead, Meaning, SearchStates
<1>5. CASE WalkPrefix
  <2> DEFINE c == program.prefix[iter + 1]
             x == Path(program.prefix, 0, 0)
  <2>1. pc = "prefix" /\ program.underscores /\ iter < Len(program.prefix) /\ UNCHANGED constant
    BY <1>5 DEF WalkPrefix, Return
  <2>2. x[iter] = begin /\ end = Len(text)
    BY <2>1 DEF Reads, EndsRead
  <2>3. c \in Byte /\ c < 128 /\ AsChar(c) = c
    <3>1. iter + 1 \in 1 .. Len(program.prefix)
      BY <2>1, <1>n
    <3>2. c \in Byte /\ c < 128
      BY <2>1, <3>1, <1>u DEF ReadsAscii
    <3> QED
      BY <3>2 DEF AsChar
  <2>4. x[iter + 1] = StepTo(program, text, c, begin)
    <3>1. iter + 1 \in 0 + 1 .. Len(program.prefix) /\ (iter + 1) - 1 = iter
      BY <2>1, <1>n
    <3> QED
      BY <2>2, <3>1, <1>w
  <2>5. CASE PrefixStuck(c)
    <3>1. Return(FALSE)
      BY <1>5, <2>5 DEF WalkPrefix
    <3>2. ~(x[iter + 1] <= Len(text))
      <4>1. CASE begin = end
        <5>1. StepTo(program, text, c, begin) = Len(text) + 1
          BY <4>1, <2>2, <1>n DEF StepTo
        <5> QED
          BY <2>4, <5>1, <1>n
      <4>2. CASE begin # end
        <5>1. c # Underscore /\ c # text[begin + 1]
          BY <4>2, <2>3, <2>5 DEF PrefixStuck
        <5>2. StepTo(program, text, c, begin) = Len(text) + 1
          BY <5>1 DEF StepTo
        <5> QED
          BY <2>4, <5>2, <1>n
      <4> QED
        BY <4>1, <4>2
    <3>3. ASSUME NEW e \in PrefixEnds .. Len(text), Between(e), SuffixEnds(e) = Len(text), Behind(0, PrefixEnds, e)
          PROVE  FALSE
      <4>1. PrefixEnds \in Nat /\ PrefixEnds <= Len(text)
        <5>1. PrefixEnds \in Nat
          BY <3>3, AskedNeedsRoom
        <5> QED
          BY <3>3, <5>1, <1>n
      <4>2. iter + 1 \in 0 .. Len(program.prefix) /\ 0 \in 0 .. Len(program.prefix)
            /\ Len(program.prefix) \in iter + 1 .. Len(program.prefix)
        BY <2>1, <1>n
      <4>3. /\ x[Len(program.prefix)] <= Len(text) =>
                  x[iter + 1] + (Len(program.prefix) - (iter + 1)) <= x[Len(program.prefix)]
            /\ x[Len(program.prefix)] \in Nat
        <5> DEFINE j == iter + 1
        <5>1. j \in 0 .. Len(program.prefix) /\ Len(program.prefix) \in j .. Len(program.prefix)
          BY <4>2
        <5> HIDE DEF j
        <5>2. /\ x[Len(program.prefix)] <= Len(text) =>
                    x[j] + (Len(program.prefix) - j) <= x[Len(program.prefix)]
              /\ x[Len(program.prefix)] \in Nat
          BY <4>2, <5>1, <1>n, <1>u, WayGrows DEF Path
        <5> QED
          BY <5>2 DEF j
      <4>4. x[iter + 1] \in Nat
        BY <2>4, <1>n, <1>u, StepEnds
      <4> HIDE DEF x
      <4> QED
        BY <2>1, <3>2, <4>1, <4>3, <4>4, <1>n, <1>w DEF x
    <3>4. ~Asked
      BY <3>3, AskedIs
    <3> QED
      BY <3>1, <3>4, ReturnsRight
  <2>6. CASE ~PrefixStuck(c)
    <3>1. /\ pc' = "prefix" /\ iter' = iter + 1
          /\ begin' = begin + IF c = Underscore THEN MultiByteSequenceLength(text[begin + 1]) ELSE 1
          /\ UNCHANGED <<end, result>>
      BY <1>5, <2>1, <2>6 DEF WalkPrefix
    <3>2. begin < Len(text) /\ (c = Underscore \/ text[begin + 1] = c)
      BY <2>2, <2>3, <2>6, <1>n DEF PrefixStuck, Inv, Inside
    <3>3. StepTo(program, text, c, begin) = begin'
      BY <2>1, <3>1, <3>2, <1>n DEF StepTo
    <3>4. iter' <= Len(program.prefix) /\ x[iter'] = begin'
      BY <2>1, <2>4, <3>1, <3>3, <1>n
    <3>5. EndsRead'
      BY <2>1, <2>2, <3>1, <3>4, <1>u, <1>c DEF EndsRead
    <3> QED
      BY <3>1, <3>5 DEF Reads, RestRead, Meaning, SearchStates
  <2> QED
    BY <2>5, <2>6
<1>6. CASE PrefixWalked
  <2>1. /\ pc = "prefix" /\ pc' = "suffix" /\ program.underscores
        /\ iter = Len(program.prefix) /\ iter' = Len(program.suffix)
        /\ UNCHANGED constant /\ UNCHANGED <<begin, end, result>>
    BY <1>6 DEF PrefixWalked
  <2>2. PrefixEnds = begin /\ end = Len(text)
    BY <2>1, <1>w DEF Reads, EndsRead
  <2>3. \A e : SuffixEnds(e) = Path(program.suffix, 0, e)[Len(program.suffix)]
    BY DEF SuffixEnds, EndFrom, Path
  <2>4. EndsRead'
    <3>1. \A e \in 0 .. Len(text) : Between(e) =>
             (SuffixEnds(e) = Len(text) <=> Path(program.suffix, 0, e)[iter'] = end)
      BY <2>1, <2>2, <2>3
    <3>2. (\A e \in 0 .. Len(text) : Between(e) =>
             (SuffixEnds(e) = Len(text) <=> Path(program.suffix, 0, e)[iter] = end))'
      BY <2>1, <3>1, <1>c
    <3> QED
      BY <2>1, <2>2, <3>2, <1>u, <1>c DEF EndsRead
  <2> QED
    BY <2>1, <2>4 DEF Reads, RestRead, Meaning, SearchStates
<1> QED
  BY <1>1, <1>2, <1>3, <1>4, <1>5, <1>6

\* The suffix.
LEMMA SuffixReads ==
    ASSUME Inv, ReadsAscii(program), Reads,
           SuffixDiffers \/ SuffixEqual \/ WalkSuffix \/ SuffixWalked
    PROVE  Reads'
<1>n. /\ Len(program.suffix) \in Nat /\ Left(0) \in Nat /\ Len(text) \in Nat
      /\ begin \in Nat /\ end \in Nat /\ begin <= end /\ end <= Len(text) /\ iter \in Nat
  BY Numbers DEF Inv, Types
<1>u. /\ program.underscores \in BOOLEAN /\ program.suffix \in Seq(Byte) /\ text \in Seq(Byte)
      /\ program.underscores => WellEncoded(text) /\ WellEncoded(program.suffix)
      /\ result \in BOOLEAN
  BY DEF Inv, Programs, Fits, Reads, EndsRead
<1>s. /\ pc = "suffix" /\ PrefixEnds = begin /\ index = 0
      /\ ~program.underscores => end = Len(text)
      /\ program.underscores => \A e \in 0 .. Len(text) : Between(e) =>
             (SuffixEnds(e) = Len(text) <=> Path(program.suffix, 0, e)[iter] = end)
  <2>1. pc = "suffix"
    BY DEF SuffixDiffers, SuffixEqual, WalkSuffix, SuffixWalked
  <2>2. index = 0
    BY <2>1 DEF Inv, Sums
  <2> QED
    BY <2>1, <2>2, <1>u DEF Reads, EndsRead
<1>c. ASSUME UNCHANGED constant
      PROVE  /\ program' = program /\ text' = text
             /\ Asked' = Asked /\ PrefixEnds' = PrefixEnds
             /\ \A i : SuffixEnds(i)' = SuffixEnds(i) /\ Between(i)' = Between(i)
             /\ \A w, t, i : Path(w, t, i)' = Path(w, t, i)
             /\ Behind(index, begin, end)' <=> Behind(index', begin', end')
  BY <1>c, AskedIsConstant, AskedNext
<1>1. CASE SuffixDiffers
  <2>1. /\ ~program.underscores /\ Return(FALSE)
        /\ ~EqualAt(end - Len(program.suffix), program.suffix)
    BY <1>1 DEF SuffixDiffers
  <2>2. ASSUME NEW e \in PrefixEnds .. Len(text), Between(e), SuffixEnds(e) = Len(text), Behind(0, PrefixEnds, e)
        PROVE  FALSE
    <3>1. e \in Nat
      BY <2>2, AskedNeedsRoom
    <3>2. SuffixEnds(e) = EndFrom(program, text, program.suffix, 0, e)
      BY DEF SuffixEnds
    <3>3. EqualAt(e, program.suffix) /\ e + Len(program.suffix) <= Len(text)
      BY <2>1, <2>2, <3>1, <3>2, <1>n, PlainBytes
    <3>4. EndFrom(program, text, program.suffix, 0, e) = e + Len(program.suffix)
      BY <2>1, <3>1, <3>3, <1>n, PlainBytes
    <3>5. e = end - Len(program.suffix)
      BY <2>1, <2>2, <3>1, <3>2, <3>4, <1>n, <1>s
    <3> QED
      BY <2>1, <3>3, <3>5
  <2>3. ~Asked
    BY <2>2, AskedIs
  <2> QED
    BY <2>1, <2>3, ReturnsRight
<1>2. ASSUME UNCHANGED constant, pc' = "next", begin' = begin, index' = index, result' = result,
             end' \in begin .. Len(text), Between(end'),
             \A e \in begin .. Len(text) : Between(e) => (SuffixEnds(e) = Len(text) <=> e = end')
      PROVE  Reads'
  <2>1. Asked <=> Behind(0, begin, end')
    BY <1>2, <1>s, AskedIs
  <2>2. Meaning'
    BY <1>2, <2>1, <1>c, <1>s DEF Meaning, SearchStates
  <2> QED
    BY <1>2, <2>2, <1>u DEF Reads, EndsRead, RestRead
<1>3. CASE SuffixEqual
  <2>1. /\ ~program.underscores /\ EqualAt(end - Len(program.suffix), program.suffix)
        /\ pc' = "next" /\ end' = end - Len(program.suffix)
        /\ UNCHANGED constant /\ UNCHANGED <<begin, index, result>>
    BY <1>3 DEF SuffixEqual
  <2>2. end' \in begin .. Len(text) /\ end' \in Nat /\ end' + Len(program.suffix) = Len(text)
    <3> DEFINE back == Len(program.suffix)
               rest == Left(0)
    <3>1. end - begin >= back + rest
      BY <2>1, <1>s DEF Inv, Sums
    <3>2. back \in Nat /\ rest \in Nat /\ end = Len(text) /\ end' = end - back
      BY <2>1, <1>n, <1>s
    <3> HIDE DEF back, rest
    <3>3. end' \in begin .. Len(text) /\ end' \in Nat /\ end' + back = Len(text)
      BY <3>1, <3>2, <1>n
    <3> QED
      BY <3>3 DEF back
  <2>3. ASSUME NEW e \in begin .. Len(text)
        PROVE  SuffixEnds(e) = Len(text) <=> e = end'
    <3>0. e \in Nat
      BY <1>n
    <3>1. SuffixEnds(e) = EndFrom(program, text, program.suffix, 0, e)
      BY DEF SuffixEnds
    <3>2. ASSUME SuffixEnds(e) = Len(text) PROVE e = end'
      <4>1. EqualAt(e, program.suffix) /\ e + Len(program.suffix) <= Len(text)
        BY <2>1, <3>0, <3>1, <3>2, <1>n, PlainBytes
      <4>2. EndFrom(program, text, program.suffix, 0, e) = e + Len(program.suffix)
        BY <2>1, <3>0, <4>1, <1>n, PlainBytes
      <4> QED
        BY <2>1, <3>0, <3>1, <3>2, <4>2, <1>n, <1>s
    <3>3. ASSUME e = end' PROVE SuffixEnds(e) = Len(text)
      <4>1. e + Len(program.suffix) = Len(text) /\ EqualAt(e, program.suffix)
        BY <2>1, <2>2, <3>3
      <4>2. e + Len(program.suffix) <= Len(text)
        BY <4>1, <1>n
      <4>3. EndFrom(program, text, program.suffix, 0, e) = e + Len(program.suffix)
        BY <2>1, <3>0, <4>1, <4>2, <1>n, PlainBytes
      <4> QED
        BY <3>1, <4>1, <4>3
    <3> QED
      BY <3>2, <3>3
  <2>4. Between(end')
    BY <2>1 DEF Between, IsBetween
  <2> QED
    BY <1>2, <2>1, <2>2, <2>3, <2>4
<1>4. CASE SuffixWalked
  <2>1. /\ program.underscores /\ iter = 0 /\ pc' = "next" /\ end' = end
        /\ UNCHANGED constant /\ UNCHANGED <<begin, index, result>>
    BY <1>4 DEF SuffixWalked
  <2>2. \A e : Path(program.suffix, 0, e)[0] = e
    <3>1. 0 \in 0 .. Len(program.suffix)
      BY <1>n
    <3> QED
      BY <3>1, <1>n, WaySteps DEF Path
  <2>3. \A e \in begin .. Len(text) : Between(e) => (SuffixEnds(e) = Len(text) <=> e = end')
    <3>1. \A e \in begin .. Len(text) : e \in 0 .. Len(text)
      BY <1>n
    <3> QED
      BY <2>1, <2>2, <3>1, <1>s
  <2>4. Between(end')
    <3>1. Inv'
      BY <1>4, EndsStep DEF Ends
    <3>2. Boundary(end)'
      BY <2>1, <3>1 DEF Inv, Boundaries, constant
    <3>3. Boundary(end)
      BY <2>1, <3>2 DEF Boundary, constant
    <3> QED
      BY <2>1, <3>3, <1>n DEF Boundary, Between, IsBetween
  <2>5. end' \in begin .. Len(text)
    BY <2>1, <1>n
  <2> QED
    BY <1>2, <2>1, <2>3, <2>4, <2>5
<1>5. CASE WalkSuffix
  <2> DEFINE c == program.suffix[iter]
             x(e) == Path(program.suffix, 0, e)
             n == Len(program.suffix)
  <2>1. program.underscores /\ iter > 0 /\ UNCHANGED constant /\ iter \in 1 .. n
    <3>1. iter <= n /\ program.underscores /\ iter > 0
      BY <1>5, <1>s DEF WalkSuffix, Inv, Loops
    <3> QED
      BY <1>5, <3>1, <1>n DEF WalkSuffix, Return
  <2>2. ASSUME NEW e \in Nat
        PROVE  /\ x(e)[0] = e /\ x(e)[iter] = StepTo(program, text, c, x(e)[iter - 1])
               /\ x(e)[iter - 1] \in Nat /\ x(e)[iter] \in Nat
               /\ x(e)[iter] <= Len(text) => e + (iter - 0) <= x(e)[iter]
    <3>1. 0 \in 0 .. n /\ iter \in 0 + 1 .. n /\ iter \in 0 .. n /\ iter - 1 \in 0 .. n
      BY <2>1, <1>n
    <3>2. x(e)[0] = e /\ \A k \in 0 + 1 .. n : x(e)[k] = StepTo(program, text, program.suffix[k], x(e)[k - 1])
      BY <3>1, <1>n, WaySteps DEF Path
    <3>3. \A k \in 0 .. n : x(e)[k] \in Nat /\ (x(e)[k] <= Len(text) => x(e)[0] + (k - 0) <= x(e)[k])
      BY <3>1, <1>n, <1>u, WayGrows DEF Path
    <3> HIDE DEF x
    <3> QED
      BY <3>1, <3>2, <3>3
  <2>3. CASE SuffixStuck(c)
    <3>1. Return(FALSE)
      BY <1>5, <2>3 DEF WalkSuffix
    <3>2. ASSUME NEW e \in PrefixEnds .. Len(text), Between(e), SuffixEnds(e) = Len(text), Behind(0, PrefixEnds, e)
          PROVE  FALSE
      <4>1. /\ PrefixEnds + Left(0) <= e /\ e \in Nat /\ e + n <= Len(text) /\ begin <= e /\ e <= Len(text)
        <5>1. PrefixEnds + Left(0) <= e /\ e \in Nat /\ e + n <= Len(text)
          BY <3>2, AskedNeedsRoom
        <5> QED
          BY <5>1, <1>n, <1>s
      <4>2. x(e)[iter] = end
        <5>1. e \in 0 .. Len(text)
          BY <4>1, <1>n
        <5> QED
          BY <2>1, <3>2, <5>1, <1>s
      <4>3. /\ end = StepTo(program, text, c, x(e)[iter - 1]) /\ x(e)[iter - 1] \in Nat
            /\ e + (iter - 0) <= end
        <5> HIDE DEF x
        <5> QED
          BY <2>2, <4>1, <4>2, <1>n
      <4>4. ~(end <= begin)
        BY <2>1, <4>1, <4>3, <1>n
      <4>5. c = Underscore \/ c = text[end]
        <5> DEFINE j == x(e)[iter - 1]
        <5>1. end = StepTo(program, text, c, j) /\ j \in Nat
          BY <4>3
        <5> HIDE DEF j
        <5>2. j < Len(text)
          BY <5>1, <1>n, <1>u, StepEnds
        <5>3. CASE c # Underscore
          <6>1. text[j + 1] = c /\ end = j + 1
            BY <5>1, <5>2, <5>3, <1>n DEF StepTo
          <6> QED
            BY <6>1
        <5> QED
          BY <5>3
      <4>6. ~SuffixShort
        <5>1. CASE iter = n
          <6> DEFINE back == Len(program.suffix)
                     rest == Left(0)
          <6>1. sums = back + rest /\ end = Len(text)
            <7>1. sums = back + rest
              BY <1>s DEF Inv, Sums
            <7>2. end = Len(text)
              BY <5>1, <2>1, <1>s DEF Inv, Boundaries
            <7> QED
              BY <7>1, <7>2
          <6>2. begin + rest <= e /\ e + back <= Len(text) /\ back \in Nat /\ rest \in Nat
            BY <4>1, <1>n, <1>s
          <6> HIDE DEF back, rest
          <6>3. ~(end - begin < sums)
            BY <6>1, <6>2, <4>1, <1>n
          <6> QED
            BY <6>3 DEF SuffixShort, NoRoomFor
        <5> QED
          BY <5>1 DEF SuffixShort
      <4> QED
        BY <2>3, <4>4, <4>5, <4>6 DEF SuffixStuck
    <3>3. ~Asked
      BY <3>2, AskedIs
    <3> QED
      BY <3>1, <3>3, ReturnsRight
  <2>4. CASE ~SuffixStuck(c)
    <3>1. /\ pc' = "suffix" /\ iter' = iter - 1
          /\ end' = (IF c = Underscore THEN CodePointBefore(end) ELSE end - 1)
          /\ UNCHANGED <<begin, result>>
      BY <1>5, <2>1, <2>4, <1>s DEF WalkSuffix
    <3>2. begin < end /\ (c = Underscore \/ c = text[end])
      BY <2>4, <1>n DEF SuffixStuck
    <3>3. WellEncoded(text) /\ WellEncoded(program.suffix) /\ Boundary(begin)
      BY <2>1, <1>s, <1>u DEF Inv, Boundaries
    <3>4. c \in Byte /\ text \in Seq(Byte)
      BY <2>1, <1>u
    <3>5. ASSUME NEW e \in 0 .. Len(text), Between(e)
          PROVE  x(e)[iter] = end <=> x(e)[iter - 1] = end'
      <4>0. e \in Nat /\ Boundary(e)
        BY <2>1, <3>5, <1>n DEF Between, IsBetween, Boundary
      <4> DEFINE j == x(e)[iter - 1]
      <4>1. x(e)[iter] = StepTo(program, text, c, j) /\ j \in Nat
        BY <2>2, <4>0
      <4>2. CASE c # Underscore
        <5>1. end' = end - 1 /\ text[end] = c
          BY <3>1, <3>2, <4>2
        <5>2. ASSUME StepTo(program, text, c, j) = end PROVE j = end'
          <6> HIDE DEF j
          <6>1. j < Len(text)
            BY <4>1, <5>2, <3>4, <1>n, StepEnds
          <6>2. end = j + 1
            BY <4>1, <4>2, <5>2, <6>1, <1>n DEF StepTo
          <6> QED
            BY <4>1, <5>1, <6>2
        <5>3. ASSUME j = end' PROVE StepTo(program, text, c, j) = end
          <6> HIDE DEF j
          <6>1. j = end - 1 /\ j < Len(text) /\ j + 1 = end
            BY <5>1, <5>3, <3>2, <1>n
          <6> QED
            BY <4>1, <4>2, <5>1, <6>1, <1>n DEF StepTo
        <5> QED
          BY <4>1, <5>2, <5>3
      <4>3. CASE c = Underscore
        <5>1. Boundary(end)
          <6>1. CASE iter = n
            BY <6>1, <2>1, <1>s DEF Inv, Boundaries, Boundary
          <6>2. CASE iter # n
            <7>1. iter - 1 \in 0 .. Len(program.suffix) - 1 /\ (iter - 1) + 1 = iter
              BY <2>1, <1>n
            <7>2. ~Continues(c) /\ MultiByteSequenceLength(c) = 1
              BY <4>3 DEF Continues, MultiByteSequenceLength, Underscore
            <7>3. (iter - 1) + 1 < n => ~Continues(program.suffix[(iter - 1) + 1 + 1])
              <8> DEFINE a == iter - 1
              <8>1. a \in 0 .. Len(program.suffix) - 1 /\ program.suffix[a + 1] = c
                BY <7>1
              <8> HIDE DEF a
              <8>2. a + MultiByteSequenceLength(program.suffix[a + 1]) < n =>
                      ~Continues(program.suffix[a + MultiByteSequenceLength(program.suffix[a + 1]) + 1])
                BY <3>3, <7>2, <8>1, <1>u, CodePointsOf
              <8>3. MultiByteSequenceLength(program.suffix[a + 1]) = 1
                BY <7>2, <8>1
              <8>4. a + 1 < n => ~Continues(program.suffix[a + 1 + 1])
                BY <8>2, <8>3
              <8> QED
                BY <8>4 DEF a
            <7>4. ~Continues(program.suffix[iter + 1])
              BY <7>1, <7>3, <6>2, <2>1, <1>n
            <7> QED
              BY <7>4, <6>2, <2>1, <1>s DEF Inv, Boundaries
          <6> QED
            BY <6>1, <6>2
        <5>2. end' = CodePointBefore(end)
          BY <3>1, <4>3
        <5>3. /\ CodePointBefore(end) \in begin .. end - 1
              /\ CodePointBefore(end) + MultiByteSequenceLength(text[CodePointBefore(end) + 1]) = end
          BY <3>2, <3>3, <3>4, <5>1, <1>n, CodePointEnds
        <5>4. ASSUME StepTo(program, text, c, j) = end PROVE j = end'
          <6>1. j < Len(text) /\ j < end
            <7> HIDE DEF j
            <7> QED
              BY <4>1, <5>4, <3>4, <1>n, StepEnds
          <6>2. j + MultiByteSequenceLength(text[j + 1]) = end
            <7> HIDE DEF j
            <7> QED
              BY <4>1, <4>3, <5>4, <6>1, <2>1, <1>n DEF StepTo
          <6>3. Boundary(j)
            <7> DEFINE k == iter - 1
            <7>1. k \in 0 .. Len(program.suffix) /\ k < n /\ program.suffix[k + 1] = c
              BY <2>1, <1>n
            <7>2. ~Continues(program.suffix[k + 1])
              BY <4>3, <7>1 DEF Continues, Underscore
            <7>3. Path(program.suffix, 0, e)[k] <= Len(text)
              BY <6>1, <4>1, <1>n
            <7> HIDE DEF k
            <7>4. Boundary(Path(program.suffix, 0, e)[k])
              BY <2>1, <3>3, <3>4, <4>0, <7>1, <7>2, <7>3, <1>u, OnTheWay
            <7> QED
              BY <7>4 DEF k
          <6> HIDE DEF j
          <6>4. j = CodePointBefore(end)
            BY <3>3, <3>4, <4>1, <5>1, <6>1, <6>2, <6>3, <1>n, CodePointIsBefore
          <6> QED
            BY <5>2, <6>4
        <5>5. ASSUME j = end' PROVE StepTo(program, text, c, j) = end
          <6>1. j = CodePointBefore(end) /\ j < Len(text)
            BY <5>2, <5>3, <5>5, <1>n
          <6>2. j + MultiByteSequenceLength(text[j + 1]) = end
            BY <5>3, <6>1
          <6> HIDE DEF j
          <6> QED
            BY <2>1, <4>1, <4>3, <6>1, <6>2, <1>n DEF StepTo
        <5> QED
          BY <4>1, <5>4, <5>5
      <4> QED
        BY <4>2, <4>3
    <3>6. \A e \in 0 .. Len(text) : Between(e) => (SuffixEnds(e) = Len(text) <=> x(e)[iter - 1] = end')
      <4> HIDE DEF x
      <4> QED
        BY <2>1, <3>5, <1>s DEF x
    <3>7. (\A e \in 0 .. Len(text) : Between(e) =>
             (SuffixEnds(e) = Len(text) <=> Path(program.suffix, 0, e)[iter] = end))'
      BY <2>1, <3>1, <3>6, <1>c
    <3>8. EndsRead'
      BY <2>1, <3>1, <3>7, <1>u, <1>c, <1>s DEF EndsRead
    <3> QED
      BY <3>1, <3>8 DEF Reads, RestRead, Meaning, SearchStates
  <2> QED
    BY <2>3, <2>4
<1> QED
  BY <1>1, <1>3, <1>4, <1>5

-----------------------------------------------------------------------------
(* The middle parts.                                                       *)

\* What is known of the part being looked for.
LEMMA MiddleFacts ==
    ASSUME Inv, pc \in PartStates
    PROVE  /\ Programs /\ text \in Seq(Byte) /\ (program.underscores => WellEncoded(text))
           /\ program.underscores \in BOOLEAN
           /\ index \in Nat /\ index + 1 \in 1 .. Len(program.middle)
           /\ Middle.part = MiddlePart(index + 1) /\ Middle.part \in Seq(Byte)
           /\ Len(Middle.part) \in Nat /\ Middle.skip \in Nat /\ Middle.skip <= Len(Middle.part)
           /\ Middle.skip \in 0 .. Len(MiddlePart(index + 1))
           /\ sums = Len(Middle.part) + Left(index + 1) /\ Left(index + 1) \in Nat
           /\ PartFits(Middle, program.underscores)
           /\ begin \in Nat /\ end \in Nat /\ begin <= end /\ end <= Len(text) /\ Len(text) \in Nat
           /\ iter \in Nat /\ steps \in Nat /\ reader \in Nat
           /\ program.underscores => Boundary(end)
<1>1. PartFits(Middle, program.underscores) /\ sums = Len(Middle.part) + Left(index + 1) /\ Left(index + 1) \in Nat
  BY PartFacts
<1>2. Middle.part \in Seq(Byte) /\ Len(Middle.buffer) \in Nat /\ Middle.skip \in Nat
      /\ Middle.skip + Len(Middle.buffer) <= Len(Middle.part)
  BY <1>1 DEF PartFits
<1>3. Len(Middle.part) \in Nat /\ Middle.skip <= Len(Middle.part)
      /\ Middle.skip \in 0 .. Len(Middle.part)
  BY <1>2
<1>4. index \in Nat /\ index + 1 \in 1 .. Len(program.middle)
  <2>1. index \in Nat /\ Len(program.middle) \in Nat
    BY Numbers
  <2>2. index < Len(program.middle)
    BY DEF Inv, Sums
  <2> QED
    BY <2>1, <2>2
<1>5. Middle.part = MiddlePart(index + 1)
  BY DEF Middle, MiddlePart
<1>6. /\ Programs /\ text \in Seq(Byte) /\ (program.underscores => WellEncoded(text))
      /\ program.underscores \in BOOLEAN
  BY DEF Inv, Programs, Fits
<1>7. /\ begin \in Nat /\ end \in Nat /\ begin <= end /\ end <= Len(text) /\ Len(text) \in Nat
      /\ iter \in Nat /\ steps \in Nat /\ reader \in Nat
  BY Numbers DEF Inv, Types
<1>8. program.underscores => Boundary(end)
  BY DEF Inv, Boundaries
<1> QED
  BY <1>1, <1>2, <1>3, <1>4, <1>5, <1>6, <1>7, <1>8

\* The needle in the part.
LEMMA NeedleInPart ==
    ASSUME Inv, pc \in SearchStates \cup {"rest"}
    PROVE  /\ Length \in Nat /\ Length > 0 /\ Middle.skip + Length <= Len(Middle.part)
           /\ Length = Len(Middle.buffer)
           /\ needle \in Seq(Byte) /\ needle # << >>
           /\ \A k \in 1 .. Length : needle[k] = Middle.part[Middle.skip + k]
           /\ program.underscores =>
                  /\ WholeCodePoints(needle)
                  /\ \A k \in Middle.skip + 1 .. Middle.skip + Length : Middle.part[k] # Underscore
<1>1. pc \in PartStates /\ needle = Middle.buffer /\ Middle.buffer # << >>
  BY DEF Inv, Loops, PartStates
<1>2. PartFits(Middle, program.underscores) /\ Middle.skip \in Nat /\ program.underscores \in BOOLEAN
  BY <1>1, MiddleFacts
<1>3. /\ needle \in Seq(Byte) /\ Length = Len(Middle.buffer) /\ Length = Len(needle)
      /\ Middle.skip + Length <= Len(Middle.part)
      /\ \A k \in 1 .. Length : needle[k] = Middle.part[Middle.skip + k]
      /\ program.underscores => \A k \in 1 .. Length : needle[k] # Underscore
      /\ program.underscores => WholeCodePoints(needle)
  BY <1>1, <1>2 DEF PartFits, Length
<1>4. Length \in Nat /\ Length > 0
  BY <1>1, <1>3
<1>5. ASSUME program.underscores, NEW k \in Middle.skip + 1 .. Middle.skip + Length
      PROVE  Middle.part[k] # Underscore
  <2>1. k - Middle.skip \in 1 .. Length /\ Middle.skip + (k - Middle.skip) = k
    BY <1>2, <1>4
  <2>2. needle[k - Middle.skip] = Middle.part[Middle.skip + (k - Middle.skip)]
    BY <1>3, <2>1
  <2> QED
    BY <1>3, <1>5, <2>1, <2>2
<1> QED
  BY <1>1, <1>3, <1>4, <1>5

\* The bytes behind the skipped underscores begin with the needle: the way
\* over it, where it stays in the text, is where it occurs.
LEMMA NeedleOnPath ==
    ASSUME Inv, pc \in SearchStates \cup {"rest"}, NEW a \in Nat
    PROVE  LET after == Path(Middle.part, Middle.skip, a)[Middle.skip + Length]
           IN  /\ after <= end => OccursAt(a) /\ after = a + Length
               /\ OccursAt(a) => after = a + Length
<1> DEFINE w == Middle.part
           t == Middle.skip
           u == t + Length
           after == Path(w, t, a)[u]
<1>1. pc \in PartStates
  BY DEF PartStates
<1>2. /\ text \in Seq(Byte) /\ Len(w) \in Nat /\ t \in Nat /\ t <= Len(w)
      /\ end \in Nat /\ end <= Len(text) /\ Len(text) \in Nat
  BY <1>1, MiddleFacts
<1>3. /\ Length \in Nat /\ Length > 0 /\ u <= Len(w)
      /\ \A k \in 1 .. Length : needle[k] = w[t + k]
      /\ program.underscores => \A k \in t + 1 .. u : w[k] # Underscore
  BY NeedleInPart
<1>4. t \in 0 .. Len(w) /\ u \in t .. Len(w) /\ u - t = Length /\ u \in Nat
  BY <1>2, <1>3
<1> HIDE DEF u, t, w
<1>5. (\A pos \in 0 .. Length - 1 : MatchesAt(a, pos)) <=> \A k \in t + 1 .. u : text[a + (k - t)] = w[k]
  <2>1. ASSUME \A pos \in 0 .. Length - 1 : MatchesAt(a, pos), NEW k \in t + 1 .. u
        PROVE  text[a + (k - t)] = w[k]
    <3> DEFINE pos == k - t - 1
    <3>1. pos \in 0 .. Length - 1 /\ a + pos + 1 = a + (k - t) /\ pos + 1 \in 1 .. Length /\ t + (pos + 1) = k
      BY <1>2, <1>3, <1>4
    <3> HIDE DEF pos
    <3>2. needle[pos + 1] = text[a + pos + 1]
      BY <2>1, <3>1 DEF MatchesAt, At
    <3>3. needle[pos + 1] = w[t + (pos + 1)]
      BY <1>3, <3>1
    <3> QED
      BY <3>1, <3>2, <3>3
  <2>2. ASSUME \A k \in t + 1 .. u : text[a + (k - t)] = w[k], NEW pos \in 0 .. Length - 1
        PROVE  MatchesAt(a, pos)
    <3> DEFINE k == t + (pos + 1)
    <3>1. k \in t + 1 .. u /\ a + pos + 1 = a + (k - t) /\ pos + 1 \in 1 .. Length
      BY <1>2, <1>3, <1>4
    <3>2. needle[pos + 1] = w[k]
      BY <1>3, <3>1
    <3> HIDE DEF k
    <3>3. text[a + (k - t)] = w[k]
      BY <2>2, <3>1
    <3>4. text[a + pos + 1] = needle[pos + 1]
      BY <3>1, <3>2, <3>3
    <3> QED
      BY <3>4 DEF MatchesAt, At
  <2> QED
    BY <2>1, <2>2
<1>6. ASSUME OccursAt(a) PROVE after = a + Length
  <2>1. a + Length <= end /\ \A k \in t + 1 .. u : text[a + (k - t)] = w[k]
    BY <1>5, <1>6 DEF OccursAt
  <2>2. a + (u - t) <= Len(text)
    BY <1>2, <1>3, <1>4, <2>1
  <2> HIDE DEF after
  <2>3. Path(w, t, a)[u] = a + (u - t)
    BY <1>2, <1>3, <1>4, <2>1, <2>2, EqualBytesOnPath
  <2> QED
    BY <1>4, <2>3 DEF after
<1>7. ASSUME after <= end PROVE OccursAt(a)
  <2>1. after \in Nat /\ after <= Len(text)
    <3>1. t \in t .. Len(w) /\ t \in 0 .. Len(w)
      BY <1>2
    <3>2. after \in Nat
      BY <1>2, <1>4, <3>1, WayGrows DEF Path
    <3> QED
      BY <1>2, <1>7, <3>2
  <2> HIDE DEF after
  <2>2. Path(w, t, a)[u] <= Len(text)
    BY <2>1 DEF after
  <2>3. a + (u - t) <= Len(text)
    BY <1>2, <1>3, <1>4, <2>2, BytesOnPath
  <2>4. \A k \in t + 1 .. u : text[a + (k - t)] = w[k]
    BY <1>2, <1>3, <1>4, <2>2, BytesOnPath
  <2>5. Path(w, t, a)[u] = a + (u - t)
    BY <1>2, <1>3, <1>4, <2>3, <2>4, EqualBytesOnPath
  <2>6. a + Length <= end
    BY <1>4, <1>7, <2>5 DEF after
  <2> QED
    BY <1>5, <2>4, <2>6 DEF OccursAt
<1>8. (after <= end => OccursAt(a) /\ after = a + Length) /\ (OccursAt(a) => after = a + Length)
  BY <1>6, <1>7
<1> QED
  BY <1>8 DEF u, t, w

\* A part lies only where its needle does, and the rest of its way goes on from
\* there.
LEMMA StartsOccur ==
    ASSUME Inv, pc \in SearchStates \cup {"rest"},
           NEW i \in Nat, NEW a \in Starts(index + 1, Middle.skip, i, end)
    PROVE  /\ a \in i .. end /\ a \in Nat /\ Between(a) /\ OccursAt(a)
           /\ \A k \in Middle.skip .. Len(Middle.part) :
                 /\ Path(Middle.part, Middle.skip, a)[k] \in Nat
                 /\ Path(Middle.part, Middle.skip, a)[k] <= end
           /\ PartEnds(index + 1, Middle.skip, a) = Path(Middle.part, Middle.skip, a)[Len(Middle.part)]
<1> DEFINE w == Middle.part
           t == Middle.skip
           x == Path(w, t, a)
<1>1. pc \in PartStates
  BY DEF PartStates
<1>2. /\ text \in Seq(Byte) /\ Len(w) \in Nat /\ t \in Nat /\ t <= Len(w) /\ w = MiddlePart(index + 1)
      /\ end \in Nat /\ end <= Len(text) /\ Len(text) \in Nat
  BY <1>1, MiddleFacts
<1>3. /\ Length \in Nat /\ Length > 0 /\ t + Length <= Len(w)
  BY NeedleInPart
<1>4. a \in i .. end /\ a \in Nat /\ Between(a) /\ PartEnds(index + 1, t, a) <= end
  BY <1>2 DEF Starts
<1>5. PartEnds(index + 1, t, a) = x[Len(w)]
  BY <1>2 DEF PartEnds, EndFrom, Path
<1>6. ASSUME NEW k \in t .. Len(w) PROVE x[k] \in Nat /\ x[k] <= end
  <2>1. t \in 0 .. Len(w) /\ Len(w) \in k .. Len(w)
    BY <1>2
  <2>2. \A l \in k .. Len(w) : x[l] \in Nat /\ (x[l] <= Len(text) => x[k] + (l - k) <= x[l])
    BY <1>2, <1>4, <2>1, WayGrows DEF Path
  <2>3. k \in k .. Len(w) /\ k \in Nat /\ k <= Len(w)
    BY <1>2
  <2> HIDE DEF x, w
  <2>4. x[Len(w)] \in Nat /\ x[Len(w)] <= end
    BY <1>4, <1>5, <2>1, <2>2
  <2>5. x[k] \in Nat /\ x[k] + (Len(w) - k) <= x[Len(w)]
    BY <1>2, <2>1, <2>2, <2>3, <2>4
  <2> QED
    BY <1>2, <2>3, <2>4, <2>5
<1>7. OccursAt(a)
  <2>1. t + Length \in t .. Len(w)
    BY <1>2, <1>3
  <2>2. x[t + Length] <= end
    BY <1>6, <2>1
  <2> QED
    BY <1>4, <2>2, NeedleOnPath
<1> QED
  BY <1>4, <1>5, <1>6, <1>7

\* There is no start where there is no room.
LEMMA NoStarts ==
    ASSUME Inv, pc \in PartStates, NEW t \in 0 .. Len(Middle.part), NEW i \in Nat,
           end - i < (Len(Middle.part) + Left(index + 1)) - t
    PROVE  Starts(index + 1, t, i, end) = {}
<1> SUFFICES ASSUME NEW a \in Starts(index + 1, t, i, end) PROVE FALSE
  OBVIOUS
<1> DEFINE part == Len(Middle.part)
           rest == Left(index + 1)
<1>1. /\ Programs /\ index + 1 \in 1 .. Len(program.middle) /\ Middle.part = MiddlePart(index + 1)
      /\ part \in Nat /\ rest \in Nat /\ end \in Nat /\ end <= Len(text)
  BY MiddleFacts
<1>2. a \in i .. end /\ a \in Nat
  BY <1>1 DEF Starts
<1>3. (a + (part - t)) + rest <= end
  BY <1>1, StartsNeedRoom
<1>4. end - i < (part + rest) - t /\ t \in Nat /\ t <= part
  BY <1>1
<1> HIDE DEF part, rest
<1> QED
  BY <1>1, <1>2, <1>3, <1>4

\* Where the needle was found, it lies first.
LEMMA FoundFirst ==
    ASSUME Inv, Reads, pc = "found"
    PROVE  /\ pc \in PartStates /\ pc \in SearchStates \cup {"rest"}
           /\ at \in begin .. end /\ at \in Nat /\ Length \in Nat /\ at + Length <= end
           /\ Between(at) /\ OccursAt(at)
           /\ Asked <=> Starts(index + 1, Middle.skip, at, end) # {}
<1>1. pc \in PartStates /\ pc \in SearchStates \cup {"rest"}
  BY DEF PartStates, SearchStates
<1>2. /\ at \in begin .. end /\ at + Length \in at + 1 .. end /\ Length \in Nat
      /\ program.underscores => Boundary(at)
  BY PlaceFound
<1>3. /\ begin \in Nat /\ end \in Nat /\ end <= Len(text) /\ Len(text) \in Nat
      /\ program.underscores \in BOOLEAN
  BY <1>1, MiddleFacts
<1>4. at \in Nat /\ begin <= at /\ at <= end /\ at + Length <= end
  BY <1>2, <1>3
<1>5. Between(at)
  BY <1>2, <1>3, <1>4 DEF Between, IsBetween, Boundary
<1>6. OccursAt(at) /\ \A i \in begin .. at - 1 : ~OccursAt(i)
  BY DEF Inv, InSearch, SearchStates, IInv, FirstOccurrence
<1>7. Asked <=> Starts(index + 1, Middle.skip, begin, end) # {}
  BY DEF Reads, Meaning, SearchStates
<1>8. \A a \in begin .. at - 1 : a \notin Starts(index + 1, Middle.skip, begin, end)
  BY <1>1, <1>3, <1>6, StartsOccur
<1>9. Starts(index + 1, Middle.skip, begin, end) # {} <=> Starts(index + 1, Middle.skip, at, end) # {}
  BY <1>3, <1>4, <1>8, StartsLater
<1> QED
  BY <1>1, <1>2, <1>4, <1>5, <1>6, <1>7, <1>9

\* The part ends at i: what is still asked are the parts behind it.
LEMMA AdvanceReads ==
    ASSUME Reads, NEW i, Advance(i), Asked <=> Behind(index + 1, i, end)
    PROVE  Reads'
<1>1. /\ pc' = "next" /\ begin' = i /\ index' = index + 1 /\ end' = end /\ result' = result
      /\ UNCHANGED constant
  BY DEF Advance
<1>2. Asked' = Asked /\ \A k, j, e : Behind(k, j, e)' = Behind(k, j, e)
  BY <1>1, AskedIsConstant
<1>3. Behind(index, begin, end)' <=> Behind(index', begin', end')
  BY <1>1, AskedNext
<1>4. Behind(index', begin', end') <=> Behind(index + 1, i, end)
  BY <1>1, AskedIsConstant DEF Behind, constant
<1>5. Meaning'
  BY <1>1, <1>2, <1>3, <1>4 DEF Meaning, SearchStates
<1>6. result \in BOOLEAN
  BY DEF Reads, EndsRead
<1> QED
  BY <1>1, <1>5, <1>6 DEF Reads, EndsRead, RestRead

\* Up to the search for the needle.
LEMMA CallReads ==
    ASSUME Inv, Reads,
           \/ AllFound \/ NoRoomForRest \/ NextMiddle \/ SkipUnderscore \/ OnlyUnderscores
           \/ NoRoomForNeedle \/ CallSearch
    PROVE  Reads'
<1>n. /\ begin \in Nat /\ end \in Nat /\ begin <= end /\ end <= Len(text) /\ Len(text) \in Nat
      /\ index \in Nat /\ index <= Len(program.middle) /\ Len(program.middle) \in Nat
      /\ iter \in Nat /\ Programs /\ Fits(program) /\ result \in BOOLEAN
      /\ program.underscores \in BOOLEAN
  BY Numbers DEF Inv, Types, Programs, Fits, Reads, EndsRead
<1>c. ASSUME UNCHANGED constant
      PROVE  /\ program' = program /\ text' = text /\ Asked' = Asked
             /\ Starts(index + 1, Middle.skip - iter, begin, end)'
                  = Starts(index' + 1, Middle'.skip - iter', begin', end')
             /\ Starts(index + 1, Middle.skip, begin, end)'
                  = Starts(index' + 1, Middle'.skip, begin', end')
             /\ index' = index => Middle' = Middle
  BY <1>c, AskedIsConstant, AskedNext DEF Middle
<1>1. CASE AllFound
  <2>1. pc = "next" /\ index = Len(program.middle) /\ Return(TRUE)
    BY <1>1 DEF AllFound
  <2>2. Asked <=> Behind(index, begin, end)
    BY <2>1 DEF Reads, Meaning
  <2>3. Asked
    BY <2>1, <2>2, <1>n, NoneBehind
  <2> QED
    BY <2>1, <2>3, ReturnsRight
<1>2. CASE NoRoomForRest
  <2>1. pc = "next" /\ end - begin < sums /\ Return(FALSE)
    BY <1>2 DEF NoRoomForRest, NoRoomFor
  <2>2. (Asked <=> Behind(index, begin, end)) /\ sums = Left(index)
    BY <2>1 DEF Reads, Meaning, Inv, Sums
  <2>3. ~Asked
    <3>1. ASSUME Behind(index, begin, end) PROVE FALSE
      <4>1. index \in 0 .. Len(program.middle)
        BY <1>n
      <4>2. begin + Left(index) <= end
        BY <3>1, <4>1, <1>n, BehindNeedsRoom
      <4>3. Left(index) \in Nat
        BY <4>1, <1>n, LeftIsNat
      <4> QED
        BY <2>1, <2>2, <4>2, <4>3, <1>n
    <3> QED
      BY <2>2, <3>1
  <2> QED
    BY <2>1, <2>3, ReturnsRight
<1>3. CASE NextMiddle
  <2>1. /\ pc = "next" /\ pc' = "skip" /\ index < Len(program.middle) /\ iter' = Middle.skip
        /\ UNCHANGED constant /\ UNCHANGED <<begin, end, index, result>>
    BY <1>3 DEF NextMiddle
  <2>2. Asked <=> Behind(index, begin, end)
    BY <2>1 DEF Reads, Meaning
  <2>3. Behind(index, begin, end) <=> Starts(index + 1, 0, begin, end) # {}
    BY <2>1, <1>n, FirstBehind DEF Starts
  <2>4. Middle.skip \in Nat /\ Middle' = Middle
    <3>1. index + 1 \in 1 .. Len(program.middle)
      BY <2>1, <1>n
    <3> QED
      BY <2>1, <3>1, <1>n, <1>c DEF Fits, PartFits, Middle
  <2>5. Middle'.skip - iter' = 0
    BY <2>1, <2>4
  <2>6. Meaning'
    BY <2>1, <2>2, <2>3, <2>5, <1>c DEF Meaning, SearchStates
  <2> QED
    BY <2>1, <2>6, <1>n DEF Reads, EndsRead, RestRead
<1>4. CASE SkipUnderscore
  <2>1. pc = "skip" /\ iter > 0 /\ pc \in PartStates
    BY <1>4 DEF SkipUnderscore, PartStates
  <2> DEFINE t == Middle.skip - iter
  <2>2. /\ Middle.skip \in Nat /\ Middle.skip <= Len(Middle.part) /\ Len(Middle.part) \in Nat
        /\ Middle.part = MiddlePart(index + 1) /\ index + 1 \in 1 .. Len(program.middle)
        /\ Left(index + 1) \in Nat /\ PartFits(Middle, program.underscores)
        /\ program.underscores => Boundary(end)
    BY <2>1, MiddleFacts
  <2>3. iter <= Middle.skip
    BY <2>1 DEF Inv, Loops
  <2>4. t \in Nat /\ t + 1 \in 1 .. Middle.skip /\ t < Len(Middle.part) /\ t \in 0 .. Len(Middle.part)
        /\ t + 1 = Middle.skip - (iter - 1)
    BY <2>1, <2>2, <2>3, <1>n
  <2>5. Middle.part[t + 1] = Underscore /\ program.underscores
    <3>1. \A k \in 1 .. Middle.skip : Middle.part[k] = Underscore
      BY <2>2 DEF PartFits
    <3>2. Middle.skip # 0
      BY <2>1, <2>2, <2>3, <1>n
    <3>3. program.underscores
      BY <2>2, <3>2, <1>n DEF PartFits
    <3> HIDE DEF t
    <3> QED
      BY <2>4, <3>1, <3>3
  <2>6. Asked <=> Starts(index + 1, t, begin, end) # {}
    BY <2>1 DEF Reads, Meaning
  <2>7. CASE begin = end
    <3>1. Return(FALSE)
      BY <1>4, <2>7 DEF SkipUnderscore
    <3>2. Starts(index + 1, t, begin, end) = {}
      <4> DEFINE part == Len(Middle.part)
                 rest == Left(index + 1)
      <4>1. end - begin < (part + rest) - t
        <5>1. t < part /\ t \in Nat /\ part \in Nat /\ rest \in Nat
          BY <2>2, <2>4
        <5> HIDE DEF part, rest, t
        <5> QED
          BY <2>7, <5>1, <1>n
      <4> HIDE DEF t
      <4> QED
        BY <2>1, <2>4, <4>1, <1>n, NoStarts
    <3> QED
      BY <2>6, <3>1, <3>2, ReturnsRight
  <2>8. CASE begin # end
    <3>1. /\ pc' = "skip" /\ iter' = iter - 1
          /\ begin' = begin + MultiByteSequenceLength(text[begin + 1])
          /\ UNCHANGED constant /\ UNCHANGED <<end, index, result>>
      BY <1>4, <2>8, <2>1 DEF SkipUnderscore
    <3>2. Boundary(begin)
      BY <2>1, <2>5 DEF Inv, Boundaries
    <3>3. Starts(index + 1, t, begin, end) # {} <=> Starts(index + 1, t + 1, begin', end) # {}
      <4>1. begin < end
        BY <2>8, <1>n
      <4> DEFINE m == index + 1
      <4>2. m \in 1 .. Len(program.middle) /\ t < Len(MiddlePart(m)) /\ MiddlePart(m)[t + 1] = Underscore
        BY <2>2, <2>4, <2>5
      <4> HIDE DEF t, m
      <4>3. Starts(m, t, begin, end) # {}
              <=> Starts(m, t + 1, begin + MultiByteSequenceLength(text[begin + 1]), end) # {}
        BY <2>2, <2>4, <2>5, <3>2, <4>1, <4>2, <1>n, SkipsOne
      <4> QED
        BY <3>1, <4>3 DEF m
    <3>4. Middle'.skip - iter' = t + 1
      BY <2>4, <3>1, <1>c
    <3>5. Meaning'
      <4> HIDE DEF t
      <4> QED
        BY <2>6, <3>1, <3>3, <3>4, <1>c DEF Meaning, SearchStates
    <3> QED
      BY <3>1, <3>5, <1>n DEF Reads, EndsRead, RestRead
  <2> QED
    BY <2>7, <2>8
<1>5. CASE OnlyUnderscores
  <2>1. pc = "skip" /\ iter = 0 /\ Middle.buffer = << >> /\ Advance(begin) /\ pc \in PartStates
    BY <1>5 DEF OnlyUnderscores, PartStates
  <2>2. /\ Len(Middle.part) \in Nat /\ Middle.skip = Len(Middle.part)
        /\ Middle.part = MiddlePart(index + 1)
    <3>1. PartFits(Middle, program.underscores) /\ Len(Middle.part) \in Nat
          /\ Middle.part = MiddlePart(index + 1)
      BY <2>1, MiddleFacts
    <3> QED
      BY <2>1, <3>1 DEF PartFits
  <2> DEFINE t == Middle.skip
             m == index + 1
  <2>3. Asked <=> Starts(m, t, begin, end) # {}
    <3>1. Middle.skip - iter = Middle.skip
      BY <2>1, <2>2
    <3> QED
      BY <2>1, <3>1 DEF Reads, Meaning
  <2>4. ASSUME NEW a PROVE PartEnds(m, t, a) = a
    <3>1. t = Len(MiddlePart(m)) /\ Len(MiddlePart(m)) \in Nat
      BY <2>2
    <3> HIDE DEF t, m
    <3>2. EndFrom(program, text, MiddlePart(m), Len(MiddlePart(m)), a) = a
      BY <3>1, NothingLeft
    <3> QED
      BY <3>1, <3>2 DEF PartEnds
  <2>5. Between(begin)
    <3>1. program.underscores => Boundary(begin)
      BY <2>1 DEF Inv, Boundaries
    <3> QED
      BY <3>1, <1>n DEF Between, IsBetween, Boundary
  <2> HIDE DEF t, m
  <2>6. Starts(m, t, begin, end) # {} <=> Behind(m, PartEnds(m, t, begin), end)
    <3>1. begin \in begin .. end /\ PartEnds(m, t, begin) <= end /\ PartEnds(m, t, begin) \in Nat
      BY <2>4, <1>n
    <3>2. \A j \in Starts(m, t, begin, end) :
             PartEnds(m, t, j) \in Nat /\ PartEnds(m, t, begin) <= PartEnds(m, t, j)
      <4>1. \A j \in Starts(m, t, begin, end) : j \in begin .. end
        BY DEF Starts
      <4> QED
        BY <2>4, <4>1, <1>n
    <3> QED
      BY <2>5, <3>1, <3>2, <1>n, FirstStartDoes
  <2>7. Asked <=> Behind(index + 1, begin, end)
    BY <2>3, <2>4, <2>6 DEF m
  <2> QED
    BY <2>1, <2>7, AdvanceReads
<1>6. ASSUME HasNeedle
      PROVE  /\ pc \in PartStates /\ Middle.skip \in 0 .. Len(Middle.part)
             /\ Asked <=> Starts(index + 1, Middle.skip, begin, end) # {}
             /\ Needed = (Len(Middle.part) + Left(index + 1)) - Middle.skip
  <2>1. pc = "again" \/ (pc = "skip" /\ iter = 0)
    BY <1>6 DEF HasNeedle
  <2>2. pc \in PartStates
    BY <2>1 DEF PartStates
  <2>3. /\ Middle.skip \in Nat /\ Middle.skip <= Len(Middle.part) /\ Len(Middle.part) \in Nat
        /\ sums = Len(Middle.part) + Left(index + 1)
    BY <2>2, MiddleFacts
  <2>4. Middle.skip - 0 = Middle.skip
    BY <2>3
  <2>5. Asked <=> Starts(index + 1, Middle.skip, begin, end) # {}
    BY <2>1, <2>4 DEF Reads, Meaning
  <2> QED
    BY <2>2, <2>3, <2>5 DEF Needed
<1>7. CASE NoRoomForNeedle
  <2>1. HasNeedle /\ end - begin < Needed /\ Return(FALSE)
    BY <1>7 DEF NoRoomForNeedle, NoRoomFor
  <2>2. Starts(index + 1, Middle.skip, begin, end) = {}
    BY <2>1, <1>6, <1>n, NoStarts
  <2> QED
    BY <2>1, <2>2, <1>6, ReturnsRight
<1>8. CASE CallSearch
  <2>1. /\ HasNeedle /\ pc' = "search" /\ limit' = end - begin - Needed + 1
        /\ UNCHANGED constant /\ UNCHANGED <<begin, end, sums, index, iter, result>>
    BY <1>8 DEF CallSearch, loop
  <2>2. Middle' = Middle /\ Needed' = Needed
    BY <2>1, <1>c DEF Needed
  <2>3. Meaning'
    BY <2>1, <2>2, <1>c, <1>6 DEF Meaning, SearchStates
  <2> QED
    BY <2>1, <2>3, <1>n DEF Reads, EndsRead, RestRead
<1> QED
  BY <1>1, <1>2, <1>3, <1>4, <1>5, <1>7, <1>8
\* The next place on a path.
LEMMA PathStep ==
    ASSUME NEW w, Len(w) \in Nat, NEW t \in 0 .. Len(w), NEW i, NEW k \in t .. Len(w) - 1
    PROVE  Path(w, t, i)[k + 1] = StepTo(program, text, w[k + 1], Path(w, t, i)[k])
<1> DEFINE l == k + 1
           way == Way(program, text, w, t, i)
<1>1. l \in t + 1 .. Len(w) /\ l - 1 = k
  OBVIOUS
<1>2. \A j \in t + 1 .. Len(w) : way[j] = StepTo(program, text, w[j], way[j - 1])
  BY WaySteps
<1> HIDE DEF l, way
<1>3. way[l] = StepTo(program, text, w[l], way[k])
  BY <1>1, <1>2
<1> QED
  BY <1>3 DEF Path, l, way

\* A path that does not leave the text goes on by at least one byte a step.
LEMMA PathGrows ==
    ASSUME text \in Seq(Byte), NEW w, Len(w) \in Nat, NEW t \in 0 .. Len(w), NEW i \in Nat,
           NEW j \in t .. Len(w), NEW k \in j .. Len(w)
    PROVE  /\ Path(w, t, i)[j] \in Nat /\ Path(w, t, i)[k] \in Nat
           /\ Path(w, t, i)[k] <= Len(text) => Path(w, t, i)[j] + (k - j) <= Path(w, t, i)[k]
<1> DEFINE way == Way(program, text, w, t, i)
<1>1. \A l \in j .. Len(w) : way[l] \in Nat /\ (way[l] <= Len(text) => way[j] + (l - j) <= way[l])
  BY WayGrows
<1>2. j \in j .. Len(w)
  OBVIOUS
<1> HIDE DEF way
<1>3. way[j] \in Nat /\ way[k] \in Nat /\ (way[k] <= Len(text) => way[j] + (k - j) <= way[k])
  BY <1>1, <1>2
<1> QED
  BY <1>3 DEF Path, way

\* What RestRead says of the next state.
LEMMA RestReadNext ==
    ASSUME UNCHANGED constant, Middle' = Middle, Length' = Length, end' = end,
           Between(begin'), iter' \in Middle.skip + Length .. Len(Middle.part),
           Path(Middle.part, Middle.skip, begin')[iter'] = reader',
           \A a \in begin' .. end :
              Between(a) /\ Path(Middle.part, Middle.skip, a)[iter'] <= end =>
                  Path(Middle.part, Middle.skip, a)[iter'] <= (a + Length) + steps'
    PROVE  RestRead'
<1>1. /\ Between(begin)' <=> Between(begin')
      /\ \A a : Between(a)' <=> Between(a)
  BY DEF Between, constant
<1>2. \A a : /\ (Path(Middle.part, Middle.skip, a)[iter])' = Path(Middle.part, Middle.skip, a)[iter']
             /\ (Path(Middle.part, Middle.skip, begin)[iter])' = Path(Middle.part, Middle.skip, begin')[iter']
  BY DEF Path, constant
<1> QED
  BY <1>1, <1>2 DEF RestRead

\* What follows a call of the search.
LEMMA FoundReads ==
    ASSUME Inv, Reads, NeedleMissing \/ PartFound \/ NoRoomBehindNeedle \/ NeedleFound
    PROVE  Reads'
<1>s. pc \in SearchStates /\ pc \in PartStates /\ pc \in SearchStates \cup {"rest"}
  BY DEF NeedleMissing, PartFound, NoRoomBehindNeedle, NeedleFound, SearchStates, PartStates
<1> DEFINE m == index + 1
           skip == Middle.skip
           part == Len(Middle.part)
           after == Left(m)
           path(a) == Path(Middle.part, Middle.skip, a)
<1>n. /\ begin \in Nat /\ end \in Nat /\ begin <= end /\ end <= Len(text) /\ Len(text) \in Nat
      /\ part \in Nat /\ skip \in Nat /\ skip <= part /\ skip \in 0 .. part /\ after \in Nat
      /\ sums = part + after /\ Programs /\ m \in 1 .. Len(program.middle)
      /\ Middle.part = MiddlePart(m) /\ PartFits(Middle, program.underscores)
      /\ skip \in 0 .. Len(MiddlePart(m))
  BY <1>s, MiddleFacts
<1>l. Length \in Nat /\ Length > 0 /\ skip + Length <= part /\ Length = Len(Middle.buffer)
  BY <1>s, NeedleInPart
<1>o. /\ Asked <=> Starts(m, skip, begin, end) # {}
      /\ limit = end - begin - Needed + 1
      /\ result \in BOOLEAN
  BY <1>s DEF Reads, Meaning, EndsRead
<1>a. ASSUME NEW i \in Nat, NEW a \in Starts(m, skip, i, end)
      PROVE  /\ a \in Nat /\ i <= a /\ Between(a) /\ OccursAt(a)
             /\ (a + (part - skip)) + after <= end
             /\ PartEnds(m, skip, a) = path(a)[part] /\ path(a)[part] <= end
  <2>1. /\ a \in i .. end /\ a \in Nat /\ Between(a) /\ OccursAt(a)
        /\ \A k \in skip .. part : path(a)[k] <= end
        /\ PartEnds(m, skip, a) = path(a)[part]
    BY <1>s, <1>a, StartsOccur
  <2>2. (a + (Len(MiddlePart(m)) - skip)) + Left(m) <= end
    <3> HIDE DEF m, skip
    <3> QED
      BY <1>n, <1>a, StartsNeedRoom
  <2>3. part \in skip .. part
    BY <1>n
  <2> HIDE DEF skip, part
  <2>4. path(a)[part] <= end
    BY <2>1, <2>3
  <2> QED
    BY <1>n, <2>1, <2>2, <2>4 DEF part
<1>p. ASSUME NEW a \in Nat
      PROVE  /\ path(a)[skip + Length] <= end => OccursAt(a) /\ path(a)[skip + Length] = a + Length
             /\ OccursAt(a) => path(a)[skip + Length] = a + Length
  BY <1>s, NeedleOnPath
<1>1. CASE NeedleMissing
  <2>1. pc = "missing" /\ Return(FALSE)
    BY <1>1 DEF NeedleMissing
  <2>2. \A i \in begin .. begin + limit - 1 : ~OccursAt(i)
    BY <2>1, <1>s DEF Inv, InSearch, IInv, FirstOccurrence
  <2>3. ASSUME NEW a \in Starts(m, skip, begin, end) PROVE FALSE
    <3>1. a \in Nat /\ begin <= a /\ OccursAt(a) /\ (a + (part - skip)) + after <= end
      BY <2>3, <1>a, <1>n
    <3>2. limit = end - begin - ((part + after) - skip) + 1
      BY <1>o, <1>n DEF Needed
    <3> HIDE DEF part, skip, after
    <3>3. a \in begin .. begin + limit - 1
      BY <3>1, <3>2, <1>n
    <3> QED
      BY <2>2, <3>1, <3>3
  <2> QED
    BY <2>1, <2>3, <1>o, ReturnsRight
<1>2. CASE PartFound
  <2>1. pc = "found" /\ Middle.buffer = Middle.part /\ Advance(at + Length)
    BY <1>2 DEF PartFound
  <2>2. skip = 0 /\ part = Length /\ skip + Length = part
    BY <2>1, <1>n, <1>l
  <2>3. /\ at \in begin .. end /\ at \in Nat /\ at + Length <= end /\ Between(at) /\ OccursAt(at)
        /\ Asked <=> Starts(m, skip, at, end) # {}
    BY <2>1, FoundFirst
  <2>4. PartEnds(m, skip, at) = path(at)[part]
    BY <1>n DEF PartEnds, EndFrom, Path
  <2>5. path(at)[part] = at + Length
    <3> HIDE DEF skip, part, path
    <3> QED
      BY <1>p, <2>2, <2>3
  <2>6. ASSUME NEW j \in Starts(m, skip, at, end)
        PROVE  PartEnds(m, skip, j) \in Nat /\ PartEnds(m, skip, at) <= PartEnds(m, skip, j)
    <3>1. j \in Nat /\ at <= j /\ OccursAt(j) /\ PartEnds(m, skip, j) = path(j)[part]
      BY <1>a, <2>3, <2>6
    <3>2. path(j)[part] = j + Length
      <4> HIDE DEF skip, part, path
      <4> QED
        BY <1>p, <2>2, <3>1
    <3> HIDE DEF skip, part, path, m
    <3> QED
      BY <1>l, <2>3, <2>4, <2>5, <3>1, <3>2
  <2>7. Starts(m, skip, at, end) # {} <=> Behind(m, at + Length, end)
    <3>1. PartEnds(m, skip, at) = at + Length
      BY <2>4, <2>5
    <3> HIDE DEF skip, part, path, m
    <3>2. at \in at .. end /\ PartEnds(m, skip, at) <= end /\ PartEnds(m, skip, at) \in Nat
      BY <1>n, <1>l, <2>3, <3>1
    <3>3. Starts(m, skip, at, end) # {} <=> Behind(m, PartEnds(m, skip, at), end)
      BY <1>n, <2>3, <2>6, <3>2, FirstStartDoes
    <3> QED
      BY <3>1, <3>3
  <2> QED
    BY <2>1, <2>3, <2>7, AdvanceReads
<1>3. CASE NoRoomBehindNeedle
  <2>1. pc = "found" /\ end - at < sums - skip /\ Return(FALSE)
    BY <1>3 DEF NoRoomBehindNeedle, Needed
  <2>2. at \in Nat /\ (Asked <=> Starts(m, skip, at, end) # {})
    BY <2>1, FoundFirst
  <2>3. end - at < (part + after) - skip
    BY <2>1, <1>n
  <2>4. Starts(m, skip, at, end) = {}
    BY <1>s, <1>n, <2>2, <2>3, NoStarts
  <2> QED
    BY <2>1, <2>2, <2>4, ReturnsRight
<1>4. CASE NeedleFound
  <2>1. /\ pc = "found" /\ pc' = "rest" /\ begin' = at /\ iter' = Middle.skip + Length
        /\ reader' = at + Length /\ steps' = 0
        /\ UNCHANGED constant /\ UNCHANGED <<end, index, result, needle>>
    BY <1>4 DEF NeedleFound, call
  <2>2. /\ at \in begin .. end /\ at \in Nat /\ at + Length <= end /\ Between(at) /\ OccursAt(at)
        /\ Asked <=> Starts(m, skip, at, end) # {}
    BY <2>1, FoundFirst
  <2>3. Middle' = Middle /\ Length' = Length
    BY <2>1 DEF Middle, Length, constant
  <2>4. RestRead'
    <3>1. path(at)[skip + Length] = at + Length
      <4> HIDE DEF skip, path
      <4> QED
        BY <1>p, <2>2
    <3>2. ASSUME NEW a \in at .. end, path(a)[skip + Length] <= end
          PROVE  path(a)[skip + Length] <= (a + Length) + 0
      <4>1. a \in Nat
        BY <2>2, <1>n
      <4> HIDE DEF skip, path
      <4>2. path(a)[skip + Length] = a + Length
        BY <1>p, <3>2, <4>1
      <4> QED
        BY <1>l, <4>1, <4>2
    <3>3. iter' \in Middle.skip + Length .. Len(Middle.part)
      BY <2>1, <1>n, <1>l
    <3> QED
      BY <2>1, <2>2, <2>3, <3>1, <3>2, <3>3, RestReadNext
  <2>5. Meaning'
    <3>1. Asked' = Asked
          /\ Starts(index + 1, Middle.skip, begin, end)' = Starts(index' + 1, Middle'.skip, begin', end')
      BY <2>1, AskedIsConstant, AskedNext
    <3>2. Starts(index + 1, Middle.skip, begin, end)' = Starts(m, skip, at, end)
      BY <2>1, <2>3, <3>1, AskedIsConstant DEF constant
    <3> QED
      BY <2>1, <2>2, <3>1, <3>2 DEF Meaning, SearchStates
  <2> QED
    BY <2>1, <2>4, <2>5, <1>o DEF Reads, EndsRead
<1> QED
  BY <1>1, <1>2, <1>3, <1>4
\* What is known while the rest of a part is read: the part lies at begin, as
\* far as it has been read.
LEMMA RestFacts ==
    ASSUME Inv, Reads, pc = "rest"
    PROVE  /\ program.underscores /\ text \in Seq(Byte) /\ WellEncoded(text)
           /\ begin \in Nat /\ end \in Nat /\ begin <= end /\ end <= Len(text) /\ Len(text) \in Nat
           /\ reader \in Nat /\ reader <= end /\ steps \in Nat /\ Length \in Nat
           /\ Len(Middle.part) \in Nat /\ Middle.part \in Seq(Byte)
           /\ Middle.skip \in 0 .. Len(Middle.part)
           /\ Middle.skip + Length \in Middle.skip .. Len(Middle.part)
           /\ iter \in Middle.skip + Length .. Len(Middle.part)
           /\ index + 1 \in 1 .. Len(program.middle) /\ Middle.part = MiddlePart(index + 1)
           /\ Between(begin) /\ Boundary(end) /\ Boundary(reader)
           /\ Path(Middle.part, Middle.skip, begin)[iter] = reader
           /\ Asked <=> Starts(index + 1, Middle.skip, begin, end) # {}
           /\ result \in BOOLEAN
<1>1. pc \in PartStates /\ pc \in SearchStates \cup {"rest"}
  BY DEF PartStates
<1>2. /\ program.underscores /\ reader \in begin .. end /\ Boundary(reader) /\ Boundary(end)
  BY <1>1 DEF Inv, Loops, Boundaries
<1>3. /\ text \in Seq(Byte) /\ WellEncoded(text)
      /\ begin \in Nat /\ end \in Nat /\ begin <= end /\ end <= Len(text) /\ Len(text) \in Nat
      /\ steps \in Nat /\ reader \in Nat
      /\ Len(Middle.part) \in Nat /\ Middle.part \in Seq(Byte)
      /\ Middle.skip \in Nat /\ Middle.skip <= Len(Middle.part)
      /\ index + 1 \in 1 .. Len(program.middle) /\ Middle.part = MiddlePart(index + 1)
  BY <1>1, <1>2, MiddleFacts
<1>4. Length \in Nat /\ Middle.skip + Length <= Len(Middle.part)
  BY <1>1, NeedleInPart
<1>5. /\ Between(begin) /\ iter \in Middle.skip + Length .. Len(Middle.part)
      /\ Path(Middle.part, Middle.skip, begin)[iter] = reader
  BY DEF Reads, RestRead
<1>6. Asked <=> Starts(index + 1, Middle.skip, begin, end) # {}
  BY DEF Reads, Meaning
<1>7. result \in BOOLEAN
  BY DEF Reads, EndsRead
<1>8. /\ Middle.skip \in 0 .. Len(Middle.part)
      /\ Middle.skip + Length \in Middle.skip .. Len(Middle.part)
      /\ reader <= end
  BY <1>2, <1>3, <1>4
<1> QED
  BY <1>2, <1>3, <1>4, <1>5, <1>6, <1>7, <1>8

\* Behind its needle, a part is ASCII.
LEMMA RestIsAscii ==
    ASSUME Inv, ReadsAscii(program), Reads, pc = "rest"
    PROVE  \A k \in Middle.skip + Length + 1 .. Len(Middle.part) :
              Middle.part[k] \in Byte /\ Middle.part[k] < 128
<1> DEFINE m == index + 1
<1>1. /\ program.underscores /\ m \in 1 .. Len(program.middle) /\ Middle.part \in Seq(Byte)
      /\ Middle.skip + Length \in Nat
  BY RestFacts
<1>2. Length = Len(Middle.buffer)
  BY NeedleInPart
<1>3. Middle = program.middle[m]
  BY DEF Middle
<1>4. \A k \in Middle.skip + Length + 1 .. Len(Middle.part) : Middle.part[k] < 128
  <2> HIDE DEF m
  <2> QED
    BY <1>1, <1>2, <1>3 DEF ReadsAscii
<1>5. \A k \in Middle.skip + Length + 1 .. Len(Middle.part) : Middle.part[k] \in Byte
  BY <1>1
<1> QED
  BY <1>4, <1>5

\* Where else a part may lie, it has not ended before the place at which it is
\* being read, at any of its bytes.
LEMMA RestInOrder ==
    ASSUME Inv, ReadsAscii(program), Reads, pc = "rest", NEW a \in Nat, begin <= a,
           NEW k \in Middle.skip + Length .. Len(Middle.part),
           Path(Middle.part, Middle.skip, begin)[k] <= end,
           Path(Middle.part, Middle.skip, a)[k] <= end
    PROVE  /\ Path(Middle.part, Middle.skip, a)[k] \in Nat
           /\ Path(Middle.part, Middle.skip, begin)[k] <= Path(Middle.part, Middle.skip, a)[k]
<1> DEFINE w == Middle.part
           t == Middle.skip
           u == Middle.skip + Length
<1>f. /\ program.underscores /\ text \in Seq(Byte) /\ WellEncoded(text)
      /\ begin \in Nat /\ end \in Nat /\ end <= Len(text) /\ Len(text) \in Nat
      /\ Length \in Nat /\ Len(w) \in Nat /\ t \in 0 .. Len(w) /\ u \in t .. Len(w)
  BY RestFacts
<1>w. pc \in SearchStates \cup {"rest"}
  OBVIOUS
<1>d. /\ needle \in Seq(Byte) /\ needle # << >> /\ WholeCodePoints(needle)
  BY <1>f, <1>w, NeedleInPart
<1>1. ASSUME NEW i \in Nat, Path(w, t, i)[k] <= end
      PROVE  /\ Path(w, t, i)[k] \in Nat
             /\ Path(w, t, i)[u] = i + Length /\ Boundary(i + Length)
             /\ Path(w, u, i + Length)[k] = Path(w, t, i)[k]
  <2>1. k \in u .. Len(w) /\ u \in Nat /\ k \in Nat
    BY <1>f
  <2>2. /\ Path(w, t, i)[u] \in Nat /\ Path(w, t, i)[k] \in Nat
        /\ Path(w, t, i)[k] <= Len(text) => Path(w, t, i)[u] + (k - u) <= Path(w, t, i)[k]
    <3> HIDE DEF w, t, u
    <3> QED
      BY <1>f, <2>1, PathGrows
  <2>3. Path(w, t, i)[u] <= end
    <3>1. k >= u
      BY <2>1
    <3> HIDE DEF w, t, u
    <3> QED
      BY <1>f, <1>1, <2>1, <2>2, <3>1
  <2>4. OccursAt(i) /\ Path(w, t, i)[u] = i + Length
    BY <1>w, <2>3, NeedleOnPath
  <2>5. Boundary(i + Length)
    <3>1. i + Length <= Len(text) /\ \A pos \in 0 .. Length - 1 : MatchesAt(i, pos)
      BY <1>f, <2>4 DEF OccursAt
    <3> QED
      BY <1>d, <1>f, <3>1, NeedleIsWhole
  <2>6. Path(w, u, Path(w, t, i)[u])[k] = Path(w, t, i)[k]
    <3> HIDE DEF w, t, u
    <3> QED
      BY <1>f, <2>1, PathGoesOn
  <2> QED
    BY <2>2, <2>4, <2>5, <2>6
<1>2. \A l \in u + 1 .. k : w[l] \in Byte /\ w[l] < 128
  <2>1. \A l \in u + 1 .. Len(w) : w[l] \in Byte /\ w[l] < 128
    BY RestIsAscii
  <2>2. \A l \in u + 1 .. k : l \in u + 1 .. Len(w)
    BY <1>f
  <2> QED
    BY <2>1, <2>2
<1>3. Path(w, u, begin + Length)[k] <= Path(w, u, a + Length)[k]
  <2> DEFINE i == begin + Length
             j == a + Length
  <2>1. i \in Nat /\ j \in Nat /\ i <= j /\ Boundary(i) /\ Boundary(j)
    BY <1>f, <1>1
  <2>2. Path(w, u, i)[k] <= Len(text) /\ Path(w, u, j)[k] <= Len(text)
    <3>1. Path(w, u, i)[k] = Path(w, t, begin)[k] /\ Path(w, u, j)[k] = Path(w, t, a)[k]
          /\ Path(w, t, begin)[k] \in Nat /\ Path(w, t, a)[k] \in Nat
      BY <1>1, <1>f
    <3>2. Path(w, t, begin)[k] <= end /\ Path(w, t, a)[k] <= end
      OBVIOUS
    <3> HIDE DEF w, t, u, i, j
    <3> QED
      BY <3>1, <3>2, <1>f
  <2>3. u \in 0 .. Len(w) /\ k \in u .. Len(w)
    BY <1>f
  <2> HIDE DEF w, t, u, i, j
  <2>4. Path(w, u, i)[k] <= Path(w, u, j)[k]
    BY <1>f, <1>2, <2>1, <2>2, <2>3, WaysInOrder
  <2> QED
    BY <2>4 DEF i, j
<1> QED
  <2>1. /\ Path(w, u, begin + Length)[k] = Path(w, t, begin)[k]
        /\ Path(w, u, a + Length)[k] = Path(w, t, a)[k] /\ Path(w, t, a)[k] \in Nat
    BY <1>1, <1>f
  <2> QED
    BY <1>3, <2>1

\* The next byte of the part.
LEMMA NextInPart ==
    ASSUME Inv, ReadsAscii(program), Reads, InRest
    PROVE  /\ pc = "rest" /\ iter \in Nat /\ iter + 1 \in Middle.skip + Length + 1 .. Len(Middle.part)
           /\ Char \in Byte /\ AsChar(Char) = Char
           /\ \A a \in Nat : LET x == Path(Middle.part, Middle.skip, a)[iter]
                                 y == Path(Middle.part, Middle.skip, a)[iter + 1]
                             IN  /\ x \in Nat /\ y \in Nat
                                 /\ y = StepTo(program, text, Char, x)
                                 /\ y <= end => /\ x < end /\ x + 1 <= y
                                                /\ Char # Underscore => text[x + 1] = Char /\ y = x + 1
                                                /\ Char = Underscore => y <= x + 4
<1> DEFINE w == Middle.part
           t == Middle.skip
           u == Middle.skip + Length
<1>f. /\ program.underscores /\ text \in Seq(Byte)
      /\ end \in Nat /\ end <= Len(text) /\ Len(text) \in Nat
      /\ Length \in Nat /\ Len(w) \in Nat /\ t \in 0 .. Len(w) /\ iter \in u .. Len(w)
  BY RestFacts DEF InRest
<1>1. /\ pc = "rest" /\ iter < Len(w)
  BY DEF InRest
<1>2. iter \in Nat /\ iter + 1 \in u + 1 .. Len(w) /\ iter \in t .. Len(w) - 1 /\ iter \in t .. Len(w)
      /\ iter + 1 \in iter .. Len(w)
  BY <1>1, <1>f
<1>3. Char \in Byte /\ Char < 128
  BY <1>1, <1>2, RestIsAscii DEF Char
<1>4. AsChar(Char) = Char
  BY <1>3 DEF AsChar
<1>5. ASSUME NEW a \in Nat
      PROVE  LET x == Path(w, t, a)[iter]
                 y == Path(w, t, a)[iter + 1]
             IN  /\ x \in Nat /\ y \in Nat
                 /\ y = StepTo(program, text, Char, x)
                 /\ y <= end => /\ x < end /\ x + 1 <= y
                                /\ Char # Underscore => text[x + 1] = Char /\ y = x + 1
                                /\ Char = Underscore => y <= x + 4
  <2> DEFINE x == Path(w, t, a)[iter]
             y == Path(w, t, a)[iter + 1]
  <2>1. x \in Nat /\ y \in Nat
    <3> HIDE DEF w, t, u
    <3> QED
      BY <1>f, <1>2, PathGrows
  <2>2. y = StepTo(program, text, w[iter + 1], x)
    <3> HIDE DEF w, t, u
    <3> QED
      BY <1>f, <1>2, PathStep
  <2>3. w[iter + 1] = Char
    BY DEF Char
  <2> HIDE DEF x, y
  <2>4. y = StepTo(program, text, Char, x)
    BY <2>2, <2>3
  <2>5. ASSUME y <= end
        PROVE  /\ x < end /\ x + 1 <= y
               /\ Char # Underscore => text[x + 1] = Char /\ y = x + 1
               /\ Char = Underscore => y <= x + 4
    <3>1. y <= Len(text)
      BY <1>f, <2>1, <2>5
    <3>2. x < Len(text) /\ x + 1 <= y
      BY <1>f, <2>1, <2>4, <3>1, StepEnds
    <3>3. text[x + 1] \in Byte
      BY <1>f, <2>1, <3>2
    <3>4. MultiByteSequenceLength(text[x + 1]) \in 1 .. 4
      BY <3>3, CodePointLengths
    <3>5. CASE Char = Underscore
      <4>1. y = x + MultiByteSequenceLength(text[x + 1])
        BY <1>f, <2>1, <2>4, <3>2, <3>5 DEF StepTo
      <4> QED
        BY <1>f, <2>1, <2>5, <3>2, <3>4, <3>5, <4>1
    <3>6. CASE Char # Underscore
      <4>1. text[x + 1] = Char /\ y = x + 1
        BY <1>f, <2>1, <2>4, <3>1, <3>2, <3>6 DEF StepTo
      <4> QED
        BY <1>f, <2>1, <2>5, <3>2, <3>6, <4>1
    <3> QED
      BY <3>5, <3>6
  <2> QED
    BY <2>1, <2>4, <2>5 DEF x, y
<1> QED
  BY <1>1, <1>2, <1>3, <1>4, <1>5
\* Behind a needle.
LEMMA RestReads ==
    ASSUME Inv, ReadsAscii(program), Reads, RestMatches \/ TextEnds \/ RestDiffers \/ RestMatched
    PROVE  Reads'
<1>r. pc = "rest"
  BY DEF RestMatches, TextEnds, RestDiffers, RestMatched, InRest
<1>w. pc \in SearchStates \cup {"rest"}
  BY <1>r
<1> DEFINE m == index + 1
           t == Middle.skip
           n == Len(Middle.part)
           path(a) == Path(Middle.part, Middle.skip, a)
<1>f. /\ program.underscores /\ text \in Seq(Byte)
      /\ begin \in Nat /\ end \in Nat /\ begin <= end /\ end <= Len(text) /\ Len(text) \in Nat
      /\ reader \in Nat /\ reader <= end /\ steps \in Nat /\ Length \in Nat
      /\ iter \in t + Length .. n /\ n \in Nat /\ t \in 0 .. n /\ t + Length \in t .. n
      /\ m \in 1 .. Len(program.middle) /\ Middle.part = MiddlePart(m)
      /\ Between(begin) /\ path(begin)[iter] = reader
      /\ Asked <=> Starts(m, t, begin, end) # {}
      /\ result \in BOOLEAN
  BY <1>r, RestFacts
<1>b. \A a \in begin .. end : Between(a) /\ path(a)[iter] <= end => path(a)[iter] <= (a + Length) + steps
  BY <1>r DEF Reads, RestRead
<1>s. ASSUME NEW a \in Starts(m, t, begin, end), NEW k \in t .. n
      PROVE  /\ a \in Nat /\ begin <= a /\ a \in begin .. end /\ Between(a)
             /\ path(a)[k] \in Nat /\ path(a)[k] <= end
             /\ PartEnds(m, t, a) = path(a)[n]
  BY <1>w, <1>f, <1>s, StartsOccur
<1>o. ASSUME NEW a \in Starts(m, t, begin, end)
      PROVE  path(a)[iter] \in Nat /\ reader <= path(a)[iter]
  <2>1. iter \in t .. n
    BY <1>f
  <2>2. a \in Nat /\ begin <= a /\ path(a)[iter] <= end
    BY <1>s, <1>o, <2>1
  <2> QED
    BY <1>r, <1>f, <2>2, RestInOrder
<1>1. CASE RestMatches
  <2>1. /\ InRest /\ reader # end
        /\ Char = Underscore \/ AsChar(Char) = text[reader + 1]
        /\ reader' = reader + IF Char = Underscore THEN MultiByteSequenceLength(text[reader + 1]) ELSE 1
        /\ steps' = steps + IF Char = Underscore THEN 6 ELSE 1
        /\ iter' = iter + 1 /\ pc' = "rest"
        /\ UNCHANGED constant /\ UNCHANGED <<begin, end, index, needle, result>>
    BY <1>1 DEF RestMatches, call, MaxCodePoint, InRest
  <2>2. Middle' = Middle /\ Length' = Length
    BY <2>1 DEF Middle, Length, constant
  <2>3. /\ iter + 1 \in t + Length + 1 .. n /\ AsChar(Char) = Char /\ iter \in Nat
        /\ \A a \in Nat : /\ path(a)[iter] \in Nat /\ path(a)[iter + 1] \in Nat
                          /\ path(a)[iter + 1] = StepTo(program, text, Char, path(a)[iter])
                          /\ path(a)[iter + 1] <= end =>
                                /\ path(a)[iter] < end /\ path(a)[iter] + 1 <= path(a)[iter + 1]
                                /\ Char # Underscore => path(a)[iter + 1] = path(a)[iter] + 1
                                /\ Char = Underscore => path(a)[iter + 1] <= path(a)[iter] + 4
    BY <2>1, NextInPart
  <2>4. path(begin)[iter'] = reader'
    <3>1. path(begin)[iter + 1] = StepTo(program, text, Char, reader)
      BY <1>f, <2>3
    <3>2. reader < Len(text)
      BY <1>f, <2>1
    <3>3. StepTo(program, text, Char, reader) = reader'
      BY <1>f, <2>1, <2>3, <3>2 DEF StepTo
    <3> QED
      BY <2>1, <3>1, <3>3
  <2>5. ASSUME NEW a \in begin .. end, Between(a), path(a)[iter'] <= end
        PROVE  path(a)[iter'] <= (a + Length) + steps'
    <3> DEFINE x == path(a)[iter]
               y == path(a)[iter + 1]
    <3>1. a \in Nat
      BY <1>f
    <3>2. y <= end
      BY <2>1, <2>5
    <3>3. /\ x \in Nat /\ y \in Nat /\ x < end
          /\ Char # Underscore => y = x + 1
          /\ Char = Underscore => y <= x + 4
      BY <2>3, <3>1, <3>2
    <3>4. x <= end
      <4> HIDE DEF x, y
      <4> QED
        BY <1>f, <3>3
    <3>5. x <= (a + Length) + steps
      BY <1>b, <2>5, <3>4
    <3>6. y <= (a + Length) + steps'
      <4> HIDE DEF x, y
      <4>1. CASE Char = Underscore
        BY <1>f, <2>1, <3>1, <3>3, <3>5, <4>1
      <4>2. CASE Char # Underscore
        BY <1>f, <2>1, <3>1, <3>3, <3>5, <4>2
      <4> QED
        BY <4>1, <4>2
    <3> QED
      BY <2>1, <3>6
  <2>6. RestRead'
    <3>1. iter' \in Middle.skip + Length .. Len(Middle.part)
      BY <1>f, <2>1, <2>3
    <3> QED
      BY <1>f, <2>1, <2>2, <2>4, <2>5, <3>1, RestReadNext
  <2>7. Meaning'
    <3>1. /\ Asked' = Asked
          /\ Starts(index + 1, Middle.skip, begin, end)' = Starts(index' + 1, Middle'.skip, begin', end')
          /\ Starts(index + 1, Middle.skip, begin, end)' = Starts(m, t, begin, end)
      BY <2>1, <2>2, AskedIsConstant, AskedNext
    <3> QED
      BY <1>f, <2>1, <2>2, <3>1 DEF Meaning, SearchStates
  <2> QED
    BY <1>f, <2>1, <2>6, <2>7 DEF Reads, EndsRead
<1>2. CASE TextEnds
  <2>1. InRest /\ reader = end /\ Return(FALSE)
    BY <1>2 DEF TextEnds
  <2>2. ASSUME NEW a \in Starts(m, t, begin, end) PROVE FALSE
    <3>1. iter + 1 \in t .. n
      BY <1>f, <2>1 DEF InRest
    <3>2. a \in Nat /\ path(a)[iter + 1] <= end
      BY <1>s, <2>2, <3>1
    <3>3. path(a)[iter] \in Nat /\ path(a)[iter] < end
      BY <2>1, <3>2, NextInPart
    <3>4. reader <= path(a)[iter]
      BY <1>o, <2>2
    <3> HIDE DEF path, t, m
    <3> QED
      BY <1>f, <2>1, <3>3, <3>4
  <2> QED
    BY <1>f, <2>1, <2>2, ReturnsRight
<1>3. CASE RestDiffers
  <2>1. /\ InRest /\ reader # end /\ Char # Underscore /\ AsChar(Char) # text[reader + 1]
        /\ IF Places = {} THEN Return(FALSE)
           ELSE /\ pc' = "again" /\ begin' = BeginAgain
                /\ UNCHANGED constant /\ UNCHANGED <<end, index, result>>
    BY <1>3 DEF RestDiffers
  <2>2. AsChar(Char) = Char
    BY <2>1, NextInPart
  <2>3. ASSUME NEW a \in Starts(m, t, begin, end)
        PROVE  path(a)[iter] \in Places /\ path(a)[iter] <= (a + Length) + steps /\ a # begin
    <3>1. iter + 1 \in t .. n /\ iter \in t .. n
      BY <1>f, <2>1 DEF InRest
    <3>2. a \in Nat /\ path(a)[iter + 1] <= end
      BY <1>s, <2>3, <3>1
    <3>3. /\ path(a)[iter] \in Nat /\ path(a)[iter] < end /\ text[path(a)[iter] + 1] = Char
      BY <2>1, <3>2, NextInPart
    <3>4. reader <= path(a)[iter]
      BY <1>o, <2>3
    <3>5. path(a)[iter] \in Places
      <4> DEFINE x == path(a)[iter]
      <4> HIDE DEF x
      <4>1. x \in reader .. end - 1
        BY <1>f, <3>3, <3>4 DEF x
      <4>2. text[x + 1] = Char
        BY <3>3 DEF x
      <4>3. x \in Places
        BY <4>1, <4>2 DEF Places
      <4> QED
        BY <4>3 DEF x
    <3>6. a \in begin .. end /\ Between(a) /\ path(a)[iter] <= end
      BY <1>s, <2>3, <3>1
    <3>7. path(a)[iter] <= (a + Length) + steps
      BY <1>b, <3>6
    <3>8. ASSUME a = begin PROVE FALSE
      BY <1>f, <2>1, <2>2, <3>3, <3>8
    <3> QED
      BY <3>5, <3>7, <3>8
  <2>4. CASE Places = {}
    BY <1>f, <2>1, <2>3, <2>4, ReturnsRight
  <2>5. CASE Places # {}
    <3>1. pc' = "again" /\ begin' = BeginAgain /\ UNCHANGED constant /\ UNCHANGED <<end, index, result>>
      BY <2>1, <2>5
    <3>2. Places \in SUBSET Nat
      BY <1>f DEF Places
    <3>3. Least(Places) \in Nat /\ \A x \in Places : x \in Nat /\ Least(Places) <= x
      BY <2>5, <3>2, LeastIsIn DEF IsLeast
    <3>4. BeginAgain \in Nat /\ begin <= BeginAgain
      <4> DEFINE least == Least(Places)
      <4> HIDE DEF least
      <4>1. (least - steps - Length) \in Int
        BY <1>f, <3>3 DEF least
      <4> QED
        BY <1>f, <4>1 DEF BeginAgain, Larger, least
    <3>5. ASSUME NEW a \in Starts(m, t, begin, end) PROVE a \in Nat /\ BeginAgain <= a
      <4> DEFINE least == Least(Places)
                 x == path(a)[iter]
      <4>1. x \in Places /\ x <= (a + Length) + steps /\ a # begin
        BY <2>3, <3>5
      <4>2. x \in Nat /\ least <= x /\ least \in Nat
        BY <3>3, <4>1
      <4>3. a \in Nat /\ begin <= a
        <5>1. n \in t .. n
          BY <1>f
        <5> QED
          BY <1>s, <3>5, <5>1
      <4> HIDE DEF least, x, m, t
      <4>4. least - steps - Length <= a /\ begin + 1 <= a
        BY <1>f, <4>1, <4>2, <4>3
      <4> QED
        BY <4>3, <4>4 DEF BeginAgain, Larger, least
    <3>6. \A a \in begin .. BeginAgain - 1 : a \notin Starts(m, t, begin, end)
      <4> HIDE DEF m, t
      <4> QED
        BY <1>f, <3>4, <3>5
    <3>7. Starts(m, t, begin, end) # {} <=> Starts(m, t, BeginAgain, end) # {}
      <4> HIDE DEF m, t
      <4> QED
        BY <1>f, <3>4, <3>6, StartsLater
    <3>8. Meaning'
      <4>1. /\ Asked' = Asked /\ Middle' = Middle
            /\ Starts(index + 1, Middle.skip, begin, end)' = Starts(index' + 1, Middle'.skip, begin', end')
        BY <3>1, AskedIsConstant, AskedNext DEF Middle, constant
      <4>2. Starts(index + 1, Middle.skip, begin, end)' = Starts(m, t, BeginAgain, end)
        BY <3>1, <4>1, AskedIsConstant DEF constant
      <4> QED
        BY <1>f, <3>1, <3>7, <4>1, <4>2 DEF Meaning, SearchStates
    <3> QED
      BY <1>f, <3>1, <3>8 DEF Reads, EndsRead, RestRead
  <2> QED
    BY <2>4, <2>5
<1>4. CASE RestMatched
  <2>1. iter = n /\ Advance(reader)
    BY <1>4 DEF RestMatched
  <2>2. PartEnds(m, t, begin) = reader
    <3>1. PartEnds(m, t, begin) = path(begin)[n]
      BY <1>f DEF PartEnds, EndFrom, Path
    <3> QED
      BY <1>f, <2>1, <3>1
  <2>3. ASSUME NEW j \in Starts(m, t, begin, end)
        PROVE  PartEnds(m, t, j) \in Nat /\ PartEnds(m, t, begin) <= PartEnds(m, t, j)
    <3>1. path(j)[n] \in Nat /\ reader <= path(j)[n]
      BY <1>o, <2>1, <2>3
    <3>2. PartEnds(m, t, j) = path(j)[n]
      <4>1. n \in t .. n
        BY <1>f
      <4> QED
        BY <1>s, <2>3, <4>1
    <3> QED
      BY <2>2, <3>1, <3>2
  <2>4. Starts(m, t, begin, end) # {} <=> Behind(m, reader, end)
    <3> HIDE DEF m, t
    <3>1. begin \in begin .. end /\ PartEnds(m, t, begin) <= end /\ PartEnds(m, t, begin) \in Nat
      BY <1>f, <2>2
    <3>2. Starts(m, t, begin, end) # {} <=> Behind(m, PartEnds(m, t, begin), end)
      BY <1>f, <2>3, <3>1, FirstStartDoes
    <3> QED
      BY <2>2, <3>2
  <2> QED
    BY <1>f, <2>1, <2>4, AdvanceReads
<1> QED
  BY <1>1, <1>2, <1>3, <1>4
-----------------------------------------------------------------------------
(* The invariant, and the theorems.                                        *)

\* The search changes nothing of what has been read.
LEMMA SearchingReads ==
    ASSUME Inv, Reads, Searching
    PROVE  Reads'
<1>1. /\ Search /\ UNCHANGED constant
      /\ UNCHANGED <<begin, end, sums, index, iter, reader, steps, needle, limit, result>>
  BY DEF Searching, loop
<1>2. pc \in SearchStates
  BY <1>1 DEF Search, StartBlocks, FindByte, FindPair, ShiftToMismatch, ShiftByPeriod, WindowMatches,
              WindowsEnd, BlockMatches, NextBlock, LastBlock, BlocksEnd, InWindows, BlockFits, SearchStates
<1>3. pc' \in SearchStates
  <2>1. Search /\ UNCHANGED arguments
    BY <1>1 DEF Searching, arguments, constant, loop
  <2>2. IInv'
    BY <1>2, <2>1, StepInv DEF Inv, InSearch
  <2> QED
    BY <2>2 DEF IInv, TypeOK, SearchStates
<1>4. Middle' = Middle /\ Needed' = Needed
  BY <1>1 DEF Middle, Needed, constant
<1>5. /\ Asked' = Asked
      /\ Starts(index + 1, Middle.skip, begin, end)' = Starts(index + 1, Middle.skip, begin, end)
  <2>1. \A m, t, i, e : Starts(m, t, i, e)' = Starts(m, t, i, e)
    BY <1>1, AskedIsConstant
  <2> QED
    BY <1>1, <1>4, <2>1, AskedIsConstant DEF constant
<1>6. /\ Asked <=> Starts(index + 1, Middle.skip, begin, end) # {}
      /\ limit = end - begin - Needed + 1
      /\ result \in BOOLEAN
  BY <1>2 DEF Reads, Meaning, EndsRead
<1>7. Meaning'
  BY <1>1, <1>3, <1>4, <1>5, <1>6 DEF Meaning, SearchStates
<1> QED
  BY <1>1, <1>3, <1>6, <1>7 DEF Reads, EndsRead, RestRead, SearchStates

\* A step that changes nothing.
LEMMA StutterReads ==
    ASSUME Reads, UNCHANGED vars
    PROVE  Reads'
<1>1. /\ UNCHANGED constant
      /\ UNCHANGED <<pc, begin, end, sums, index, iter, reader, steps, needle, limit, result>>
  BY DEF vars, constant
<1>2. /\ program' = program /\ text' = text /\ Middle' = Middle /\ Length' = Length
      /\ Needed' = Needed
  BY <1>1 DEF Middle, Length, Needed, constant
<1>3. /\ Asked' = Asked /\ PrefixEnds' = PrefixEnds
      /\ \A i : SuffixEnds(i)' = SuffixEnds(i) /\ Between(i)' = Between(i)
      /\ \A w, t, i : Path(w, t, i)' = Path(w, t, i)
      /\ \A k, i, e : Behind(k, i, e)' = Behind(k, i, e)
      /\ \A m, t, i, e : Starts(m, t, i, e)' = Starts(m, t, i, e)
  BY <1>1, AskedIsConstant
<1>4. EndsRead'
  <2>1. Path(program.prefix, 0, 0)' = Path(program.prefix, 0, 0)
        /\ \A e : Path(program.suffix, 0, e)' = Path(program.suffix, 0, e)
    BY <1>1 DEF Path, constant
  <2> QED
    BY <1>1, <1>2, <1>3, <2>1 DEF Reads, EndsRead
<1>5. RestRead'
  <2>1. CASE pc = "rest"
    BY <1>1, <1>2, <2>1, RestReadNext DEF Reads, RestRead
  <2>2. CASE pc # "rest"
    BY <1>1, <2>2 DEF RestRead
  <2> QED
    BY <2>1, <2>2
<1>6. Meaning'
  BY <1>1, <1>2, <1>3 DEF Reads, Meaning
<1> QED
  BY <1>4, <1>5, <1>6 DEF Reads

\* Nothing has been read.
LEMMA InitReads ==
    ASSUME Init
    PROVE  Reads
<1>1. pc = "begin" /\ begin = 0 /\ end = Len(text) /\ result = FALSE
  BY DEF Init
<1> QED
  BY <1>1 DEF Reads, EndsRead, RestRead, Meaning, SearchStates

\* The program is that of one of the patterns, and the text one of its texts.
Chosen == \E n \in 1 .. Len(Patterns) : program = BuildMatcher(Patterns[n]) /\ text \in Texts[n]

\* No step changes them.
LEMMA StepsKeepProgram ==
    ASSUME [Next]_vars
    PROVE  program' = program /\ text' = text
<1>1. CASE Ends
  BY <1>1 DEF Ends, TooShort, LongEnough, PrefixDiffers, PrefixEqual, WalkPrefix, PrefixWalked,
              SuffixDiffers, SuffixEqual, WalkSuffix, SuffixWalked, Return, constant
<1>2. CASE Middles
  BY <1>2 DEF Middles, AllFound, NoRoomForRest, NextMiddle, SkipUnderscore, OnlyUnderscores,
              NoRoomForNeedle, CallSearch, NeedleMissing, PartFound, NoRoomBehindNeedle, NeedleFound,
              RestMatches, TextEnds, RestDiffers, RestMatched, Advance, Return, constant
<1>3. CASE Searching
  BY <1>3 DEF Searching, constant
<1>4. CASE UNCHANGED vars
  BY <1>4 DEF vars
<1> QED
  BY <1>1, <1>2, <1>3, <1>4 DEF Next

Whole == Inv /\ Chosen /\ (ReadsAscii(program) => Reads)

\* Every step of the matcher keeps what has been read.
LEMMA StepReads ==
    ASSUME Whole, [Next]_vars
    PROVE  Whole'
<1>1. program' = program /\ text' = text
  BY StepsKeepProgram
<1>2. Inv' /\ Chosen'
  BY <1>1, StepInvariant DEF Whole, Chosen
<1>3. ASSUME ReadsAscii(program) PROVE Reads'
  <2>1. Inv /\ Reads
    BY <1>3 DEF Whole
  <2>2. CASE Ends
    BY <1>3, <2>1, <2>2, PrefixReads, SuffixReads DEF Ends
  <2>3. CASE Middles
    BY <1>3, <2>1, <2>3, CallReads, FoundReads, RestReads DEF Middles
  <2>4. CASE Searching
    BY <2>1, <2>4, SearchingReads
  <2>5. CASE UNCHANGED vars
    BY <2>1, <2>5, StutterReads
  <2> QED
    BY <2>2, <2>3, <2>4, <2>5 DEF Next
<1>4. ReadsAscii(program)' <=> ReadsAscii(program)
  BY <1>1 DEF ReadsAscii
<1> QED
  BY <1>2, <1>3, <1>4 DEF Whole

\* The invariant holds in every state of the matcher.
THEOREM AnswerInvariant == Spec => []Whole
<1>1. Init => Whole
  BY InitInvariant, InitReads DEF Whole, Chosen, Init
<1>2. Whole /\ [Next]_vars => Whole'
  BY StepReads
<1> QED
  BY <1>1, <1>2, PTL DEF Spec

\* The matcher answers TRUE if and only if the parts lie in the text.
AnswersRight == pc = "done" /\ ReadsAscii(program) => (result <=> Lies(program, text))

(***************************************************************************)
(* The matcher never takes back a part for which it has found a place, nor *)
(* a code point for which it has found an underscore, and it looks for the *)
(* next place of a needle behind the place it has found only: none of this *)
(* costs a match, and none finds one that there is not.                    *)
(***************************************************************************)
THEOREM PartsAreFound == Spec => []AnswersRight
<1>1. Whole => AnswersRight
  BY DEF Whole, Reads, Meaning, Asked, AnswersRight
<1> QED
  BY <1>1, AnswerInvariant, PTL

(***************************************************************************)
(* For patterns whose underscores are with ASCII where the code reads      *)
(* chars, the matcher answers what LIKE says.                              *)
(***************************************************************************)
THEOREM AnswersLike ==
    ASSUME \A n \in 1 .. Len(Patterns) : ReadsAscii(BuildMatcher(Patterns[n]))
    PROVE  Spec => []MatchesLike
<1>1. ASSUME Whole, pc = "done" PROVE result = Like(CodePoints(program.pattern), CodePoints(text))
  <2>1. PICK n \in 1 .. Len(Patterns) : program = BuildMatcher(Patterns[n]) /\ text \in Texts[n]
    BY <1>1 DEF Whole, Chosen
  <2>2. ReadsAscii(program) /\ Reads
    BY <1>1, <2>1 DEF Whole
  <2>3. (result <=> Lies(program, text)) /\ result \in BOOLEAN
    BY <1>1, <2>2 DEF Reads, Meaning, EndsRead, Asked
  <2>4. Lies(program, text) \in BOOLEAN
    BY DEF Lies
  <2>5. Lies(BuildMatcher(Patterns[n]), text) = Like(CodePoints(Patterns[n]), CodePoints(text))
    BY <2>1, MeaningAssumption, Zenon
  <2>6. program.pattern = Patterns[n]
    BY <2>1 DEF BuildMatcher
  <2>7. result = Lies(program, text)
    BY <2>3, <2>4
  <2> QED
    BY <2>1, <2>5, <2>6, <2>7, Zenon
<1>2. Whole => MatchesLike
  BY <1>1 DEF MatchesLike
<1> QED
  BY <1>2, AnswerInvariant, PTL
=============================================================================
