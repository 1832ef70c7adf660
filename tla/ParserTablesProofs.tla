------------------------- MODULE ParserTablesProofs -------------------------
(***************************************************************************)
(* Lemmas about walks through the tables of a parser.  A walk is a         *)
(* recursive function; what it computes is proved by induction, which here *)
(* is the argument from the least counterexample.                          *)
(***************************************************************************)
EXTENDS ParserTables, WellFoundedInduction, TLAPS

\* Every set of natural numbers that is not empty has a least element.
LEMMA LeastNat ==
    ASSUME NEW T \in SUBSET Nat, T # {}
    PROVE  \E x \in T : \A y \in T : x <= y
<1> DEFINE R == OpToRel(<, Nat)
<1>1. IsWellFoundedOn(R, Nat)
  BY NatLessThanWellFounded
<1>2. PICK x \in T : \A y \in T : <<y, x>> \notin R
  <2> HIDE DEF R
  <2> QED
    BY <1>1, WFMin
<1>3. \A y \in T : <<y, x>> \in R <=> y < x
  BY DEF OpToRel
<1>4. \A y \in T : ~(y < x)
  <2> HIDE DEF R
  <2> QED
    BY <1>2, <1>3
<1>5. \A y \in T : x \in Nat /\ y \in Nat
  OBVIOUS
<1>6. \A y \in T : x <= y
  <2> HIDE DEF R
  <2> QED
    BY <1>4, <1>5
<1> QED
  BY <1>6

\* What holds at 0 and, if it holds in front of i, at i, holds for all of
\* 0 .. n; the set S stands for what it holds for.
LEMMA Upwards ==
    ASSUME NEW n \in Nat, NEW S, 0 \in S, \A i \in 1 .. n : i - 1 \in S => i \in S
    PROVE  0 .. n \subseteq S
<1> DEFINE Bad == (0 .. n) \ S
<1> SUFFICES ASSUME Bad # {} PROVE FALSE
  OBVIOUS
<1>1. PICK m \in Bad : \A y \in Bad : m <= y
  <2>1. Bad \in SUBSET Nat
    OBVIOUS
  <2> HIDE DEF Bad
  <2> QED
    BY <2>1, LeastNat
<1>2. m \in 1 .. n /\ m - 1 \notin Bad
  BY <1>1
<1> QED
  BY <1>1, <1>2

\* The same from n down to m.
LEMMA Downwards ==
    ASSUME NEW m \in Nat, NEW n \in Nat, NEW S, n \in S,
           \A i \in m .. n - 1 : i + 1 \in S => i \in S
    PROVE  m .. n \subseteq S
<1> DEFINE T == {i \in 0 .. n : n - i \in S \/ n - i < m}
<1>1. 0 \in T
  OBVIOUS
<1>2. ASSUME NEW i \in 1 .. n, i - 1 \in T PROVE i \in T
  <2>1. CASE n - i < m
    BY <2>1
  <2>2. CASE n - i >= m
    <3>1. n - i \in m .. n - 1 /\ (n - i) + 1 = n - (i - 1)
      BY <2>2
    <3>2. n - (i - 1) \in S
      BY <1>2, <3>1
    <3> QED
      BY <3>1, <3>2
  <2> QED
    BY <2>1, <2>2
<1>3. 0 .. n \subseteq T
  <2> HIDE DEF T
  <2> QED
    BY <1>1, <1>2, Upwards
<1>4. ASSUME NEW i \in m .. n PROVE i \in S
  <2>1. n - i \in T /\ n - (n - i) = i
    BY <1>3
  <2> QED
    BY <2>1
<1> QED
  BY <1>4

-----------------------------------------------------------------------------
(* What a walk is.                                                         *)

\* The steps that Walk is defined by.
Steps(walk, next, start, word, n) ==
    /\ DOMAIN walk = 0 .. n
    /\ walk[0] = start
    /\ \A i \in 1 .. n :
          walk[i] = IF walk[i - 1] \in DOMAIN next THEN next[walk[i - 1]][word[i]] ELSE Error

\* For every length there is a function that takes these steps, and Walk is one.
LEMMA WalkSteps ==
    ASSUME NEW next, NEW start, NEW word, NEW n \in Nat
    PROVE  Steps(Walk(next, start, word, n), next, start, word, n)
<1> DEFINE rule(walk, i) ==
             IF i = 0 THEN start
             ELSE IF walk[i - 1] \in DOMAIN next THEN next[walk[i - 1]][word[i]] ELSE Error
           S == {m \in 0 .. n : \E walk : walk = [i \in 0 .. m |-> rule(walk, i)]}
<1>1. 0 \in S
  <2> DEFINE one == [i \in 0 .. 0 |-> start]
  <2>1. one = [i \in 0 .. 0 |-> rule(one, i)]
    OBVIOUS
  <2>2. \E walk : walk = [i \in 0 .. 0 |-> rule(walk, i)]
    BY <2>1, Zenon
  <2> QED
    BY <2>2
<1>2. ASSUME NEW m \in 1 .. n, m - 1 \in S PROVE m \in S
  <2>1. PICK walk : walk = [i \in 0 .. m - 1 |-> rule(walk, i)]
    BY <1>2
  <2> DEFINE longer == [i \in 0 .. m |-> IF i = m THEN rule(walk, m) ELSE walk[i]]
  <2>2. ASSUME NEW i \in 0 .. m PROVE longer[i] = rule(longer, i)
    <3>1. i > 0 => i - 1 \in 0 .. m - 1 /\ longer[i - 1] = walk[i - 1]
      OBVIOUS
    <3>2. rule(longer, i) = rule(walk, i)
      BY <3>1
    <3>3. i # m => i \in 0 .. m - 1 /\ walk[i] = rule(walk, i)
      BY <2>1
    <3> QED
      BY <3>2, <3>3
  <2>3. longer = [i \in 0 .. m |-> rule(longer, i)]
    BY <2>2
  <2>4. \E w : w = [i \in 0 .. m |-> rule(w, i)]
    BY <2>3, Zenon
  <2> QED
    BY <2>4
<1>3. n \in S
  <2> HIDE DEF S
  <2> QED
    BY <1>1, <1>2, Upwards
<1>4. PICK walk : walk = [i \in 0 .. n |-> rule(walk, i)]
  BY <1>3
<1> DEFINE walked == Walk(next, start, word, n)
<1>5. walked = [i \in 0 .. n |-> rule(walked, i)]
  BY <1>4 DEF Walk
<1> HIDE DEF walked
<1>6. DOMAIN walked = 0 .. n /\ \A i \in 0 .. n : walked[i] = rule(walked, i)
  BY <1>5
<1>7. Steps(walked, next, start, word, n)
  BY <1>6 DEF Steps
<1> QED
  BY <1>7 DEF walked

\* All that most of the lemmas need: no walk comes back from the error.
NeverBack(walk, next, n) ==
    /\ Error \notin DOMAIN next
    /\ DOMAIN walk = 0 .. n
    /\ \A i \in 1 .. n : walk[i] # Error => walk[i - 1] \in DOMAIN next

LEMMA StepsNeverBack ==
    ASSUME NEW walk, NEW next, NEW start, NEW word, NEW n \in Nat,
           Steps(walk, next, start, word, n), Error \notin DOMAIN next
    PROVE  NeverBack(walk, next, n)
BY DEF Steps, NeverBack

\* The walk has come to its j-th state, s, and left the table nowhere before.
Arrives(walk, next, j, s) ==
    /\ j \in DOMAIN walk
    /\ walk[j] = s
    /\ \A i \in 0 .. j - 1 : walk[i] \in DOMAIN next

\* In front of a state other than the error there are states of the table.
LEMMA RealInFront ==
    ASSUME NEW walk, NEW next, NEW n \in Nat, NeverBack(walk, next, n),
           NEW m \in 0 .. n, walk[m] # Error
    PROVE  Arrives(walk, next, m, walk[m])
<1> DEFINE S == {i \in 0 .. m : i = m \/ walk[i] \in DOMAIN next}
<1>1. ASSUME NEW i \in 0 .. m - 1, i + 1 \in S PROVE i \in S
  <2>1. walk[i + 1] # Error
    BY <1>1 DEF NeverBack
  <2>2. i + 1 \in 1 .. n /\ (i + 1) - 1 = i
    OBVIOUS
  <2>3. walk[i] \in DOMAIN next
    BY <2>1, <2>2 DEF NeverBack
  <2> QED
    BY <2>3
<1>2. m \in S
  OBVIOUS
<1>3. 0 .. m \subseteq S
  <2> HIDE DEF S
  <2> QED
    BY <1>1, <1>2, Downwards
<1>4. \A i \in 0 .. m - 1 : walk[i] \in DOMAIN next
  BY <1>3
<1> QED
  BY <1>4 DEF Arrives, NeverBack

\* A step of the walk.
LEMMA Goes ==
    ASSUME NEW walk, NEW next, NEW start, NEW word, NEW n \in Nat,
           Steps(walk, next, start, word, n),
           NEW j \in 0 .. n - 1, NEW s \in DOMAIN next, Arrives(walk, next, j, s)
    PROVE  Arrives(walk, next, j + 1, next[s][word[j + 1]])
<1>1. j + 1 \in 1 .. n /\ (j + 1) - 1 = j
  OBVIOUS
<1>2. walk[j + 1] = next[s][word[j + 1]]
  BY <1>1 DEF Steps, Arrives
<1>3. \A i \in 0 .. j : walk[i] \in DOMAIN next
  BY DEF Arrives
<1> QED
  BY <1>1, <1>2, <1>3 DEF Steps, Arrives

\* Of the states that a walk arrives at, only the last is not of the table; a
\* walk that has arrived in the table may still arrive anywhere behind.
LEMMA OneEnd ==
    ASSUME NEW walk, NEW next, NEW n \in Nat, NeverBack(walk, next, n),
           NEW i \in 0 .. n, NEW m \in 0 .. n, NEW s,
           Arrives(walk, next, i, s), walk[m] # Error, walk[m] \notin DOMAIN next
    PROVE  /\ i <= m
           /\ s \notin DOMAIN next => i = m /\ s # Error
<1>1. Arrives(walk, next, m, walk[m])
  BY RealInFront
<1>2. i <= m
  BY DEF Arrives
<1>3. s \notin DOMAIN next => ~(i < m)
  BY <1>1 DEF Arrives
<1> QED
  BY <1>2, <1>3 DEF Arrives

-----------------------------------------------------------------------------
(* Accept states.                                                          *)

\* What the lemmas assume of the numbers that stand for the outcomes.
OutcomesDiffer == AcceptBase \in Int /\ Error \notin Accepts /\ NoEnd \notin 0 .. 8

LEMMA AcceptStates ==
    ASSUME OutcomesDiffer, NEW k \in 0 .. 8
    PROVE  /\ Accept(k) \in Accepts /\ Accept(k) \in Outcomes /\ Accept(k) # Error
           /\ \A m \in 0 .. 8 : Accept(k) = Accept(m) => k = m
<1>1. Accept(k) \in Accepts
  BY DEF Accepts
<1>2. \A m \in 0 .. 8 : Accept(k) = Accept(m) => k = m
  BY DEF OutcomesDiffer, Accept
<1> QED
  BY <1>1, <1>2 DEF OutcomesDiffer, Outcomes

LEMMA OutcomeKinds ==
    ASSUME OutcomesDiffer, NEW s \in Outcomes
    PROVE  s = Error \/ \E k \in 0 .. 8 : s = Accept(k)
BY DEF Outcomes, Accepts

\* A walk matches once at most.
LEMMA OneMatch ==
    ASSUME OutcomesDiffer, NEW walk, NEW next, NEW n \in Nat,
           NeverBack(walk, next, n), \A s \in Outcomes : s \notin DOMAIN next,
           NEW j, NEW k \in 0 .. 8, Arrives(walk, next, j, Accept(k)),
           NEW i \in 0 .. n, NEW m \in 0 .. 8
    PROVE  walk[i] = Accept(m) <=> i = j /\ m = k
<1>1. Error \notin DOMAIN next /\ j \in 0 .. n /\ walk[j] = Accept(k)
  BY DEF Outcomes, Arrives, NeverBack
<1>2. /\ Accept(k) \notin DOMAIN next
      /\ Accept(m) \notin DOMAIN next /\ Accept(m) # Error
      /\ Accept(k) = Accept(m) <=> k = m
  BY AcceptStates
<1>3. walk[i] = Accept(m) => i = j
  BY <1>1, <1>2, OneEnd
<1> QED
  BY <1>1, <1>2, <1>3

-----------------------------------------------------------------------------
(* Forwards.                                                               *)

\* The forward walk of a sound parser stays in the forward table.
LEMMA ForwardSteps ==
    ASSUME NEW p, Closed(p), p.forward,
           NEW w \in Seq(Bytes), Len(p.fwdFix) <= Len(w)
    PROVE  LET fixed == Len(p.fwdFix)
               left == Len(w) - fixed
               word == [i \in 1 .. left |-> w[fixed + i]]
           IN  /\ fixed \in Nat /\ left \in Nat
               /\ word \in [1 .. left -> Bytes]
               /\ Steps(ForwardWalk(p, w), p.next, p.fwdStart, word, left)
               /\ \A i \in 0 .. left : ForwardWalk(p, w)[i] \in p.fwd \cup Outcomes
<1> DEFINE fixed == Len(p.fwdFix)
           left == Len(w) - fixed
           word == [i \in 1 .. left |-> w[fixed + i]]
           walk == ForwardWalk(p, w)
           S == {i \in 0 .. left : walk[i] \in p.fwd \cup Outcomes}
<1>1. fixed \in Nat /\ left \in Nat
  BY DEF Closed
<1>2. word \in [1 .. left -> Bytes]
  BY <1>1
<1>3. Steps(walk, p.next, p.fwdStart, word, left)
  BY <1>1, WalkSteps DEF ForwardWalk
<1>4. 0 \in S
  BY <1>1, <1>3 DEF Steps, Closed
<1>5. ASSUME NEW i \in 1 .. left, i - 1 \in S PROVE i \in S
  <2>1. walk[i] = IF walk[i - 1] \in DOMAIN p.next THEN p.next[walk[i - 1]][word[i]] ELSE Error
    BY <1>3 DEF Steps
  <2>2. CASE walk[i - 1] \in DOMAIN p.next
    <3>1. walk[i - 1] \in p.fwd /\ word[i] \in Bytes
      BY <1>2, <1>5, <2>2 DEF Closed
    <3>2. walk[i] \in p.fwd \cup Outcomes
      BY <2>1, <2>2, <3>1 DEF Closed
    <3> QED
      BY <3>2
  <2>3. CASE walk[i - 1] \notin DOMAIN p.next
    BY <2>1, <2>3 DEF Outcomes
  <2> QED
    BY <2>2, <2>3
<1>6. 0 .. left \subseteq S
  <2> HIDE DEF S
  <2> QED
    BY <1>1, <1>4, <1>5, Upwards
<1>7. \A i \in 0 .. left : walk[i] \in p.fwd \cup Outcomes
  BY <1>6
<1> HIDE DEF walk
<1> QED
  BY <1>1, <1>2, <1>3, <1>7 DEF walk

\* A code moves the forward walk by one state.
LEMMA ForwardGoes ==
    ASSUME NEW p, Closed(p), p.forward,
           NEW w \in Seq(Bytes), Len(p.fwdFix) <= Len(w),
           NEW j \in 0 .. Len(w) - Len(p.fwdFix) - 1, NEW s \in DOMAIN p.next,
           Arrives(ForwardWalk(p, w), p.next, j, s)
    PROVE  Arrives(ForwardWalk(p, w), p.next, j + 1, p.next[s][w[Len(p.fwdFix) + j + 1]])
<1> DEFINE fixed == Len(p.fwdFix)
           left == Len(w) - fixed
           word == [i \in 1 .. left |-> w[fixed + i]]
<1>1. /\ fixed \in Nat /\ left \in Nat
      /\ Steps(ForwardWalk(p, w), p.next, p.fwdStart, word, left)
  BY ForwardSteps
<1>2. Arrives(ForwardWalk(p, w), p.next, j + 1, p.next[s][word[j + 1]])
  <2> HIDE DEF word
  <2> QED
    BY <1>1, Goes
<1>3. j + 1 \in 1 .. left /\ fixed + (j + 1) = fixed + j + 1
  <2>1. j \in 0 .. left - 1
    OBVIOUS
  <2> HIDE DEF fixed, left
  <2> QED
    BY <1>1, <2>1
<1>4. word[j + 1] = w[fixed + j + 1]
  BY <1>3
<1> QED
  BY <1>2, <1>4

\* In an accept state the walk has found the only match of the beginning.
LEMMA ForwardMatch ==
    ASSUME OutcomesDiffer, NEW p, Closed(p), p.forward,
           NEW w \in Seq(Bytes), Begins(w, p.fwdFix), NEW k \in 0 .. 8,
           NEW j \in 0 .. Len(w) - Len(p.fwdFix),
           Arrives(ForwardWalk(p, w), p.next, j, Accept(k)),
           NEW n \in Int, NEW m \in 0 .. 8
    PROVE  BeginMatches(p, w, n, m) <=> n = Len(p.fwdFix) + j /\ m = k
<1> DEFINE fixed == Len(p.fwdFix)
           left == Len(w) - fixed
           word == [i \in 1 .. left |-> w[fixed + i]]
           walk == ForwardWalk(p, w)
<1>1. /\ fixed \in Nat /\ left \in Nat
      /\ Steps(walk, p.next, p.fwdStart, word, left)
  BY ForwardSteps DEF Begins
<1>2. \A s \in Outcomes : s \notin DOMAIN p.next
  BY DEF Closed
<1>3. ASSUME NEW i \in 0 .. left PROVE walk[i] = Accept(m) <=> i = j /\ m = k
  <2>1. Arrives(walk, p.next, j, Accept(k))
    OBVIOUS
  <2>2. NeverBack(walk, p.next, left)
    BY <1>1, <1>2, StepsNeverBack DEF Outcomes
  <2>3. left \in Nat
    BY <1>1
  <2> HIDE DEF walk, word, left, fixed
  <2> QED
    BY <1>2, <2>1, <2>2, <2>3, OneMatch
<1>4. BeginMatches(p, w, n, m) <=> n - fixed \in 0 .. left /\ walk[n - fixed] = Accept(m)
  BY <1>1 DEF BeginMatches, Steps
<1>5. j \in 0 .. left
  OBVIOUS
<1>6. n - fixed = j <=> n = fixed + j
  <2> HIDE DEF fixed
  <2> QED
    BY <1>1
<1> HIDE DEF walk, fixed, left
<1> QED
  BY <1>3, <1>4, <1>5, <1>6 DEF fixed

\* From the error no match of the beginning can come.
LEMMA ForwardLost ==
    ASSUME OutcomesDiffer, NEW p, Closed(p), p.forward,
           NEW w \in Seq(Bytes), Begins(w, p.fwdFix),
           NEW j \in 0 .. Len(w) - Len(p.fwdFix),
           Arrives(ForwardWalk(p, w), p.next, j, Error),
           NEW n \in Int, NEW m \in 0 .. 8
    PROVE  ~BeginMatches(p, w, n, m)
<1> DEFINE left == Len(w) - Len(p.fwdFix)
           word == [i \in 1 .. left |-> w[Len(p.fwdFix) + i]]
           walk == ForwardWalk(p, w)
<1>1. left \in Nat /\ Steps(walk, p.next, p.fwdStart, word, left)
  BY ForwardSteps DEF Begins
<1>2. \A s \in Outcomes : s \notin DOMAIN p.next
  BY DEF Closed
<1>3. NeverBack(walk, p.next, left)
  BY <1>1, <1>2, StepsNeverBack DEF Outcomes
<1>4. Accept(m) \in Outcomes /\ Accept(m) # Error
  BY AcceptStates
<1>5. ASSUME NEW i \in 0 .. left PROVE walk[i] # Accept(m)
  <2>1. Arrives(walk, p.next, j, Error) /\ j \in 0 .. left
    OBVIOUS
  <2> HIDE DEF walk, left
  <2> QED
    BY <1>1, <1>2, <1>3, <1>4, <2>1, OneEnd DEF Outcomes
<1> QED
  BY <1>1, <1>5 DEF BeginMatches, Steps

-----------------------------------------------------------------------------
(* Levels.                                                                 *)

\* The states in rows lead to each other in such a way that the level never
\* falls by more than one.
Gentle(p, rows) ==
    /\ rows \subseteq DOMAIN p.next
    /\ \A s \in rows, c \in Bytes :
          p.next[s][c] \in rows => p.level[s] <= p.level[p.next[s][c]] + 1

\* A walk through rows that reads bytes, from wherever it starts.
WalksIn(walk, p, rows, n) ==
    /\ \E start : \E word \in [1 .. n -> Bytes] : Steps(walk, p.next, start, word, n)
    /\ \A i \in 0 .. n : walk[i] \in rows \cup Outcomes

\* On the way from one state of a table to another the level falls by no more
\* than one with each code.
LEMMA LevelsOnTheWay ==
    ASSUME NEW p, Closed(p), NEW rows, Gentle(p, rows),
           NEW walk, NEW n \in Nat, WalksIn(walk, p, rows, n),
           NEW e \in 0 .. n, walk[e] \in rows, NEW j \in 0 .. e
    PROVE  walk[j] \in rows /\ p.level[walk[j]] <= p.level[walk[e]] + (e - j)
<1> DEFINE S == {i \in 0 .. e : p.level[walk[i]] <= p.level[walk[e]] + (e - i)}
<1>1. \A q \in Outcomes : q \notin DOMAIN p.next
  BY DEF Closed
<1>2. Error \notin DOMAIN p.next /\ walk[e] # Error
  BY <1>1 DEF Outcomes, Gentle
<1> PICK start : \E word \in [1 .. n -> Bytes] : Steps(walk, p.next, start, word, n)
  BY DEF WalksIn
<1> PICK word \in [1 .. n -> Bytes] : Steps(walk, p.next, start, word, n)
  OBVIOUS
<1>3. Arrives(walk, p.next, e, walk[e])
  BY <1>2, StepsNeverBack, RealInFront
<1>4. \A i \in 0 .. e : walk[i] \in rows
  BY <1>1, <1>3 DEF Arrives, WalksIn
<1>5. \A q \in rows : p.level[q] \in Nat
  BY DEF Closed, Gentle
<1>6. ASSUME NEW i \in 0 .. e - 1, i + 1 \in S PROVE i \in S
  <2>1. i + 1 \in 1 .. n /\ word[i + 1] \in Bytes /\ (i + 1) - 1 = i /\ i + 1 \in 0 .. e
    OBVIOUS
  <2>2. walk[i] \in rows /\ walk[i + 1] \in rows
    BY <1>4, <2>1
  <2>3. walk[i + 1] = p.next[walk[i]][word[i + 1]]
    BY <2>1, <2>2 DEF Steps, Gentle
  <2>4. p.level[walk[i]] <= p.level[walk[i + 1]] + 1
    BY <2>1, <2>2, <2>3 DEF Gentle
  <2>5. p.level[walk[i + 1]] <= p.level[walk[e]] + (e - (i + 1))
    BY <1>6
  <2>6. p.level[walk[i]] \in Nat /\ p.level[walk[i + 1]] \in Nat /\ p.level[walk[e]] \in Nat
    BY <1>5, <2>2
  <2>7. p.level[walk[i]] <= p.level[walk[e]] + (e - i)
    BY <2>4, <2>5, <2>6
  <2> QED
    BY <2>7
<1>7. e \in S
  BY <1>4, <1>5
<1>8. 0 .. e \subseteq S
  <2>1. 0 \in Nat /\ e \in Nat
    OBVIOUS
  <2> HIDE DEF S
  <2> QED
    BY <1>6, <1>7, <2>1, Downwards
<1> QED
  BY <1>4, <1>8

\* From a state of the table it takes as many codes as its level says.
LEMMA ForwardAhead ==
    ASSUME OutcomesDiffer, NEW p, Closed(p), LevelsAreHonest(p), p.forward,
           NEW w \in Seq(Bytes), Begins(w, p.fwdFix),
           NEW j \in 0 .. Len(w) - Len(p.fwdFix), NEW s \in p.fwd,
           Arrives(ForwardWalk(p, w), p.next, j, s),
           NEW n \in Int, NEW m \in 0 .. 8, BeginMatches(p, w, n, m)
    PROVE  n >= Len(p.fwdFix) + j + p.level[s]
<1> DEFINE fixed == Len(p.fwdFix)
           left == Len(w) - fixed
           word == [i \in 1 .. left |-> w[fixed + i]]
           walk == ForwardWalk(p, w)
           end == n - fixed
<1>1. /\ fixed \in Nat /\ left \in Nat
      /\ word \in [1 .. left -> Bytes]
      /\ Steps(walk, p.next, p.fwdStart, word, left)
      /\ \A i \in 0 .. left : walk[i] \in p.fwd \cup Outcomes
  BY ForwardSteps DEF Begins
<1>2. \A q \in Outcomes : q \notin DOMAIN p.next
  BY DEF Closed
<1>3. NeverBack(walk, p.next, left)
  BY <1>1, <1>2, StepsNeverBack DEF Outcomes
<1>4. Accept(m) \in Accepts /\ Accept(m) \in Outcomes /\ Accept(m) # Error
  BY AcceptStates
<1>5. end \in 0 .. left /\ walk[end] = Accept(m)
  BY <1>1 DEF BeginMatches, Steps
<1>6. Arrives(walk, p.next, end, Accept(m))
  <2> HIDE DEF walk, left, end
  <2> QED
    BY <1>1, <1>3, <1>4, <1>5, RealInFront
<1>7. \A q \in p.fwd : p.level[q] \in Nat /\ q \in DOMAIN p.next
  BY DEF Closed
<1>8. j \in 0 .. left /\ Arrives(walk, p.next, j, s)
  OBVIOUS
<1>9. j <= end /\ j # end
  <2> HIDE DEF walk, left, end
  <2>1. j <= end
    BY <1>1, <1>2, <1>3, <1>4, <1>5, <1>8, OneEnd
  <2> QED
    BY <1>2, <1>4, <1>5, <1>7, <1>8, <2>1 DEF Arrives
<1> DEFINE last == walk[end - 1]
<1>10. last \in p.fwd /\ p.level[last] <= 1
  <2>1. end \in 1 .. left /\ end - 1 \in 0 .. left /\ end - 1 \in 0 .. end - 1
    <3> HIDE DEF left, end
    <3> QED
      BY <1>1, <1>5, <1>8, <1>9
  <2>2. last \in DOMAIN p.next /\ last \in p.fwd
    <3> HIDE DEF walk, left, end
    <3> QED
      BY <1>1, <1>2, <1>6, <2>1 DEF Arrives
  <2>3. Accept(m) = p.next[last][word[end]] /\ word[end] \in Bytes
    <3> HIDE DEF walk, word, left, end
    <3> QED
      BY <1>1, <1>5, <2>1, <2>2 DEF Steps
  <2> HIDE DEF walk, word, end, last
  <2> QED
    BY <1>4, <2>2, <2>3 DEF LevelsAreHonest
<1>11. p.level[s] <= p.level[last] + ((end - 1) - j)
  <2>1. Gentle(p, p.fwd)
    BY DEF Closed, LevelsAreHonest, Gentle
  <2>2. WalksIn(walk, p, p.fwd, left)
    BY <1>1 DEF WalksIn
  <2>3. end - 1 \in 0 .. left /\ j \in 0 .. end - 1
    <3> HIDE DEF left, end
    <3> QED
      BY <1>1, <1>5, <1>8, <1>9
  <2>4. p.level[walk[j]] <= p.level[walk[end - 1]] + ((end - 1) - j)
    <3> HIDE DEF walk, word, left, end
    <3> QED
      BY <1>1, <1>10, <2>1, <2>2, <2>3, LevelsOnTheWay DEF last
  <2> QED
    BY <1>8, <2>4 DEF Arrives
<1>12. p.level[s] <= end - j
  <2> HIDE DEF last, end
  <2> QED
    BY <1>5, <1>7, <1>8, <1>10, <1>11
<1> HIDE DEF fixed
<1> QED
  BY <1>1, <1>7, <1>8, <1>12 DEF fixed

-----------------------------------------------------------------------------
(* Backwards.                                                              *)

\* The backward walk of a sound parser stays in the backward table.
LEMMA BackwardSteps ==
    ASSUME NEW p, Closed(p), p.backward,
           NEW w \in Seq(Bytes), Len(p.bwdFix) <= Len(w)
    PROVE  LET left == Len(w) - Len(p.bwdFix)
               word == [i \in 1 .. left |-> w[left + 1 - i]]
           IN  /\ left \in Nat
               /\ word \in [1 .. left -> Bytes]
               /\ Steps(BackwardWalk(p, w), p.next, p.bwdStart, word, left)
               /\ \A i \in 0 .. left : BackwardWalk(p, w)[i] \in p.bwd \cup Outcomes
<1> DEFINE left == Len(w) - Len(p.bwdFix)
           word == [i \in 1 .. left |-> w[left + 1 - i]]
           walk == BackwardWalk(p, w)
           S == {i \in 0 .. left : walk[i] \in p.bwd \cup Outcomes}
<1>1. left \in Nat /\ left <= Len(w)
  BY DEF Closed
<1>2. word \in [1 .. left -> Bytes]
  <2>1. ASSUME NEW i \in 1 .. left PROVE w[left + 1 - i] \in Bytes
    <3>1. left + 1 - i \in 1 .. Len(w)
      <4>1. Len(w) \in Nat
        OBVIOUS
      <4> HIDE DEF left
      <4> QED
        BY <1>1, <4>1
    <3> HIDE DEF left
    <3> QED
      BY <3>1
  <2> QED
    BY <2>1
<1>3. Steps(walk, p.next, p.bwdStart, word, left)
  BY <1>1, WalkSteps DEF BackwardWalk
<1>4. 0 \in S
  BY <1>1, <1>3 DEF Steps, Closed
<1>5. ASSUME NEW i \in 1 .. left, i - 1 \in S PROVE i \in S
  <2>1. walk[i] = IF walk[i - 1] \in DOMAIN p.next THEN p.next[walk[i - 1]][word[i]] ELSE Error
    BY <1>3 DEF Steps
  <2>2. CASE walk[i - 1] \in DOMAIN p.next
    <3>1. walk[i - 1] \in p.bwd /\ word[i] \in Bytes
      BY <1>2, <1>5, <2>2 DEF Closed
    <3>2. walk[i] \in p.bwd \cup Outcomes
      <4> HIDE DEF walk, word
      <4> QED
        BY <2>1, <2>2, <3>1 DEF Closed
    <3> QED
      BY <3>2
  <2>3. CASE walk[i - 1] \notin DOMAIN p.next
    BY <2>1, <2>3 DEF Outcomes
  <2> QED
    BY <2>2, <2>3
<1>6. 0 .. left \subseteq S
  <2> HIDE DEF S
  <2> QED
    BY <1>1, <1>4, <1>5, Upwards
<1>7. \A i \in 0 .. left : walk[i] \in p.bwd \cup Outcomes
  BY <1>6
<1> HIDE DEF walk
<1> QED
  BY <1>1, <1>2, <1>3, <1>7 DEF walk

\* A code moves the backward walk by one state.
LEMMA BackwardGoes ==
    ASSUME NEW p, Closed(p), p.backward,
           NEW w \in Seq(Bytes), Len(p.bwdFix) <= Len(w),
           NEW j \in 0 .. Len(w) - Len(p.bwdFix) - 1, NEW s \in DOMAIN p.next,
           Arrives(BackwardWalk(p, w), p.next, j, s)
    PROVE  Arrives(BackwardWalk(p, w), p.next, j + 1, p.next[s][w[Len(w) - Len(p.bwdFix) - j]])
<1> DEFINE left == Len(w) - Len(p.bwdFix)
           word == [i \in 1 .. left |-> w[left + 1 - i]]
<1>1. left \in Nat /\ Steps(BackwardWalk(p, w), p.next, p.bwdStart, word, left)
  BY BackwardSteps
<1>2. Arrives(BackwardWalk(p, w), p.next, j + 1, p.next[s][word[j + 1]])
  <2> HIDE DEF word
  <2> QED
    BY <1>1, Goes
<1>3. j + 1 \in 1 .. left /\ left + 1 - (j + 1) = left - j
  <2>1. j \in 0 .. left - 1
    OBVIOUS
  <2> HIDE DEF left
  <2> QED
    BY <1>1, <2>1
<1>4. word[j + 1] = w[left - j]
  BY <1>3
<1> QED
  BY <1>2, <1>4

\* What the first disjunct of EndMatches asks for cannot be where the walk is
\* in the table, and the second cannot be once it has left it.
LEMMA EndKinds ==
    ASSUME OutcomesDiffer, NEW p, Closed(p), p.backward,
           NEW w \in Seq(Bytes), Ends(w, p.bwdFix),
           NEW b \in Int, NEW k \in 0 .. 8
    PROVE  LET left == Len(w) - Len(p.bwdFix)
               walk == BackwardWalk(p, w)
           IN  /\ left \in Nat
               /\ NeverBack(walk, p.next, left)
               /\ WalksIn(walk, p, p.bwd, left)
               /\ \A s \in Outcomes : s \notin DOMAIN p.next
               /\ EndMatches(p, w, b, k) <=>
                     \/ left + 1 - b \in 0 .. left /\ walk[left + 1 - b] = Accept(k)
                     \/ b = 0 /\ walk[left] \in DOMAIN p.next /\ p.pseudo[walk[left]] = k
<1> DEFINE left == Len(w) - Len(p.bwdFix)
           word == [i \in 1 .. left |-> w[left + 1 - i]]
           walk == BackwardWalk(p, w)
<1>1. /\ left \in Nat /\ word \in [1 .. left -> Bytes]
      /\ Steps(walk, p.next, p.bwdStart, word, left)
      /\ \A i \in 0 .. left : walk[i] \in p.bwd \cup Outcomes
  BY BackwardSteps DEF Ends
<1>2. \A s \in Outcomes : s \notin DOMAIN p.next
  BY DEF Closed
<1>3. NeverBack(walk, p.next, left)
  <2> HIDE DEF walk, word, left
  <2> QED
    BY <1>1, <1>2, StepsNeverBack DEF Outcomes
<1>4. WalksIn(walk, p, p.bwd, left)
  <2> HIDE DEF walk, word, left
  <2> QED
    BY <1>1 DEF WalksIn
<1>5. DOMAIN walk = 0 .. left
  BY <1>1 DEF Steps
<1> QED
  BY <1>1, <1>2, <1>3, <1>4, <1>5 DEF EndMatches

\* The end of the pattern matches in one place only: k bytes into the code at
\* b; behind the string if there is no backward table.
EndIsAt(p, w, b, k) ==
    IF p.backward THEN \A c \in Int, m \in 0 .. 8 : EndMatches(p, w, c, m) <=> c = b /\ m = k
    ELSE b = Len(w) - 1 /\ k = 8

\* In an accept state the walk has found the only match of the end.
LEMMA BackwardMatch ==
    ASSUME OutcomesDiffer, NEW p, Closed(p), p.backward,
           NEW w \in Seq(Bytes), Ends(w, p.bwdFix), NEW k \in 0 .. 8,
           NEW j \in 0 .. Len(w) - Len(p.bwdFix),
           Arrives(BackwardWalk(p, w), p.next, j, Accept(k))
    PROVE  EndIsAt(p, w, Len(w) - Len(p.bwdFix) + 1 - j, k)
<1> SUFFICES ASSUME NEW b \in Int, NEW m \in 0 .. 8
             PROVE  EndMatches(p, w, b, m) <=> b = Len(w) - Len(p.bwdFix) + 1 - j /\ m = k
  BY DEF EndIsAt
<1> DEFINE left == Len(w) - Len(p.bwdFix)
           walk == BackwardWalk(p, w)
<1>1. j \in 0 .. left /\ Arrives(walk, p.next, j, Accept(k))
  OBVIOUS
<1>2. /\ left \in Nat /\ NeverBack(walk, p.next, left)
      /\ \A s \in Outcomes : s \notin DOMAIN p.next
      /\ EndMatches(p, w, b, m) <=>
            \/ left + 1 - b \in 0 .. left /\ walk[left + 1 - b] = Accept(m)
            \/ b = 0 /\ walk[left] \in DOMAIN p.next /\ p.pseudo[walk[left]] = m
  BY EndKinds
<1> HIDE DEF left, walk
<1>3. ASSUME NEW i \in 0 .. left PROVE walk[i] = Accept(m) <=> i = j /\ m = k
  <2>1. left \in Nat /\ NeverBack(walk, p.next, left) /\ \A s \in Outcomes : s \notin DOMAIN p.next
    BY <1>2
  <2> QED
    BY <1>1, <2>1, OneMatch
<1>4. walk[left] \notin DOMAIN p.next
  <2>1. Accept(k) \in Outcomes /\ Error \notin DOMAIN p.next
    BY <1>2, AcceptStates DEF Outcomes
  <2> SUFFICES ASSUME walk[left] \in DOMAIN p.next PROVE FALSE
    OBVIOUS
  <2>2. Arrives(walk, p.next, left, walk[left])
    BY <1>2, <2>1, RealInFront
  <2> QED
    BY <1>1, <1>2, <2>1, <2>2 DEF Arrives
<1>5. left + 1 - b = j <=> b = left + 1 - j
  BY <1>1, <1>2
<1>6. EndMatches(p, w, b, m) <=> b = left + 1 - j /\ m = k
  BY <1>1, <1>2, <1>3, <1>4, <1>5
<1> QED
  BY <1>6 DEF left

\* If the walk is in a state of the table in front of the string, that state
\* counts as the only match of the end, or there is none.
LEMMA BackwardMatchInFront ==
    ASSUME OutcomesDiffer, NEW p, Closed(p), p.backward,
           NEW w \in Seq(Bytes), Ends(w, p.bwdFix), NEW s \in DOMAIN p.next,
           Arrives(BackwardWalk(p, w), p.next, Len(w) - Len(p.bwdFix), s)
    PROVE  EndIsAt(p, w, 0, p.pseudo[s])
<1> SUFFICES ASSUME NEW b \in Int, NEW m \in 0 .. 8
             PROVE  EndMatches(p, w, b, m) <=> b = 0 /\ m = p.pseudo[s]
  BY DEF EndIsAt
<1> DEFINE left == Len(w) - Len(p.bwdFix)
           walk == BackwardWalk(p, w)
<1>1. Arrives(walk, p.next, left, s)
  OBVIOUS
<1>2. /\ left \in Nat /\ NeverBack(walk, p.next, left)
      /\ \A q \in Outcomes : q \notin DOMAIN p.next
      /\ EndMatches(p, w, b, m) <=>
            \/ left + 1 - b \in 0 .. left /\ walk[left + 1 - b] = Accept(m)
            \/ b = 0 /\ walk[left] \in DOMAIN p.next /\ p.pseudo[walk[left]] = m
  BY EndKinds
<1> HIDE DEF left, walk
<1>3. Accept(m) \in Outcomes
  BY AcceptStates
<1>4. \A i \in 0 .. left : walk[i] # Accept(m)
  BY <1>1, <1>2, <1>3 DEF Arrives
<1> QED
  BY <1>1, <1>2, <1>4 DEF Arrives

\* From the error no match of the end can come.
LEMMA BackwardLost ==
    ASSUME OutcomesDiffer, NEW p, Closed(p), p.backward,
           NEW w \in Seq(Bytes), Ends(w, p.bwdFix),
           NEW j \in 0 .. Len(w) - Len(p.bwdFix),
           Arrives(BackwardWalk(p, w), p.next, j, Error),
           NEW b \in Int, NEW m \in 0 .. 8
    PROVE  ~EndMatches(p, w, b, m)
<1> DEFINE left == Len(w) - Len(p.bwdFix)
           walk == BackwardWalk(p, w)
<1>1. j \in 0 .. left /\ Arrives(walk, p.next, j, Error)
  OBVIOUS
<1>2. /\ left \in Nat /\ NeverBack(walk, p.next, left)
      /\ \A s \in Outcomes : s \notin DOMAIN p.next
      /\ EndMatches(p, w, b, m) <=>
            \/ left + 1 - b \in 0 .. left /\ walk[left + 1 - b] = Accept(m)
            \/ b = 0 /\ walk[left] \in DOMAIN p.next /\ p.pseudo[walk[left]] = m
  BY EndKinds
<1> HIDE DEF left, walk
<1>3. /\ Accept(m) \in Outcomes /\ Accept(m) # Error
      /\ Error \notin DOMAIN p.next
  BY <1>2, AcceptStates DEF Outcomes
<1>4. \A i \in 0 .. left : walk[i] # Accept(m)
  BY <1>1, <1>2, <1>3, OneEnd
<1>5. walk[left] \notin DOMAIN p.next
  <2> SUFFICES ASSUME walk[left] \in DOMAIN p.next PROVE FALSE
    OBVIOUS
  <2>1. Arrives(walk, p.next, left, walk[left])
    BY <1>2, <1>3, RealInFront
  <2> QED
    BY <1>1, <1>2, <1>3, <2>1 DEF Arrives
<1> QED
  BY <1>2, <1>4, <1>5

\* From a state of the table it takes as many codes behind the one in which
\* the end begins as its level says.
LEMMA BackwardAhead ==
    ASSUME OutcomesDiffer, NEW p, Closed(p), LevelsAreHonest(p), p.backward,
           NEW w \in Seq(Bytes), Ends(w, p.bwdFix),
           NEW j \in 0 .. Len(w) - Len(p.bwdFix), NEW s \in p.bwd,
           Arrives(BackwardWalk(p, w), p.next, j, s),
           NEW b \in Int, NEW m \in 0 .. 8, EndMatches(p, w, b, m)
    PROVE  b >= 0 /\ b + j + p.level[s] <= Len(w) - Len(p.bwdFix)
<1> DEFINE left == Len(w) - Len(p.bwdFix)
           walk == BackwardWalk(p, w)
<1>1. j \in 0 .. left /\ Arrives(walk, p.next, j, s)
  OBVIOUS
<1>2. /\ left \in Nat /\ NeverBack(walk, p.next, left) /\ WalksIn(walk, p, p.bwd, left)
      /\ \A q \in Outcomes : q \notin DOMAIN p.next
      /\ \/ left + 1 - b \in 0 .. left /\ walk[left + 1 - b] = Accept(m)
         \/ b = 0 /\ walk[left] \in DOMAIN p.next /\ p.pseudo[walk[left]] = m
  BY EndKinds
<1> HIDE DEF left, walk
<1>3. /\ Gentle(p, p.bwd)
      /\ \A q \in p.bwd : q \in DOMAIN p.next /\ p.level[q] \in Nat
  BY DEF Closed, LevelsAreHonest, Gentle
<1> DEFINE e == left - b
\* The last state of the table in front of the match: its level is 0.
<1>4. b >= 0 /\ e \in j .. left /\ walk[e] \in p.bwd /\ p.level[walk[e]] = 0
  <2>1. CASE left + 1 - b \in 0 .. left /\ walk[left + 1 - b] = Accept(m)
    <3> DEFINE end == left + 1 - b
    <3>1. end \in 0 .. left /\ walk[end] = Accept(m) /\ e = end - 1
      BY <1>2, <2>1
    <3>2. Accept(m) \in Outcomes /\ Accept(m) \in Accepts /\ Accept(m) # Error
      BY AcceptStates
    <3> HIDE DEF end, e
    <3>3. j <= end /\ j # end
      <4>1. j <= end
        BY <1>1, <1>2, <3>1, <3>2, OneEnd
      <4> QED
        BY <1>1, <1>2, <1>3, <3>1, <3>2, <4>1 DEF Arrives
    <3>4. e \in j .. left /\ e \in 0 .. left - 1 /\ end \in 1 .. left
      BY <1>1, <1>2, <3>1, <3>3
    <3>5. walk[e] \in p.bwd
      <4>1. walk[e] \in DOMAIN p.next
        BY <3>1, <3>2, <3>4, <1>2 DEF NeverBack
      <4>2. walk[e] \in p.bwd \cup Outcomes
        BY <1>1, <1>2, <3>4 DEF WalksIn
      <4> QED
        BY <1>2, <4>1, <4>2
    <3>6. p.level[walk[e]] = 0
      <4>1. PICK start : \E word \in [1 .. left -> Bytes] : Steps(walk, p.next, start, word, left)
        BY <1>2 DEF WalksIn
      <4>2. PICK word \in [1 .. left -> Bytes] : Steps(walk, p.next, start, word, left)
        BY <4>1
      <4>3. Accept(m) = p.next[walk[e]][word[end]] /\ word[end] \in Bytes
        BY <1>3, <3>1, <3>4, <3>5, <4>2 DEF Steps
      <4> QED
        BY <3>2, <3>5, <4>3 DEF LevelsAreHonest
    <3>7. b >= 0
      BY <1>2, <3>1 DEF end
    <3> QED
      BY <3>4, <3>5, <3>6, <3>7
  <2>2. CASE b = 0 /\ walk[left] \in DOMAIN p.next /\ p.pseudo[walk[left]] = m
    <3>1. walk[left] \in p.bwd /\ left \in j .. left /\ e = left
      BY <1>1, <1>2, <2>2 DEF WalksIn
    <3>2. p.level[walk[left]] = 0
      BY <2>2, <3>1 DEF LevelsAreHonest, OutcomesDiffer
    <3> QED
      BY <2>2, <3>1, <3>2
  <2> QED
    BY <1>2, <2>1, <2>2
<1>5. p.level[walk[j]] <= p.level[walk[e]] + (e - j)
  <2>1. e \in 0 .. left /\ j \in 0 .. e
    BY <1>1, <1>2, <1>4
  <2> HIDE DEF e
  <2> QED
    BY <1>2, <1>3, <1>4, <2>1, LevelsOnTheWay
<1>6. p.level[s] <= e - j
  <2> HIDE DEF e
  <2> QED
    BY <1>1, <1>2, <1>3, <1>4, <1>5 DEF Arrives
<1>7. b >= 0 /\ b + j + p.level[s] <= left
  BY <1>1, <1>2, <1>3, <1>4, <1>6
<1> QED
  BY <1>7 DEF left

-----------------------------------------------------------------------------
(* The verdict.                                                            *)

\* Then only the beginning is left to be matched.
LEMMA VerdictAt ==
    ASSUME NEW p, NEW w, Len(w) \in Nat, NEW b \in 0 .. Len(w) - 1, NEW k \in 0 .. 8,
           EndIsAt(p, w, b, k)
    PROVE  Verdict(p, w) <=>
              (p.forward => \E n \in 0 .. b + 1, m \in 0 .. 8 :
                               BeginMatches(p, w, n, m) /\ (n <= b \/ m <= k))
<1> DEFINE at(c, q) == IF p.backward THEN EndMatches(p, w, c, q) ELSE c = Len(w) - 1 /\ q = 8
           rest(c, q) == p.forward => \E n \in 0 .. c + 1, m \in 0 .. 8 :
                                         BeginMatches(p, w, n, m) /\ (n <= c \/ m <= q)
<1>1. \A c \in 0 .. Len(w) - 1, q \in 0 .. 8 : at(c, q) <=> c = b /\ q = k
  BY DEF EndIsAt
<1>2. Verdict(p, w) <=> \E c \in 0 .. Len(w) - 1, q \in 0 .. 8 : at(c, q) /\ rest(c, q)
  BY DEF Verdict
<1> HIDE DEF at, rest
<1>3. Verdict(p, w) <=> rest(b, k)
  BY <1>1, <1>2
<1> QED
  BY <1>3 DEF rest

LEMMA NoVerdict ==
    ASSUME NEW p, NEW w, Len(w) \in Nat, p.backward,
           \A b \in Int, k \in 0 .. 8 : ~EndMatches(p, w, b, k)
    PROVE  Verdict(p, w) = FALSE
BY DEF Verdict

\* If the forward walk arrives at a match, that decides.
LEMMA VerdictOfMatch ==
    ASSUME OutcomesDiffer, NEW p, Closed(p), p.forward,
           NEW w \in Seq(Bytes), NEW b \in 0 .. Len(w) - 1, NEW k \in 0 .. 8,
           EndIsAt(p, w, b, k), Begins(w, p.fwdFix),
           NEW j \in 0 .. Len(w) - Len(p.fwdFix), NEW m \in 0 .. 8,
           Arrives(ForwardWalk(p, w), p.next, j, Accept(m)),
           Len(p.fwdFix) + j <= b + 1
    PROVE  Verdict(p, w) <=> Len(p.fwdFix) + j <= b \/ m <= k
<1>1. \A n \in Int, q \in 0 .. 8 : BeginMatches(p, w, n, q) <=> n = Len(p.fwdFix) + j /\ q = m
  BY ForwardMatch
<1>2. Len(p.fwdFix) \in Nat /\ Len(w) \in Nat
  BY DEF Closed
<1>3. Verdict(p, w) <=> \E n \in 0 .. b + 1, q \in 0 .. 8 :
                           BeginMatches(p, w, n, q) /\ (n <= b \/ q <= k)
  BY <1>2, VerdictAt
<1>4. Len(p.fwdFix) + j \in 0 .. b + 1
  BY <1>2
<1> QED
  BY <1>1, <1>3, <1>4

\* If the beginning matches nowhere in front of the end, there is none.
LEMMA VerdictOfNone ==
    ASSUME NEW p, p.forward, NEW w, Len(w) \in Nat, NEW b \in 0 .. Len(w) - 1, NEW k \in 0 .. 8,
           EndIsAt(p, w, b, k),
           \A n \in 0 .. b + 1, m \in 0 .. 8 : ~BeginMatches(p, w, n, m)
    PROVE  Verdict(p, w) = FALSE
<1>1. Verdict(p, w) <=> \E n \in 0 .. b + 1, q \in 0 .. 8 :
                           BeginMatches(p, w, n, q) /\ (n <= b \/ q <= k)
  BY VerdictAt
<1>2. Verdict(p, w) \in BOOLEAN
  BY DEF Verdict
<1> QED
  BY <1>1, <1>2
=============================================================================
