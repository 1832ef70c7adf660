-------------------------- MODULE TableParseProofs --------------------------
(***************************************************************************)
(* Theorems about the matcher, for every sequence of sound parsers and any *)
(* strings: whatever the patterns, the symbol tables and the bytes around  *)
(* the strings, the walks read where they may.                             *)
(*                                                                         *)
(* That parsers are sound is a hypothesis of the theorems: it is what the  *)
(* constructors must deliver, and TLC checks that they do.                 *)
(***************************************************************************)
EXTENDS TableParse, ParserTablesProofs

\* The least that the theorems assume: numbers are numbers, what lies around
\* a string are bytes, and every parser is sound for its strings.
Given ==
    /\ LevelRange \in Nat \ {0}
    /\ AcceptBase \in Int
    /\ Outside \subseteq Bytes
    /\ \A n \in DOMAIN Parsers : Sound(n)

-----------------------------------------------------------------------------
(* The parts of the inductive invariant.                                   *)

\* Each walk stays in its own table.
InTheirTables ==
    /\ pc = "backward" => P.backward /\ state \in P.bwd \cup Outcomes
    /\ pc = "forward" => P.forward /\ state \in P.fwd \cup Outcomes

\* Backwards: the walk stands in the string or in front of it, a state of the
\* table never stands two bytes in front, a match has used two codes, and
\* with the whole string left nothing has been read yet.
BackwardInv ==
    pc = "backward" =>
        /\ strIdx \in -2 .. Len(str) - 1
        /\ state \in P.bwd => strIdx >= -1
        /\ state \in Accepts => strIdx <= Len(str) - 3
        /\ strIdx = Len(str) - 1 => P.bwdFix = << >> /\ state = P.bwdStart

\* The part for the forward table is not empty and lies in the string.
PartInv == pc \in {"begin", "between", "forward"} => ForwardLen \in 1 .. Len(str)

\* Forwards: the walk stands in that part or right behind it.
ForwardInv == pc = "forward" => strIdx \in 0 .. ForwardLen

IInv == TypeOK /\ InTheirTables /\ BackwardInv /\ PartInv

-----------------------------------------------------------------------------
\* What is known of the parser in use and its string.
LEMMA InUse ==
    ASSUME Given, TypeOK
    PROVE  /\ Closed(P) /\ LooksOneByteAhead(P)
           /\ str \in Seq(Bytes) /\ Len(str) \in Nat /\ Len(str) > 0 /\ Len(str) < LevelRange
           /\ LevelRange \in Nat /\ AcceptBase \in Int
BY DEF Given, TypeOK, Sound, Strings, P

\* Reading yields a byte, inside the string or not.
LEMMA ReadsBytes ==
    ASSUME Given, TypeOK, NEW i \in Int, NEW c \in Read(i)
    PROVE  c \in Bytes
BY InUse DEF Given, Read

\* A state is of one kind only: a row of a table, the error, or an accept state.
LEMMA Kinds ==
    ASSUME Given, TypeOK
    PROVE  /\ Real(state) <=> state \in P.fwd \cup P.bwd
           /\ (P.fwd \cup P.bwd) \cap Outcomes = {}
BY InUse DEF Closed, Real

\* Small sums do not wrap.
LEMMA Unwrapped ==
    ASSUME LevelRange \in Nat \ {0}, NEW n \in 0 .. LevelRange - 1
    PROVE  Wrapped(n) = n
BY DEF Wrapped

\* An accept state says how many bytes it used.
LEMMA AcceptKinds ==
    ASSUME NEW k \in 0 .. 8
    PROVE  Accept(k) \in Accepts /\ Accept(k) \in Outcomes
BY DEF Accepts, Outcomes

-----------------------------------------------------------------------------
(* Types.  A walk that stays in its table stays in the types, and conversely. *)

\* Every step keeps the types and leads to a state of the table in use.
LEMMA TypeStep ==
    ASSUME Given, TypeOK, InTheirTables, [Next]_vars
    PROVE  TypeOK' /\ InTheirTables'
<1> USE DEF TypeOK
<1>1. /\ Closed(P)
      /\ Real(state) <=> state \in P.fwd \cup P.bwd
      /\ (P.fwd \cup P.bwd) \cap Outcomes = {}
      /\ Len(str) \in Nat
  BY InUse, Kinds
<1>2. CASE BackwardBegin
  BY <1>1, <1>2 DEF BackwardBegin, Closed, InTheirTables, P
<1>3. CASE BackwardNoSuffix
  BY <1>3 DEF BackwardNoSuffix, Return, InTheirTables, P
<1>4. CASE BackwardStep
  <2>1. PICK c \in Read(strIdx) : state' = P.next[state][c]
    BY <1>4 DEF BackwardStep
  <2>2. c \in Bytes /\ state \in P.bwd
    BY <1>1, <1>4, <2>1, ReadsBytes DEF BackwardStep, BackwardGoesOn, InTheirTables
  <2>3. state' \in P.bwd \cup Outcomes
    BY <1>1, <2>1, <2>2 DEF Closed
  <2> QED
    BY <1>4, <2>3 DEF BackwardStep, InTheirTables, P
<1>5. CASE BackwardAccept
  BY <1>5 DEF BackwardAccept, InTheirTables, P
<1>6. CASE BackwardStop
  <2>1. CASE P.pseudo[state] # NoEnd
    BY <1>1, <1>6, <2>1 DEF BackwardStop, Closed, InTheirTables, P
  <2>2. CASE P.pseudo[state] = NoEnd
    BY <1>6, <2>2 DEF BackwardStop, Return, InTheirTables, P
  <2> QED
    BY <2>1, <2>2
<1>7. CASE BackwardError
  BY <1>7 DEF BackwardError, Return, InTheirTables, P
<1>8. CASE NoForwardTable
  BY <1>8 DEF NoForwardTable, Return, InTheirTables, P
<1>9. CASE ForwardBegin
  BY <1>1, <1>9 DEF ForwardBegin, Closed, InTheirTables, P
<1>10. CASE ForwardNoPrefix
  BY <1>10 DEF ForwardNoPrefix, Return, InTheirTables, P
<1>11. CASE ForwardStep \/ ForwardLeave
  <2>1. PICK c \in Read(strIdx) : state' = P.next[state][c]
    BY <1>11 DEF ForwardStep, ForwardLeave
  <2>2. c \in Bytes /\ state \in P.fwd
    BY <1>1, <1>11, <2>1, ReadsBytes DEF ForwardStep, ForwardLeave, ForwardGoesOn, InTheirTables
  <2>3. state' \in P.fwd \cup Outcomes
    BY <1>1, <2>1, <2>2 DEF Closed
  <2> QED
    BY <1>11, <2>3 DEF ForwardStep, ForwardLeave, InTheirTables, P
<1>12. CASE ForwardSkip
  BY <1>12 DEF ForwardSkip, InTheirTables, P
<1>13. CASE ForwardAccept
  BY <1>13 DEF ForwardAccept, InTheirTables, P
<1>14. CASE ForwardStop \/ ForwardError
  BY <1>14 DEF ForwardStop, ForwardError, Return, InTheirTables, P
<1>15. CASE UNCHANGED vars
  BY <1>15 DEF vars, InTheirTables, P
<1> QED
  BY <1>2, <1>3, <1>4, <1>5, <1>6, <1>7, <1>8, <1>9, <1>10, <1>11, <1>12, <1>13, <1>14, <1>15
     DEF Next, Backward, Forward

-----------------------------------------------------------------------------
(* Where the walks stand.                                                  *)

\* The loop condition of the backward walk: a state of its table that stands
\* in the string, or in front of it if its level is 0.
LEMMA BackwardRow ==
    ASSUME Given, TypeOK, InTheirTables, BackwardInv, pc = "backward", Real(state)
    PROVE  /\ state \in P.bwd
           /\ strIdx \in -1 .. Len(str) - 1
           /\ BackwardGoesOn <=> strIdx + 1 >= P.level[state]
           /\ P.level[state] \in Nat
<1>1. state \in P.bwd /\ strIdx \in -1 .. Len(str) - 1
  BY InUse, Kinds DEF InTheirTables, BackwardInv
<1>2. Wrapped(strIdx + 1) = strIdx + 1
  BY <1>1, InUse, Unwrapped DEF Given
<1>3. P.level[state] \in Nat
  BY <1>1, InUse DEF Closed
<1> QED
  BY <1>1, <1>2, <1>3 DEF BackwardGoesOn

\* The backward index moves by one, and stays within two of the string.
LEMMA BackwardStepKeeps ==
    ASSUME Given, IInv, BackwardStep
    PROVE  BackwardInv'
<1> USE DEF IInv
<1>1. PICK c \in Read(strIdx) : state' = P.next[state][c]
  BY DEF BackwardStep
<1>2. c \in Bytes
  BY <1>1, ReadsBytes DEF TypeOK
<1>3. /\ state \in P.bwd
      /\ strIdx \in -1 .. Len(str) - 1
      /\ strIdx + 1 >= P.level[state]
      /\ P.level[state] \in Nat
      /\ P.backward
  BY BackwardRow DEF BackwardStep, BackwardGoesOn, InTheirTables
<1>4. /\ strIdx' = strIdx - 1 /\ UNCHANGED <<parser, str>> /\ P' = P
      /\ Len(str) \in Nat
      /\ LooksOneByteAhead(P)
  BY InUse DEF BackwardStep, P
<1>5. strIdx' \in -2 .. Len(str) - 1 /\ strIdx' # Len(str) - 1
  BY <1>3, <1>4
<1>6. ASSUME state' \in P.bwd PROVE strIdx' >= -1
  <2>1. P.level[state] # 0
    BY <1>1, <1>2, <1>3, <1>4, <1>6 DEF LooksOneByteAhead
  <2> QED
    BY <1>3, <1>4, <2>1
<1>7. ASSUME state' \in Accepts PROVE strIdx' <= Len(str) - 3
  <2>1. ~(P.bwdFix = << >> /\ state = P.bwdStart)
    BY <1>1, <1>2, <1>3, <1>4, <1>7 DEF LooksOneByteAhead
  <2>2. strIdx # Len(str) - 1
    BY <2>1 DEF BackwardInv, BackwardStep
  <2> QED
    BY <1>3, <1>4, <2>2
<1> QED
  BY <1>4, <1>5, <1>6, <1>7 DEF BackwardInv

\* The part that a match of the end leaves for the forward table.
LEMMA PartIsLeft ==
    ASSUME Given, IInv, BackwardAccept \/ BackwardStop
    PROVE  PartInv'
<1> USE DEF IInv
<1>1. Len(str) \in Nat /\ Closed(P) /\ LooksOneByteAhead(P)
  BY InUse
<1>2. CASE BackwardAccept
  <2>1. state \in Accepts
    BY <1>2, AcceptKinds DEF BackwardAccept
  <2>2. strIdx \in -2 .. Len(str) - 3
    BY <1>1, <1>2, <2>1 DEF BackwardInv, BackwardAccept
  <2> QED
    BY <1>1, <1>2, <2>2 DEF BackwardAccept, PartInv, ForwardLen
<1>3. CASE BackwardStop
  <2>1. /\ state \in P.bwd /\ P.backward
        /\ strIdx \in -1 .. Len(str) - 1
        /\ ~(strIdx + 1 >= P.level[state])
    BY <1>3, BackwardRow DEF BackwardStop, InTheirTables
  <2>2. P.level[state] # 0
    BY <1>1, <2>1
  <2>3. P.pseudo[state] = NoEnd
    BY <1>1, <2>1, <2>2 DEF LooksOneByteAhead
  <2> QED
    BY <1>3, <2>3 DEF BackwardStop, Return, PartInv
<1> QED
  BY <1>2, <1>3

\* Every step keeps the backward index and the forward part in their places.
LEMMA PlaceStep ==
    ASSUME Given, IInv, [Next]_vars
    PROVE  BackwardInv' /\ PartInv'
<1> USE DEF IInv
<1>1. /\ Closed(P) /\ Len(str) \in Nat /\ Len(str) > 0
      /\ (P.fwd \cup P.bwd) \cap Outcomes = {}
  BY InUse, Kinds
<1>2. CASE BackwardBegin
  <2>1. P.bwdStart \in P.bwd /\ P.bwdStart \notin Accepts
    BY <1>1, <1>2 DEF BackwardBegin, Closed, Outcomes
  <2>2. Len(P.bwdFix) \in 0 .. Len(str)
    BY <1>1, <1>2 DEF BackwardBegin, EndsWith, Closed
  <2>3. Len(P.bwdFix) = 0 => P.bwdFix = << >>
    BY <1>1 DEF Closed
  <2> QED
    BY <1>1, <1>2, <2>1, <2>2, <2>3 DEF BackwardBegin, BackwardInv, PartInv, P
<1>3. CASE BackwardNoSuffix \/ BackwardError \/ NoForwardTable \/ ForwardNoPrefix
           \/ ForwardStop \/ ForwardError
  BY <1>3 DEF BackwardNoSuffix, BackwardError, NoForwardTable, ForwardNoPrefix,
              ForwardStop, ForwardError, Return, BackwardInv, PartInv
<1>4. CASE BackwardStep
  BY <1>4, BackwardStepKeeps DEF BackwardStep, PartInv
<1>5. CASE BackwardAccept \/ BackwardStop
  BY <1>5, PartIsLeft DEF BackwardAccept, BackwardStop, Return, BackwardInv
<1>6. CASE ForwardBegin
  BY <1>6 DEF ForwardBegin, AtForward, BackwardInv, PartInv, ForwardLen
<1>7. CASE ForwardStep \/ ForwardSkip \/ ForwardLeave
  BY <1>7 DEF ForwardStep, ForwardSkip, ForwardLeave, BackwardInv, PartInv, ForwardLen
<1>8. CASE ForwardAccept
  BY <1>8 DEF ForwardAccept, BackwardInv, PartInv
<1>9. CASE UNCHANGED vars
  BY <1>9 DEF vars, BackwardInv, PartInv, ForwardLen, P
<1> QED
  BY <1>2, <1>3, <1>4, <1>5, <1>6, <1>7, <1>8, <1>9 DEF Next, Backward, Forward

-----------------------------------------------------------------------------
\* In the beginning.
LEMMA InitIInv ==
    ASSUME Given, Init
    PROVE  IInv
<1>1. str \in Strings /\ Len(str) \in Nat
  BY DEF Given, Init, Sound, Strings
<1>2. TypeOK
  <2>1. state \in P.fwd \cup P.bwd \cup Outcomes
    BY DEF Init, Outcomes
  <2>2. backIdx \in Int /\ strIdx \in Int /\ backSym \in 0 .. 8 /\ symIdx \in 0 .. 8
    BY <1>1 DEF Init
  <2> QED
    BY <2>1, <2>2 DEF Init, TypeOK
<1>3. InTheirTables /\ BackwardInv
  BY DEF Init, InTheirTables, BackwardInv
<1>4. PartInv
  BY <1>1 DEF Init, PartInv, ForwardLen, Strings
<1> QED
  BY <1>2, <1>3, <1>4 DEF IInv

\* The invariant holds in every state of the matcher.
THEOREM Invariance ==
    ASSUME Given
    PROVE  Spec => []IInv
<1>1. Init => IInv
  BY InitIInv
<1>2. IInv /\ [Next]_vars => IInv'
  BY TypeStep, PlaceStep DEF IInv
<1> QED
  BY <1>1, <1>2, PTL DEF Spec

\* Every variable of the matcher keeps its type: in particular no row leads
\* a walk out of the states of its table other than to a verdict.
THEOREM TypeCorrect ==
    ASSUME Given
    PROVE  Spec => []TypeOK
<1>1. IInv => TypeOK
  BY DEF IInv
<1> QED
  BY <1>1, Invariance, PTL

\* Whatever state the backward walk stops in, the forward walk is given a
\* part of the string that is not empty and does not reach beyond its end.
THEOREM PartInside ==
    ASSUME Given
    PROVE  Spec => []ForwardPartInside
<1>1. IInv => ForwardPartInside
  BY DEF IInv, PartInv, ForwardPartInside
<1> QED
  BY <1>1, Invariance, PTL

\* Backwards no byte is read that lies more than one in front of the string.
THEOREM InFront ==
    ASSUME Given
    PROVE  Spec => []ReadsOneByteInFront
<1>1. IInv => ReadsOneByteInFront
  BY BackwardRow DEF IInv, ReadsOneByteInFront, BackwardGoesOn
<1> QED
  BY <1>1, Invariance, PTL
-----------------------------------------------------------------------------
(* Forwards, the loop is only as good as the levels.                       *)

\* With finite levels the forward loop only goes on inside its part.
LEMMA ForwardRow ==
    ASSUME Given, IInv, ForwardInv, LevelsAreFinite(parser), pc = "forward", ForwardGoesOn
    PROVE  strIdx \in 0 .. ForwardLen - 1 /\ ForwardLen \in 1 .. Len(str)
<1> USE DEF IInv
<1>1. /\ Closed(P)
      /\ Len(str) \in Nat /\ LevelRange \in Nat
  BY InUse
<1>2. state \in P.fwd
  BY Kinds DEF InTheirTables, ForwardGoesOn
<1>3. P.level[state] \in Nat /\ P.level[state] >= 1 /\ P.level[state] + Len(str) < LevelRange
  BY <1>1, <1>2 DEF LevelsAreFinite, TypeOK, P, Closed
<1>4. ForwardLen \in 1 .. Len(str) /\ strIdx \in 0 .. ForwardLen
  BY DEF PartInv, ForwardInv
<1>5. Wrapped(strIdx + P.level[state]) = strIdx + P.level[state]
  <2>1. strIdx + P.level[state] \in 0 .. LevelRange - 1
    BY <1>1, <1>3, <1>4
  <2> QED
    BY <2>1, Unwrapped DEF Given
<1> QED
  BY <1>1, <1>3, <1>4, <1>5 DEF ForwardGoesOn

\* The forward index never passes the end of its part.
LEMMA ForwardStepKeeps ==
    ASSUME Given, IInv, ForwardInv, LevelsAreFinite(parser), [Next]_vars
    PROVE  ForwardInv'
<1> USE DEF IInv
<1>1. Len(str) \in Nat /\ Closed(P)
  BY InUse
<1>2. CASE ForwardBegin
  <2>1. Len(P.fwdFix) \in 0 .. ForwardLen
    BY <1>1, <1>2 DEF ForwardBegin, StartsWith, Closed
  <2> QED
    BY <1>2, <2>1 DEF ForwardBegin, ForwardInv, ForwardLen
<1>3. CASE ForwardStep \/ ForwardSkip \/ ForwardLeave
  <2>1. strIdx \in 0 .. ForwardLen - 1 /\ ForwardLen \in 1 .. Len(str)
    BY <1>3, ForwardRow DEF ForwardStep, ForwardSkip, ForwardLeave
  <2> QED
    BY <1>1, <1>3, <2>1 DEF ForwardStep, ForwardSkip, ForwardLeave, ForwardInv, ForwardLen
<1>4. CASE Backward
  BY <1>4 DEF Backward, BackwardBegin, BackwardNoSuffix, BackwardStep, BackwardAccept,
              BackwardStop, BackwardError, Return, ForwardInv
<1>5. CASE NoForwardTable \/ ForwardNoPrefix \/ ForwardStop \/ ForwardError \/ ForwardAccept
  BY <1>5 DEF NoForwardTable, ForwardNoPrefix, ForwardStop, ForwardError, ForwardAccept,
              Return, ForwardInv
<1>6. CASE UNCHANGED vars
  BY <1>6 DEF vars, ForwardInv, ForwardLen
<1> QED
  BY <1>2, <1>3, <1>4, <1>5, <1>6 DEF Next, Forward

\* If no level of the forward tables is so large that it wraps, no byte behind
\* the part of the string given to the forward walk is ever read; a level
\* that does wrap is what the hypothesis excludes.
THEOREM NothingBehind ==
    ASSUME Given, \A n \in DOMAIN Parsers : LevelsAreFinite(n)
    PROVE  Spec => []ReadsNothingBehind
<1>1. Init => ForwardInv
  BY DEF Init, ForwardInv
<1>2. IInv /\ ForwardInv /\ [Next]_vars => ForwardInv'
  BY ForwardStepKeeps DEF IInv, TypeOK
<1>3. IInv /\ ForwardInv => ReadsNothingBehind
  BY ForwardRow DEF ReadsNothingBehind, IInv, TypeOK
<1> QED
  BY <1>1, <1>2, <1>3, Invariance, PTL DEF Spec

\* With finite levels the two walks read the string and the one byte in front
\* of it, whatever the tables.
THEOREM Nearby ==
    ASSUME Given, \A n \in DOMAIN Parsers : LevelsAreFinite(n)
    PROVE  Spec => []ReadsNearby
<1>1. ReadsOneByteInFront /\ ReadsNothingBehind => ReadsNearby
  BY DEF ReadsNearby
<1> QED
  BY <1>1, InFront, NothingBehind, PTL

-----------------------------------------------------------------------------
(* The answer.                                                             *)

\* How many codes there are behind the fixed beginning, and in front of the
\* fixed end.
Behind == Len(str) - Len(P.fwdFix)
InFrontOf == Len(str) - Len(P.bwdFix)

\* Nothing has been matched in the beginning, or there is nothing to match.
StartInv == (pc = "begin" \/ ~P.backward) => backIdx = Len(str) - 1 /\ backSym = 8

\* The backward walk is where the tables lead on the codes read, or has read
\* the byte in front of the string and found it a match.
BackwardWalked ==
    pc = "backward" =>
        /\ Ends(str, P.bwdFix)
        /\ \/ /\ strIdx \in -1 .. InFrontOf - 1
              /\ Arrives(BackwardWalk(P, str), P.next, InFrontOf - 1 - strIdx, state)
           \/ /\ strIdx = -2
              /\ \E s \in P.bwd : /\ Arrives(BackwardWalk(P, str), P.next, InFrontOf, s)
                                  /\ P.level[s] = 0
                                  /\ state = Accept(P.pseudo[s])

\* The end matches where the backward walk says, and nowhere else.
EndFound == pc \in {"between", "forward"} => EndIsAt(P, str, backIdx, backSym)

\* The forward walk is where the table leads on the codes read.
ForwardWalked ==
    pc = "forward" =>
        /\ Begins(str, P.fwdFix)
        /\ strIdx - Len(P.fwdFix) \in 0 .. Behind
        /\ Arrives(ForwardWalk(P, str), P.next, strIdx - Len(P.fwdFix), state)

Answered == pc = "done" => result = Verdict(P, str)

VerdictInv == StartInv /\ BackwardWalked /\ EndFound /\ ForwardWalked /\ Answered

\* What the steps below all assume: the levels are good, and the invariants
\* of the places hold.
Good ==
    /\ Given /\ OutcomesDiffer
    /\ LevelsAreFinite(parser) /\ LevelsAreHonest(P)
    /\ IInv /\ ForwardInv

\* What is known then.
LEMMA GoodFacts ==
    ASSUME Good
    PROVE  /\ Closed(P) /\ LooksOneByteAhead(P) /\ OutcomesDiffer
           /\ str \in Seq(Bytes) /\ Len(str) \in Nat /\ Len(str) > 0
           /\ Len(P.fwdFix) \in Nat /\ Len(P.bwdFix) \in Nat
           /\ LevelsAreHonest(P) /\ LevelsAreFinite(parser)
           /\ \A s \in Outcomes : s \notin DOMAIN P.next
           /\ \A s \in P.bwd \cup P.fwd : s \in DOMAIN P.next
           /\ \A s \in P.bwd \cup P.fwd : P.level[s] \in Nat /\ P.pseudo[s] \in 0 .. 8 \cup {NoEnd}
           /\ strIdx \in Int /\ backIdx \in Int /\ backSym \in 0 .. 8
<1>1. Closed(P) /\ LooksOneByteAhead(P)
  BY InUse DEF Good, IInv
<1> QED
  BY <1>1, InUse DEF Good, IInv, TypeOK, Closed

\* Comparing the fixed ends is what Begins and Ends say.
LEMMA FixedParts ==
    /\ StartsWith(P.fwdFix) <=> Len(P.fwdFix) <= ForwardLen /\ \A i \in 1 .. Len(P.fwdFix) : str[i] = P.fwdFix[i]
    /\ EndsWith(P.bwdFix) <=> Ends(str, P.bwdFix)
BY DEF StartsWith, EndsWith, Ends

\* The walk of the end begins in its start state, with no code read.
LEMMA WalkBegins ==
    ASSUME Good
    PROVE  /\ P.backward /\ Ends(str, P.bwdFix)
              => InFrontOf \in Nat /\ Arrives(BackwardWalk(P, str), P.next, 0, P.bwdStart)
           /\ P.forward /\ Begins(str, P.fwdFix)
              => Behind \in Nat /\ Arrives(ForwardWalk(P, str), P.next, 0, P.fwdStart)
<1>1. ASSUME P.backward, Ends(str, P.bwdFix)
      PROVE  InFrontOf \in Nat /\ Arrives(BackwardWalk(P, str), P.next, 0, P.bwdStart)
  <2>1. Len(P.bwdFix) <= Len(str)
    BY <1>1 DEF Ends
  <2> DEFINE word == [i \in 1 .. InFrontOf |-> str[InFrontOf + 1 - i]]
  <2>2. InFrontOf \in Nat /\ Steps(BackwardWalk(P, str), P.next, P.bwdStart, word, InFrontOf)
    BY <1>1, <2>1, GoodFacts, BackwardSteps DEF InFrontOf
  <2> HIDE DEF word
  <2> QED
    BY <2>2 DEF Steps, Arrives
<1>2. ASSUME P.forward, Begins(str, P.fwdFix)
      PROVE  Behind \in Nat /\ Arrives(ForwardWalk(P, str), P.next, 0, P.fwdStart)
  <2>1. Len(P.fwdFix) <= Len(str)
    BY <1>2 DEF Begins
  <2> DEFINE word == [i \in 1 .. Behind |-> str[Len(P.fwdFix) + i]]
  <2>2. Behind \in Nat /\ Steps(ForwardWalk(P, str), P.next, P.fwdStart, word, Behind)
    BY <1>2, <2>1, GoodFacts, ForwardSteps DEF Behind
  <2> HIDE DEF word
  <2> QED
    BY <2>2 DEF Steps, Arrives
<1> QED
  BY <1>1, <1>2

\* A step of the backward loop.
LEMMA BackwardStepWalks ==
    ASSUME Good, BackwardWalked, BackwardStep
    PROVE  BackwardWalked'
<1>1. PICK c \in Read(strIdx) : state' = P.next[state][c]
  BY DEF BackwardStep
<1>2. /\ state \in P.bwd /\ P.backward
      /\ strIdx \in -1 .. Len(str) - 1
      /\ strIdx + 1 >= P.level[state] /\ P.level[state] \in Nat
  BY BackwardRow DEF BackwardStep, BackwardGoesOn, Good, IInv, InTheirTables
<1>3. UNCHANGED <<parser, str, pc>> /\ strIdx' = strIdx - 1 /\ P' = P /\ pc = "backward"
  BY DEF BackwardStep, P
<1> DEFINE j == InFrontOf - 1 - strIdx
<1>4. /\ Ends(str, P.bwdFix)
      /\ strIdx \in -1 .. InFrontOf - 1
      /\ Arrives(BackwardWalk(P, str), P.next, j, state)
  BY <1>2, <1>3 DEF BackwardWalked
<1>5. InFrontOf \in Nat /\ InFrontOf' = InFrontOf
  BY <1>2, <1>3, <1>4, WalkBegins DEF InFrontOf
<1>6. CASE strIdx >= 0
  <2>1. Len(P.bwdFix) <= Len(str)
    BY <1>4 DEF Ends
  <2>2. j \in 0 .. InFrontOf - 1 /\ InFrontOf - j = strIdx + 1
    BY <1>4, <1>5, <1>6
  <2>3. c = str[InFrontOf - j]
    BY <1>1, <1>2, <1>6, <2>2 DEF Read
  <2>4. Arrives(BackwardWalk(P, str), P.next, j + 1, P.next[state][str[InFrontOf - j]])
    <3> HIDE DEF j
    <3> QED
      BY <1>2, <1>4, <2>1, <2>2, GoodFacts, BackwardGoes DEF InFrontOf
  <2>5. j + 1 = InFrontOf - 1 - strIdx' /\ strIdx' \in -1 .. InFrontOf - 1
    BY <1>3, <1>4, <1>5, <1>6
  <2> QED
    BY <1>1, <1>3, <1>4, <1>5, <2>3, <2>4, <2>5 DEF BackwardWalked
<1>7. CASE strIdx = -1
  <2>1. j = InFrontOf /\ strIdx' = -2 /\ P.level[state] = 0
    BY <1>2, <1>3, <1>5, <1>7
  <2>2. c \in Outside
    BY <1>1, <1>7, GoodFacts DEF Read
  <2>3. state' = Accept(P.pseudo[state])
    BY <1>1, <1>2, <2>1, <2>2, GoodFacts DEF LevelsAreHonest
  <2> QED
    BY <1>2, <1>3, <1>4, <1>5, <2>1, <2>3 DEF BackwardWalked
<1> QED
  BY <1>2, <1>6, <1>7

\* An accept state tells where the end matches.
LEMMA BackwardAcceptFinds ==
    ASSUME Good, BackwardWalked, BackwardAccept
    PROVE  EndFound'
<1>1. PICK k \in 0 .. 8 : state = Accept(k) /\ backSym' = k
  BY DEF BackwardAccept
<1>2. /\ UNCHANGED <<parser, str>> /\ P' = P
      /\ backIdx' = strIdx + 2
      /\ P.backward /\ pc = "backward"
      /\ Ends(str, P.bwdFix)
  BY DEF BackwardAccept, P, Good, IInv, InTheirTables, BackwardWalked
<1>3. InFrontOf \in Nat
  BY <1>2, WalkBegins
<1>4. CASE /\ strIdx \in -1 .. InFrontOf - 1
           /\ Arrives(BackwardWalk(P, str), P.next, InFrontOf - 1 - strIdx, state)
  <2> DEFINE j == InFrontOf - 1 - strIdx
  <2>1. /\ j \in 0 .. InFrontOf /\ Arrives(BackwardWalk(P, str), P.next, j, Accept(k))
        /\ InFrontOf + 1 - j = strIdx + 2
    BY <1>1, <1>3, <1>4
  <2> HIDE DEF j
  <2>2. EndIsAt(P, str, InFrontOf + 1 - j, k)
    BY <1>2, <2>1, GoodFacts, BackwardMatch DEF InFrontOf
  <2> QED
    BY <1>1, <1>2, <2>1, <2>2 DEF EndFound
<1>5. CASE strIdx = -2
  <2>1. PICK s \in P.bwd : /\ Arrives(BackwardWalk(P, str), P.next, InFrontOf, s)
                           /\ P.level[s] = 0
                           /\ state = Accept(P.pseudo[s])
    BY <1>2, <1>5 DEF BackwardWalked
  <2>2. P.pseudo[s] \in 0 .. 8
    BY <2>1, GoodFacts DEF LevelsAreHonest
  <2>3. P.pseudo[s] = k
    BY <1>1, <2>1, <2>2, GoodFacts, AcceptStates
  <2>4. EndIsAt(P, str, 0, P.pseudo[s])
    BY <1>2, <2>1, GoodFacts, BackwardMatchInFront DEF InFrontOf
  <2> QED
    BY <1>1, <1>2, <1>5, <2>3, <2>4 DEF EndFound
<1> QED
  BY <1>2, <1>4, <1>5 DEF BackwardWalked

\* Whenever the search for the end gives up, the end matches nowhere.
LEMMA BackwardGivesUp ==
    ASSUME Good, BackwardWalked, BackwardNoSuffix \/ BackwardError \/ BackwardStop
    PROVE  pc' = "done" /\ Answered'
<1>1. UNCHANGED <<parser, str>> /\ P' = P
  BY DEF BackwardNoSuffix, BackwardError, BackwardStop, Return, P
<1>2. CASE BackwardNoSuffix
  <2>1. /\ P.backward /\ ~Ends(str, P.bwdFix)
        /\ pc' = "done" /\ result' = FALSE
    BY <1>2, FixedParts DEF BackwardNoSuffix, Return
  <2>2. \A b \in Int, k \in 0 .. 8 : ~EndMatches(P, str, b, k)
    BY <2>1 DEF EndMatches
  <2> QED
    BY <1>1, <2>1, <2>2, GoodFacts, NoVerdict DEF Answered
<1>3. CASE BackwardError
  <2>1. /\ P.backward /\ Ends(str, P.bwdFix) /\ state = Error
        /\ pc' = "done" /\ result' = FALSE
    BY <1>3 DEF BackwardError, Return, Good, IInv, InTheirTables, BackwardWalked
  <2>2. InFrontOf \in Nat
    BY <2>1, WalkBegins
  <2> DEFINE j == InFrontOf - 1 - strIdx
  <2>3. strIdx # -2
    <3> SUFFICES ASSUME strIdx = -2 PROVE FALSE
      OBVIOUS
    <3>0. strIdx \notin -1 .. InFrontOf - 1
      BY <2>2
    <3>1. PICK s \in P.bwd : P.level[s] = 0 /\ state = Accept(P.pseudo[s])
      BY <1>3, <3>0, Zenon DEF BackwardWalked, BackwardError
    <3>2. P.pseudo[s] \in 0 .. 8
      BY <3>1, GoodFacts DEF LevelsAreHonest
    <3> QED
      BY <2>1, <3>1, <3>2, GoodFacts, AcceptStates
  <2>4. strIdx \in -1 .. InFrontOf - 1 /\ Arrives(BackwardWalk(P, str), P.next, j, Error)
    BY <1>3, <2>1, <2>3 DEF BackwardWalked, BackwardError
  <2>5. j \in 0 .. InFrontOf
    BY <2>2, <2>4
  <2> HIDE DEF j
  <2>6. \A b \in Int, k \in 0 .. 8 : ~EndMatches(P, str, b, k)
    BY <2>1, <2>4, <2>5, GoodFacts, BackwardLost DEF InFrontOf
  <2> QED
    BY <1>1, <2>1, <2>6, GoodFacts, NoVerdict DEF Answered
<1>4. CASE BackwardStop
  <2>1. /\ state \in P.bwd /\ P.backward /\ pc = "backward"
        /\ strIdx \in -1 .. Len(str) - 1
        /\ ~(strIdx + 1 >= P.level[state])
        /\ P.level[state] \in Nat
    BY <1>4, BackwardRow DEF BackwardStop, Good, IInv, InTheirTables
  <2>2. P.pseudo[state] = NoEnd
    <3>1. P.level[state] # 0
      BY <2>1
    <3> QED
      BY <2>1, <3>1, GoodFacts DEF LevelsAreHonest
  <2>3. pc' = "done" /\ result' = FALSE
    BY <1>4, <2>2 DEF BackwardStop, Return
  <2> DEFINE j == InFrontOf - 1 - strIdx
  <2>4. /\ Ends(str, P.bwdFix)
        /\ strIdx \in -1 .. InFrontOf - 1
        /\ Arrives(BackwardWalk(P, str), P.next, j, state)
    BY <2>1 DEF BackwardWalked
  <2>5. InFrontOf \in Nat
    BY <2>1, <2>4, WalkBegins
  <2>6. j \in 0 .. InFrontOf /\ InFrontOf - j = strIdx + 1
    BY <2>4, <2>5
  <2> HIDE DEF j
  <2>7. ASSUME NEW b \in Int, NEW k \in 0 .. 8, EndMatches(P, str, b, k) PROVE FALSE
    <3>1. b >= 0 /\ b + j + P.level[state] <= InFrontOf
      BY <2>1, <2>4, <2>6, <2>7, GoodFacts, BackwardAhead DEF InFrontOf
    <3> QED
      BY <2>1, <2>5, <2>6, <3>1
  <2> QED
    BY <1>1, <2>1, <2>3, <2>7, GoodFacts, NoVerdict DEF Answered
<1> QED
  BY <1>2, <1>3, <1>4

\* A byte that the forward loop reads is a code of its part, and the walk goes
\* on with it; skipping it is going on, too.
LEMMA ForwardStepWalks ==
    ASSUME Good, ForwardWalked, ForwardStep \/ ForwardSkip \/ ForwardLeave
    PROVE  ForwardWalked'
<1>1. /\ pc = "forward" /\ P.forward /\ state \in P.fwd
      /\ strIdx \in 0 .. ForwardLen - 1 /\ ForwardLen \in 1 .. Len(str)
  <2>1. pc = "forward" /\ ForwardGoesOn
    BY DEF ForwardStep, ForwardSkip, ForwardLeave
  <2> QED
    BY <2>1, ForwardRow, Kinds DEF Good, IInv, InTheirTables, ForwardGoesOn
<1>2. UNCHANGED <<parser, str, pc>> /\ strIdx' = strIdx + 1 /\ P' = P
  BY DEF ForwardStep, ForwardSkip, ForwardLeave, P
<1> DEFINE c == str[strIdx + 1]
<1>3. Read(strIdx) = {c} /\ c \in Bytes
  <2>1. Len(str) \in Nat /\ str \in Seq(Bytes)
    BY GoodFacts
  <2>2. strIdx \in 0 .. Len(str) - 1 /\ strIdx + 1 \in 1 .. Len(str)
    BY <1>1, <2>1
  <2> QED
    BY <2>1, <2>2 DEF Read
<1>4. state' = P.next[state][c]
  <2>1. CASE ForwardStep \/ ForwardLeave
    BY <1>3, <2>1 DEF ForwardStep, ForwardLeave
  <2>2. CASE ForwardSkip
    <3>1. state \in P.skipping /\ c \in Bytes \ P.bits[state] /\ state' = state
      BY <1>3, <2>2 DEF ForwardSkip
    <3> QED
      BY <3>1, GoodFacts DEF LevelsAreHonest
  <2> QED
    BY <2>1, <2>2
<1>5. /\ Begins(str, P.fwdFix)
      /\ strIdx - Len(P.fwdFix) \in 0 .. Behind
      /\ Arrives(ForwardWalk(P, str), P.next, strIdx - Len(P.fwdFix), state)
  BY <1>1 DEF ForwardWalked
<1> DEFINE fixed == Len(P.fwdFix)
           j == strIdx - fixed
<1>6. fixed \in Nat /\ fixed <= Len(str) /\ Behind = Len(str) - fixed /\ Behind' = Behind
  BY <1>2, <1>5, GoodFacts DEF Begins, Behind
<1>7. j \in 0 .. Len(str) - fixed - 1 /\ fixed + j + 1 = strIdx + 1 /\ j + 1 = strIdx' - fixed
  <2> HIDE DEF fixed
  <2>1. j \in 0 .. Len(str) - fixed
    BY <1>5, <1>6 DEF fixed
  <2> QED
    BY <1>1, <1>2, <1>6, <2>1, GoodFacts
<1>8. Arrives(ForwardWalk(P, str), P.next, j + 1, P.next[state][str[fixed + j + 1]])
  <2>1. Arrives(ForwardWalk(P, str), P.next, j, state) /\ state \in DOMAIN P.next
    BY <1>1, <1>5, GoodFacts
  <2> HIDE DEF j
  <2> QED
    BY <1>1, <1>6, <1>7, <2>1, GoodFacts, ForwardGoes
<1>9. Arrives(ForwardWalk(P, str), P.next, strIdx' - fixed, state') /\ strIdx' - fixed \in 0 .. Behind
  BY <1>4, <1>6, <1>7, <1>8
<1> QED
  BY <1>2, <1>5, <1>6, <1>9 DEF ForwardWalked

\* Where the end matches, with or without a backward table.
LEMMA EndKnown ==
    ASSUME Good, StartInv, EndFound, AtForward \/ pc = "forward"
    PROVE  /\ EndIsAt(P, str, backIdx, backSym)
           /\ backIdx \in 0 .. Len(str) - 1 /\ backSym \in 0 .. 8
           /\ ForwardLen = backIdx + 1
<1>1. EndIsAt(P, str, backIdx, backSym)
  BY DEF AtForward, StartInv, EndFound, EndIsAt
<1>2. ForwardLen \in 1 .. Len(str)
  BY DEF AtForward, Good, IInv, PartInv
<1> QED
  BY <1>1, <1>2, GoodFacts DEF ForwardLen

\* Every answer of the forward part is the verdict.
LEMMA ForwardAnswers ==
    ASSUME Good, StartInv, EndFound, ForwardWalked,
           \/ NoForwardTable \/ ForwardNoPrefix
           \/ ForwardAccept \/ ForwardStop \/ ForwardError
    PROVE  pc' = "done" /\ Answered'
<1>1. UNCHANGED <<parser, str>> /\ P' = P
  BY DEF NoForwardTable, ForwardNoPrefix, ForwardAccept, ForwardStop, ForwardError, Return, P
<1>2. /\ EndIsAt(P, str, backIdx, backSym)
      /\ backIdx \in 0 .. Len(str) - 1 /\ backSym \in 0 .. 8
      /\ ForwardLen = backIdx + 1
  BY EndKnown DEF NoForwardTable, ForwardNoPrefix, ForwardAccept, ForwardStop, ForwardError
<1>3. Len(str) \in Nat /\ str \in Seq(Bytes) /\ Closed(P) /\ OutcomesDiffer /\ Len(P.fwdFix) \in Nat
  BY GoodFacts
<1>4. CASE NoForwardTable
  <2>1. pc' = "done" /\ result' = TRUE /\ ~P.forward
    BY <1>4 DEF NoForwardTable, Return
  <2>2. Verdict(P, str)
    BY <1>2, <1>3, <2>1, VerdictAt
  <2>3. Verdict(P, str) = TRUE
    BY <2>2 DEF Verdict
  <2> QED
    BY <1>1, <2>1, <2>3 DEF Answered
<1>5. CASE ForwardNoPrefix
  <2>1. pc' = "done" /\ result' = FALSE /\ P.forward /\ ~StartsWith(P.fwdFix)
    BY <1>5 DEF ForwardNoPrefix, Return
  <2>2. ASSUME NEW n \in 0 .. backIdx + 1, NEW m \in 0 .. 8, BeginMatches(P, str, n, m)
        PROVE  FALSE
    <3>1. Len(P.fwdFix) > ForwardLen
      BY <1>2, <1>3, <2>1, <2>2, FixedParts DEF BeginMatches, Begins
    <3>2. n - Len(P.fwdFix) \in 0 .. Behind
      <4>1. Len(P.fwdFix) <= Len(str)
        BY <2>2 DEF BeginMatches, Begins
      <4> DEFINE word == [i \in 1 .. Behind |-> str[Len(P.fwdFix) + i]]
      <4>2. Steps(ForwardWalk(P, str), P.next, P.fwdStart, word, Behind)
        BY <1>3, <2>1, <4>1, ForwardSteps DEF Behind
      <4> HIDE DEF word
      <4> QED
        BY <2>2, <4>2 DEF BeginMatches, Steps
    <3> QED
      BY <1>2, <1>3, <3>1, <3>2
  <2>3. Verdict(P, str) = FALSE
    BY <1>2, <1>3, <2>1, <2>2, VerdictOfNone
  <2> QED
    BY <1>1, <2>1, <2>3 DEF Answered
<1>6. CASE ForwardAccept \/ ForwardStop \/ ForwardError
  <2> DEFINE j == strIdx - Len(P.fwdFix)
  <2>1. /\ pc = "forward" /\ P.forward
        /\ Begins(str, P.fwdFix)
        /\ j \in 0 .. Len(str) - Len(P.fwdFix)
        /\ Arrives(ForwardWalk(P, str), P.next, j, state)
    BY <1>6 DEF ForwardAccept, ForwardStop, ForwardError, ForwardWalked, Behind,
                Good, IInv, InTheirTables
  <2>2. strIdx \in 0 .. backIdx + 1 /\ strIdx = Len(P.fwdFix) + j
    BY <1>2, <1>3, <2>1, GoodFacts DEF Good, ForwardInv
  <2> HIDE DEF j
  <2>3. CASE ForwardAccept
    <3>1. PICK k \in 0 .. 8 : /\ state = Accept(k)
                              /\ result' = (strIdx - 1 < backIdx \/ k <= backSym)
      BY <2>3 DEF ForwardAccept
    <3>2. Verdict(P, str) <=> Len(P.fwdFix) + j <= backIdx \/ k <= backSym
      <4>1. /\ Len(P.fwdFix) + j <= backIdx + 1
            /\ Arrives(ForwardWalk(P, str), P.next, j, Accept(k))
        BY <1>2, <2>1, <2>2, <3>1
      <4> QED
        BY <1>2, <1>3, <2>1, <4>1, VerdictOfMatch
    <3>3. result' = Verdict(P, str)
      <4>1. Verdict(P, str) \in BOOLEAN /\ result' \in BOOLEAN
        BY <3>1 DEF Verdict
      <4>2. strIdx - 1 < backIdx <=> Len(P.fwdFix) + j <= backIdx
        BY <1>2, <2>2
      <4> QED
        BY <3>1, <3>2, <4>1, <4>2
    <3> QED
      BY <1>1, <2>3, <3>3 DEF Answered, ForwardAccept
  <2>4. CASE ForwardStop
    <3>1. pc' = "done" /\ result' = FALSE /\ state \in P.fwd /\ ~ForwardGoesOn /\ Real(state)
      BY <2>1, <2>4, Kinds DEF ForwardStop, Return, Good, IInv, InTheirTables
    <3>2. strIdx + P.level[state] > backIdx + 1 /\ P.level[state] \in Nat
      <4>1. P.level[state] \in Nat /\ P.level[state] + Len(str) < LevelRange
        BY <3>1, GoodFacts DEF LevelsAreFinite, Good, IInv, TypeOK, P
      <4>2. LevelRange \in Nat \ {0}
        BY DEF Good, Given
      <4>3. strIdx + P.level[state] \in 0 .. LevelRange - 1
        <5>1. strIdx \in Nat /\ strIdx <= Len(str)
          BY <1>2, <1>3, <2>2
        <5> QED
          BY <1>3, <4>1, <4>2, <5>1
      <4>4. Wrapped(strIdx + P.level[state]) = strIdx + P.level[state]
        BY <4>2, <4>3, Unwrapped
      <4> QED
        BY <1>2, <2>2, <3>1, <4>1, <4>4 DEF ForwardGoesOn
    <3>3. ASSUME NEW n \in 0 .. backIdx + 1, NEW m \in 0 .. 8, BeginMatches(P, str, n, m)
          PROVE  FALSE
      <4>1. n \in Int
        OBVIOUS
      <4>2. n >= Len(P.fwdFix) + j + P.level[state]
        BY <1>3, <2>1, <3>1, <3>3, <4>1, GoodFacts, ForwardAhead
      <4> QED
        BY <1>2, <2>2, <3>2, <4>1, <4>2
    <3>4. Verdict(P, str) = FALSE
      BY <1>2, <1>3, <2>1, <3>3, VerdictOfNone
    <3> QED
      BY <1>1, <3>1, <3>4 DEF Answered
  <2>5. CASE ForwardError
    <3>1. pc' = "done" /\ result' = FALSE /\ state = Error
      BY <2>5 DEF ForwardError, Return
    <3>2. ASSUME NEW n \in 0 .. backIdx + 1, NEW m \in 0 .. 8 PROVE ~BeginMatches(P, str, n, m)
      <4>1. n \in Int
        OBVIOUS
      <4> QED
        BY <1>3, <2>1, <3>1, <4>1, ForwardLost
    <3>3. Verdict(P, str) = FALSE
      BY <1>2, <1>3, <2>1, <3>2, VerdictOfNone
    <3> QED
      BY <1>1, <3>1, <3>3 DEF Answered
  <2> QED
    BY <1>6, <2>3, <2>4, <2>5
<1> QED
  BY <1>4, <1>5, <1>6

\* Every step keeps what is known of the walks and of the answer.
LEMMA VerdictStep ==
    ASSUME Good, VerdictInv, [Next]_vars
    PROVE  VerdictInv'
<1> USE DEF VerdictInv
<1>1. CASE BackwardBegin
  <2>1. /\ UNCHANGED <<parser, str, backIdx, backSym>> /\ P' = P
        /\ P.backward /\ Ends(str, P.bwdFix)
        /\ pc' = "backward" /\ strIdx' = InFrontOf - 1 /\ state' = P.bwdStart
    BY <1>1, FixedParts DEF BackwardBegin, P, InFrontOf
  <2>2. InFrontOf \in Nat /\ Arrives(BackwardWalk(P, str), P.next, 0, P.bwdStart)
    BY <2>1, WalkBegins
  <2>3. InFrontOf' = InFrontOf
    BY <2>1 DEF InFrontOf
  <2>4. InFrontOf - 1 - strIdx' = 0 /\ strIdx' \in -1 .. InFrontOf - 1
    BY <2>1, <2>2
  <2>5. BackwardWalked'
    BY <2>1, <2>2, <2>3, <2>4 DEF BackwardWalked
  <2> QED
    BY <2>1, <2>5 DEF StartInv, EndFound, ForwardWalked, Answered
<1>2. CASE BackwardStep
  <2>1. BackwardWalked'
    BY <1>2, BackwardStepWalks
  <2> QED
    BY <1>2, <2>1 DEF BackwardStep, StartInv, EndFound, ForwardWalked, Answered, P
<1>3. CASE BackwardAccept
  <2>1. EndFound'
    BY <1>3, BackwardAcceptFinds
  <2>2. P' = P /\ P.backward /\ pc' = "between"
    BY <1>3 DEF BackwardAccept, P, Good, IInv, InTheirTables
  <2> QED
    BY <2>1, <2>2 DEF BackwardWalked, StartInv, ForwardWalked, Answered
<1>4. CASE BackwardNoSuffix \/ BackwardError
  <2>1. pc' = "done" /\ Answered'
    BY <1>4, BackwardGivesUp
  <2>2. UNCHANGED <<parser, backIdx, backSym>> /\ P' = P /\ P.backward
    BY <1>4 DEF BackwardNoSuffix, BackwardError, Return, P, Good, IInv, InTheirTables
  <2> QED
    BY <2>1, <2>2 DEF BackwardWalked, EndFound, StartInv, ForwardWalked
<1>5. CASE BackwardStop
  <2>1. pc' = "done" /\ Answered'
    BY <1>5, BackwardGivesUp
  <2>2. UNCHANGED parser /\ P' = P /\ P.backward
    BY <1>5 DEF BackwardStop, Return, P, Good, IInv, InTheirTables
  <2> QED
    BY <2>1, <2>2 DEF BackwardWalked, EndFound, StartInv, ForwardWalked
<1>6. CASE ForwardBegin
  <2>1. /\ UNCHANGED <<parser, str, backIdx, backSym>> /\ P' = P
        /\ AtForward /\ P.forward /\ StartsWith(P.fwdFix)
        /\ pc' = "forward" /\ strIdx' = Len(P.fwdFix) /\ state' = P.fwdStart
    BY <1>6 DEF ForwardBegin, P
  <2>2. EndIsAt(P, str, backIdx, backSym) /\ ForwardLen = backIdx + 1 /\ backIdx + 1 <= Len(str)
    BY <2>1, EndKnown, GoodFacts
  <2>3. Begins(str, P.fwdFix)
    BY <2>1, <2>2, FixedParts, GoodFacts DEF Begins
  <2>4. Behind \in Nat /\ Arrives(ForwardWalk(P, str), P.next, 0, P.fwdStart)
    BY <2>1, <2>3, WalkBegins
  <2>5. Behind' = Behind
    BY <2>1 DEF Behind
  <2>6. strIdx' - Len(P.fwdFix) = 0
    BY <2>1, GoodFacts
  <2>7. ForwardWalked'
    BY <2>1, <2>3, <2>4, <2>5, <2>6 DEF ForwardWalked
  <2> QED
    BY <2>1, <2>2, <2>7 DEF AtForward, StartInv, BackwardWalked, EndFound, Answered
<1>7. CASE ForwardStep \/ ForwardSkip \/ ForwardLeave
  <2>1. ForwardWalked'
    BY <1>7, ForwardStepWalks
  <2> QED
    BY <1>7, <2>1 DEF ForwardStep, ForwardSkip, ForwardLeave,
                      StartInv, BackwardWalked, EndFound, Answered, P
<1>8. CASE NoForwardTable \/ ForwardNoPrefix \/ ForwardAccept \/ ForwardStop \/ ForwardError
  <2>1. pc' = "done" /\ Answered'
    BY <1>8, ForwardAnswers
  <2>2. UNCHANGED <<parser, str, backIdx, backSym>> /\ P' = P
    BY <1>8 DEF NoForwardTable, ForwardNoPrefix, ForwardAccept, ForwardStop, ForwardError, Return, P
  <2> QED
    BY <2>1, <2>2 DEF StartInv, BackwardWalked, EndFound, ForwardWalked
<1>9. CASE UNCHANGED vars
  BY <1>9 DEF vars, StartInv, BackwardWalked, EndFound, ForwardWalked, Answered,
              P, InFrontOf, Behind
<1> QED
  BY <1>1, <1>2, <1>3, <1>4, <1>5, <1>6, <1>7, <1>8, <1>9 DEF Next, Backward, Forward

\* The matcher answers what the tables say: whether the end matches backwards
\* in one place and the beginning and the middle match forwards in front of
\* it.  That it compares levels, skips bytes and reads a byte in front of the
\* string makes no difference, for any sound parsers, any strings, and any
\* bytes around them; a parser whose levels may wrap is left out.
THEOREM VerdictReturned ==
    ASSUME Given, OutcomesDiffer
    PROVE  Spec => []ReturnsVerdict
<1> DEFINE Inv == /\ IInv
                  /\ LevelsAreFinite(parser) => ForwardInv
                  /\ LevelsAreFinite(parser) /\ LevelsAreHonest(P) => VerdictInv
<1>1. Init => Inv
  <2> SUFFICES ASSUME Init PROVE Inv
    OBVIOUS
  <2>1. VerdictInv
    BY DEF Init, VerdictInv, StartInv, BackwardWalked, EndFound, ForwardWalked, Answered
  <2> QED
    BY <2>1, InitIInv DEF Init, ForwardInv
<1>2. Inv /\ [Next]_vars => Inv'
  <2> SUFFICES ASSUME Inv, [Next]_vars PROVE Inv'
    OBVIOUS
  <2>1. IInv' /\ (LevelsAreFinite(parser) => ForwardInv')
    BY TypeStep, PlaceStep, ForwardStepKeeps DEF IInv
  <2>2. parser' = parser /\ P' = P
    BY DEF Next, Backward, Forward, vars, P, Return, BackwardBegin, BackwardNoSuffix,
           BackwardStep, BackwardAccept, BackwardStop, BackwardError, NoForwardTable,
           ForwardBegin, ForwardNoPrefix, ForwardStep, ForwardSkip, ForwardLeave,
           ForwardAccept, ForwardStop, ForwardError
  <2>3. LevelsAreFinite(parser) /\ LevelsAreHonest(P) => VerdictInv'
    BY VerdictStep DEF Good
  <2> QED
    BY <2>1, <2>2, <2>3
<1>3. Inv => ReturnsVerdict
  BY DEF VerdictInv, Answered, ReturnsVerdict
<1> QED
  BY <1>1, <1>2, <1>3, PTL DEF Spec
=============================================================================
