------------------------- MODULE CompiledParseProofs -------------------------
(***************************************************************************)
(* Theorems about the generated matchers, for every sequence of automata   *)
(* and any strings: both compilers, with vector registers of any size or   *)
(* without, compare and load what lies in the string or next to it, the    *)
(* LLVM code never runs into its trap, and both return the verdict of the  *)
(* automata: the answer that TableParseProofs proves of the table-driven   *)
(* matcher.                                                                *)
(***************************************************************************)
EXTENDS CompiledParse, ParserTablesProofs

\* The least that the theorems assume: numbers are numbers, what lies around
\* a string are bytes, and the tables are sound and stop at escapes.
Given ==
    /\ LevelRange \in Nat \ {0}
    /\ AcceptBase \in Int
    /\ Block \in Nat \ {0}
    /\ Outside \subseteq Bytes
    /\ \A n \in DOMAIN Parsers : Sound(n) /\ StopsForEscapes(Parsers[n])

-----------------------------------------------------------------------------
(* The parts of the inductive invariants.                                  *)

\* Every variable has its type.
TypeOK ==
    /\ llvm \in BOOLEAN /\ simd \in BOOLEAN
    /\ parser \in DOMAIN Parsers
    /\ str \in Input[parser]
    /\ pc \in {"begin", "suffix", "backward", "room", "prefix", "forward", "done", "thrown", "trapped"}
    /\ strIdx \in Int
    /\ state \in P.fwd \cup P.bwd \cup Outcomes
    /\ backIdx \in Int
    /\ backSym \in 0 .. 8
    /\ result \in BOOLEAN

\* Each function walks its own automaton, and is there to be called.
InTheirTables ==
    /\ pc \in {"suffix", "backward"} => P.backward
    /\ pc \in {"prefix", "forward"} => P.forward
    /\ pc = "backward" => state \in P.bwd \cup Outcomes
    /\ pc = "forward" => state \in P.fwd \cup Outcomes

IInv == TypeOK /\ InTheirTables /\ NeverTraps

\* Backwards: the walk stands in the string or in front of it, a state of the
\* automaton never stands two bytes in front, a match has used two codes, and
\* with the whole string left nothing has been read yet.
BackwardInv ==
    pc = "backward" =>
        /\ strIdx \in -2 .. Len(str) - 1
        /\ state \in P.bwd => strIdx >= -1
        /\ state \in Accepts => strIdx <= Len(str) - 3
        /\ strIdx = Len(str) - 1 => P.bwdFix = << >> /\ state = P.bwdStart

\* The part for the forward function is not empty and lies in the string; it
\* is the whole string until the end has been matched.
PartInv ==
    /\ pc \in {"begin", "suffix"} => backIdx = Len(str) - 1
    /\ pc \in {"room", "prefix", "forward"} => ForwardLen \in 1 .. Len(str)

\* Forwards: the walk stands in that part or right behind it.
ForwardInv == pc = "forward" => strIdx \in 0 .. ForwardLen

FixedInv ==
    /\ pc = "suffix" => Len(P.bwdFix) <= Len(str)
    /\ pc = "prefix" => Len(P.fwdFix) <= ForwardLen
PlaceInv == FixedInv /\ BackwardInv /\ PartInv /\ ForwardInv

-----------------------------------------------------------------------------
\* What is known of the automata in use and the string.
LEMMA InUse ==
    ASSUME Given, TypeOK
    PROVE  /\ Closed(P) /\ LooksOneByteAhead(P) /\ StopsForEscapes(P)
           /\ str \in Seq(Bytes) /\ Len(str) \in Nat /\ Len(str) > 0 /\ Len(str) < LevelRange
           /\ LevelRange \in Nat /\ LevelRange > 0 /\ AcceptBase \in Int /\ Block \in Nat /\ Block > 0
BY DEF Given, TypeOK, Sound, Strings, P

\* Reading yields a byte, inside the string or not.
LEMMA ReadsBytes ==
    ASSUME Given, TypeOK, NEW i \in Int, NEW c \in Read(i)
    PROVE  c \in Bytes
BY InUse DEF Given, Read

\* A state is of one kind only: of an automaton, the error, or an accept state.
LEMMA Kinds ==
    ASSUME Given, TypeOK
    PROVE  /\ Real(state) <=> state \in P.fwd \cup P.bwd
           /\ (P.fwd \cup P.bwd) \cap Outcomes = {}
BY InUse DEF Closed, Real, TypeOK

\* Numbers that are small enough are stored as they are.
LEMMA Unwrapped ==
    ASSUME LevelRange \in Nat \ {0}, NEW n \in 0 .. LevelRange - 1
    PROVE  Wrapped(n) = n /\ Signed(n) \in Int /\ Signed(n) <= n
BY DEF Wrapped, Signed

\* An accept state says how many bytes it used.
LEMMA AcceptKinds ==
    ASSUME NEW k \in 0 .. 8
    PROVE  Accept(k) \in Accepts /\ Accept(k) \in Outcomes
BY DEF Accepts, Outcomes

\* A byte that stops the skipping has a transition in the state.
LEMMA StoppersHaveTransitions ==
    ASSUME Given, TypeOK, state \in P.skipping, NEW i \in Int, NEW c \in Stoppers(i)
    PROVE  c \in P.bits[state] /\ c \in Bytes
<1>1. c \in Read(i) /\ c \in Stops(state)
  BY DEF Stoppers
<1>2. c \in P.bits[state] \/ c = Escape
  BY <1>1 DEF Stops
<1> QED
  BY <1>1, <1>2, InUse, ReadsBytes DEF StopsForEscapes

-----------------------------------------------------------------------------
(* Types, tables and the trap: none of these depends on the levels.        *)

\* Leaving a middle start takes one of its transitions.
LEMMA LeaveStep ==
    ASSUME Given, TypeOK, Skipping, NEW i \in Int, LeaveAt(i)
    PROVE  /\ state' \in P.fwd \cup Outcomes
           /\ pc' = pc /\ strIdx' = i + 1
           /\ UNCHANGED <<choices, backIdx, backSym, result>>
<1>1. PICK c \in Stoppers(i) :
         IF c \in P.bits[state] THEN state' = P.next[state][c] /\ pc' = pc
         ELSE state' = state /\ pc' = IF llvm THEN "trapped" ELSE pc
  BY DEF LeaveAt
<1>2. c \in P.bits[state] /\ c \in Bytes /\ state \in P.fwd
  BY InUse, StoppersHaveTransitions DEF Skipping, StopsForEscapes
<1> QED
  BY <1>1, <1>2, InUse DEF Closed, LeaveAt

\* Both actions that leave a middle start do so at an index of the string's.
LEMMA LeavesSomewhere ==
    ASSUME Given, TypeOK, LeaveFromBlock \/ LeaveFromByte
    PROVE  /\ Skipping
           /\ \E i \in Int :
                /\ LeaveAt(i)
                /\ strIdx <= i
                /\ i = strIdx \/ (BlockFits /\ i <= strIdx + Block - 1)
<1>1. CASE LeaveFromByte
  BY <1>1 DEF LeaveFromByte, TypeOK
<1>2. CASE LeaveFromBlock
  <2>1. PICK i \in InBlock : LeaveAt(i)
    BY <1>2 DEF LeaveFromBlock
  <2>2. i \in Int /\ strIdx <= i /\ i <= strIdx + Block - 1
    BY InUse DEF InBlock, TypeOK
  <2> QED
    BY <1>2, <2>1, <2>2 DEF LeaveFromBlock
<1> QED
  BY <1>1, <1>2

\* Every step keeps the types, stays in the automaton in use and off the trap.
LEMMA TypeStep ==
    ASSUME Given, IInv, [Next]_vars
    PROVE  IInv'
<1> USE DEF IInv, TypeOK, NeverTraps, choices
<1>1. /\ Closed(P)
      /\ Real(state) <=> state \in P.fwd \cup P.bwd
      /\ (P.fwd \cup P.bwd) \cap Outcomes = {}
      /\ Len(str) \in Nat
  BY InUse, Kinds
<1>2. CASE CompileThrows \/ TooShort \/ LongEnough
  BY <1>2 DEF CompileThrows, TooShort, LongEnough, Goto, Return, InTheirTables, P
<1>3. CASE SuffixDiffers \/ BackwardError \/ OnlyBackwards
  BY <1>3 DEF SuffixDiffers, BackwardError, OnlyBackwards, Return, InTheirTables, P
<1>4. CASE SuffixEqual
  BY <1>1, <1>4 DEF SuffixEqual, Closed, InTheirTables, P
<1>5. CASE BackwardStep
  <2>1. PICK c \in Read(strIdx) : state' = P.next[state][c]
    BY <1>5 DEF BackwardStep
  <2>2. c \in Bytes /\ state \in P.bwd
    BY <1>1, <1>5, <2>1, ReadsBytes DEF BackwardStep, InTheirTables
  <2>3. state' \in P.bwd \cup Outcomes
    BY <1>1, <2>1, <2>2 DEF Closed
  <2> QED
    BY <1>5, <2>3 DEF BackwardStep, InTheirTables, P
<1>6. CASE BackwardAccept
  BY <1>6 DEF BackwardAccept, InTheirTables, P
<1>7. CASE BackwardStop
  <2>1. CASE P.pseudo[state] # NoEnd
    BY <1>1, <1>7, <2>1 DEF BackwardStop, Closed, InTheirTables, P
  <2>2. CASE P.pseudo[state] = NoEnd
    BY <1>7, <2>2 DEF BackwardStop, Return, InTheirTables, P
  <2> QED
    BY <2>1, <2>2
<1>8. CASE NoRoomForward \/ RoomForward
  BY <1>8 DEF NoRoomForward, RoomForward, Goto, Return, InTheirTables, P
<1>9. CASE PrefixDiffers \/ ForwardStop \/ ForwardError
  BY <1>9 DEF PrefixDiffers, ForwardStop, ForwardError, Return, InTheirTables, P
<1>10. CASE PrefixEqual
  BY <1>1, <1>10 DEF PrefixEqual, Closed, InTheirTables, P
<1>11. CASE ForwardStep
  <2>1. PICK c \in Read(strIdx) : state' = P.next[state][c]
    BY <1>11 DEF ForwardStep
  <2>2. c \in Bytes /\ state \in P.fwd
    BY <1>1, <1>11, <2>1, ReadsBytes DEF ForwardStep, InTheirTables
  <2>3. state' \in P.fwd \cup Outcomes
    BY <1>1, <2>1, <2>2 DEF Closed
  <2> QED
    BY <1>11, <2>3 DEF ForwardStep, InTheirTables, P
<1>12. CASE SkipBlock \/ SkipByte
  BY <1>12, InUse DEF SkipBlock, SkipByte, InTheirTables, P
<1>13. CASE LeaveFromBlock \/ LeaveFromByte
  <2>1. PICK i \in Int : LeaveAt(i)
    BY <1>13, LeavesSomewhere
  <2>2. /\ state' \in P.fwd \cup Outcomes /\ pc' = pc /\ strIdx' = i + 1
        /\ UNCHANGED <<choices, backIdx, backSym, result>>
    BY <1>13, <2>1, LeavesSomewhere, LeaveStep
  <2> QED
    BY <1>13, <2>2, LeavesSomewhere DEF Skipping, InTheirTables, P
<1>14. CASE ForwardAccept
  BY <1>14 DEF ForwardAccept, InTheirTables, P
<1>15. CASE UNCHANGED vars
  BY <1>15 DEF vars, InTheirTables, P
<1> QED
  BY <1>2, <1>3, <1>4, <1>5, <1>6, <1>7, <1>8, <1>9, <1>10, <1>11, <1>12, <1>13, <1>14, <1>15
     DEF Next, Backward, Forward

\* In the beginning.
LEMMA InitIInv ==
    ASSUME Given, Init
    PROVE  IInv /\ PlaceInv
<1>1. Len(str) \in Nat /\ Len(str) > 0
  BY DEF Given, Init, Sound, Strings
<1>2. TypeOK
  <2>1. state \in P.fwd \cup P.bwd \cup Outcomes
    BY DEF Init, Outcomes
  <2>2. backIdx \in Int /\ strIdx \in Int /\ backSym \in 0 .. 8
    BY <1>1 DEF Init
  <2> QED
    BY <2>1, <2>2 DEF Init, TypeOK
<1>3. IInv
  BY <1>2 DEF Init, IInv, InTheirTables, NeverTraps
<1>4. PlaceInv
  BY <1>1 DEF Init, PlaceInv, FixedInv, BackwardInv, PartInv, ForwardInv
<1> QED
  BY <1>3, <1>4

\* The first invariant holds in every state of the generated code.
THEOREM Invariance ==
    ASSUME Given
    PROVE  Spec => []IInv
<1>1. Init => IInv
  BY InitIInv
<1>2. IInv /\ [Next]_vars => IInv'
  BY TypeStep
<1> QED
  BY <1>1, <1>2, PTL DEF Spec

\* Every variable of the generated code keeps its type, whatever the levels.
THEOREM TypeCorrect ==
    ASSUME Given
    PROVE  Spec => []TypeOK
<1>1. IInv => TypeOK
  BY DEF IInv
<1> QED
  BY <1>1, Invariance, PTL

\* The LLVM code never reaches its trap: the transition array of a middle
\* start only stops the skipping at bytes for which the switch has a case.
THEOREM NoTrap ==
    ASSUME Given
    PROVE  Spec => []NeverTraps
<1>1. IInv => NeverTraps
  BY DEF IInv
<1> QED
  BY <1>1, Invariance, PTL
-----------------------------------------------------------------------------
(* Places: these are only as good as the levels.                           *)

\* What is known of the levels of the automata in use.
LEMMA LevelsInUse ==
    ASSUME Given, TypeOK, Compilable(parser)
    PROVE  /\ \A s \in P.fwd \cup P.bwd :
                /\ P.level[s] \in Nat
                /\ Signed(P.level[s]) = P.level[s]
           /\ \A s \in P.fwd : P.level[s] >= 1 /\ P.level[s] + Len(str) < LevelRange
           /\ Len(P.fwdFix) \in Nat /\ Len(P.bwdFix) \in Nat
           /\ P.fwdMin \in Nat /\ P.bwdMin \in Nat
           /\ P.forward => P.fwdMin > 0 /\ Len(P.fwdFix) <= P.fwdMin
           /\ P.backward => Len(P.bwdFix) <= P.bwdMin
           /\ P.fwdMin + P.bwdMin <= LevelRange
BY InUse DEF Compilable, LevelsAreFinite, Closed, TypeOK, P

\* A string that passes the check of the length has room for the fixed parts.
LEMMA LengthSuffices ==
    ASSUME Given, TypeOK, Compilable(parser), P.forward \/ P.backward, Len(str) >= MinLength
    PROVE  /\ P.backward => Len(P.bwdFix) <= Len(str)
           /\ ~P.backward => Len(P.fwdFix) <= Len(str)
<1>1. CASE P.forward /\ P.backward
  <2>1. P.fwdMin + P.bwdMin - 1 \in 0 .. LevelRange - 1
    BY <1>1, LevelsInUse, InUse
  <2>2. MinLength = P.fwdMin + P.bwdMin - 1
    BY <1>1, <2>1, Unwrapped DEF MinLength, Given
  <2> QED
    BY <1>1, <2>2, LevelsInUse, InUse
<1>2. CASE P.forward /\ ~P.backward
  BY <1>2, LevelsInUse, InUse DEF MinLength
<1>3. CASE ~P.forward /\ P.backward
  BY <1>3, LevelsInUse, InUse DEF MinLength
<1> QED
  BY <1>1, <1>2, <1>3

\* Backwards, both compilers go on as long as the level says.
LEMMA BackwardRow ==
    ASSUME Given, IInv, PlaceInv, Compilable(parser), pc = "backward", Real(state)
    PROVE  /\ state \in P.bwd /\ P.backward
           /\ strIdx \in -1 .. Len(str) - 1
           /\ BackwardGoesOn <=> strIdx + 1 >= P.level[state]
           /\ P.level[state] \in Nat
<1> USE DEF IInv, PlaceInv
<1>1. state \in P.bwd /\ P.backward /\ strIdx \in -1 .. Len(str) - 1
  BY InUse, Kinds DEF InTheirTables, BackwardInv
<1>2. Wrapped(strIdx + 1) = strIdx + 1
  BY <1>1, InUse, Unwrapped DEF Given
<1>3. P.level[state] \in Nat /\ LevelOf(state) = P.level[state] /\ Signed(LevelOf(state)) = P.level[state]
  BY <1>1, LevelsInUse DEF LevelOf
<1> QED
  BY <1>1, <1>2, <1>3 DEF BackwardGoesOn, CppBackwardGoesOn, LlvmBackwardGoesOn

\* Forwards too, and neither compiler's skipping comes too close to the end.
LEMMA ForwardRow ==
    ASSUME Given, IInv, PlaceInv, Compilable(parser), pc = "forward", Real(state), ForwardGoesOn
    PROVE  /\ state \in P.fwd /\ P.level[state] \in Nat
           /\ strIdx \in 0 .. ForwardLen - 1
           /\ ForwardLen \in 1 .. Len(str)
           /\ MaxIdx \in Int /\ MaxIdx <= ForwardLen - 1
<1> USE DEF IInv, PlaceInv
<1>1. /\ state \in P.fwd /\ strIdx \in 0 .. ForwardLen /\ ForwardLen \in 1 .. Len(str)
      /\ Len(str) \in Nat
  BY InUse, Kinds DEF InTheirTables, ForwardInv, PartInv
<1>2. /\ P.level[state] \in Nat /\ P.level[state] >= 1 /\ P.level[state] + Len(str) < LevelRange
      /\ LevelOf(state) = P.level[state] /\ Signed(LevelOf(state)) = P.level[state]
  BY <1>1, LevelsInUse DEF LevelOf
<1>3. strIdx + P.level[state] <= ForwardLen
  <2>1. Wrapped(ForwardLen) = ForwardLen /\ Wrapped(strIdx + P.level[state]) = strIdx + P.level[state]
    BY <1>1, <1>2, InUse, Unwrapped DEF Given
  <2> QED
    BY <1>2, <2>1 DEF ForwardGoesOn, CppLoopGoesOn, LlvmLoopGoesOn
<1>4. MaxIdx \in Int /\ MaxIdx <= ForwardLen - P.level[state]
  <2>1. ForwardLen - P.level[state] \in 0 .. LevelRange - 1
    BY <1>1, <1>2, <1>3, InUse
  <2> QED
    BY <1>2, <2>1, Unwrapped DEF MaxIdx, Given
<1> QED
  BY <1>1, <1>2, <1>3, <1>4

\* While it skips, the state is one of the forward automaton.
LEMMA SkipsInARow ==
    ASSUME Given, IInv, Skipping
    PROVE  pc = "forward" /\ Real(state) /\ ForwardGoesOn
BY InUse, Kinds DEF IInv, Skipping, StopsForEscapes

\* The part that a match of the end leaves for the forward function.
LEMMA PartIsLeft ==
    ASSUME Given, IInv, PlaceInv, Compilable(parser), BackwardAccept \/ BackwardStop
    PROVE  PartInv'
<1> USE DEF IInv, PlaceInv
<1>1. Len(str) \in Nat /\ Closed(P) /\ LooksOneByteAhead(P)
  BY InUse
<1>2. CASE BackwardAccept
  <2>1. state \in Accepts
    BY <1>2, AcceptKinds DEF BackwardAccept
  <2>2. strIdx \in -2 .. Len(str) - 3
    BY <1>1, <1>2, <2>1 DEF BackwardInv, BackwardAccept
  <2> QED
    BY <1>1, <1>2, <2>2 DEF BackwardAccept, PartInv, ForwardLen, choices
<1>3. CASE BackwardStop
  <2>1. /\ state \in P.bwd /\ P.backward
        /\ strIdx \in -1 .. Len(str) - 1
        /\ ~(strIdx + 1 >= P.level[state])
    BY <1>3, BackwardRow DEF BackwardStop
  <2>2. P.pseudo[state] = NoEnd
    BY <1>1, <2>1 DEF LooksOneByteAhead
  <2> QED
    BY <1>3, <2>2 DEF BackwardStop, Return, PartInv
<1> QED
  BY <1>2, <1>3

\* The backward index moves by one, and stays within two of the string.
LEMMA BackwardStepKeeps ==
    ASSUME Given, IInv, PlaceInv, Compilable(parser), BackwardStep
    PROVE  BackwardInv'
<1> USE DEF IInv, PlaceInv
<1>1. PICK c \in Read(strIdx) : state' = P.next[state][c]
  BY DEF BackwardStep
<1>2. c \in Bytes
  BY <1>1, ReadsBytes DEF TypeOK
<1>3. /\ state \in P.bwd /\ P.backward
      /\ strIdx \in -1 .. Len(str) - 1
      /\ strIdx + 1 >= P.level[state]
      /\ P.level[state] \in Nat
  BY BackwardRow DEF BackwardStep
<1>4. /\ strIdx' = strIdx - 1 /\ UNCHANGED <<parser, str>> /\ P' = P
      /\ Len(str) \in Nat
      /\ LooksOneByteAhead(P)
  BY InUse DEF BackwardStep, P, choices
<1>5. strIdx' \in -2 .. Len(str) - 1 /\ strIdx' # Len(str) - 1
  BY <1>3, <1>4
<1>6. ASSUME state' \in P.bwd PROVE strIdx' >= -1
  <2>1. P.level[state] # 0
    BY <1>1, <1>2, <1>3, <1>4, <1>6 DEF LooksOneByteAhead
  <2> QED
    BY <1>3, <1>4, <2>1
<1>7. ASSUME state' \in Accepts PROVE strIdx' <= Len(str) - 3
  <2>1. ~(P.bwdFix = << >> /\ state = P.bwdStart)
    BY <1>1, <1>2, <1>3, <1>4, <1>7 DEF LooksOneByteAhead
  <2>2. strIdx # Len(str) - 1
    BY <2>1 DEF BackwardInv, BackwardStep
  <2> QED
    BY <1>3, <1>4, <2>2
<1> QED
  BY <1>4, <1>5, <1>6, <1>7 DEF BackwardInv
\* The forward index never passes the end of its part, by single bytes or by
\* blocks.
LEMMA ForwardStepKeeps ==
    ASSUME Given, IInv, PlaceInv, Compilable(parser),
           ForwardStep \/ SkipBlock \/ SkipByte \/ LeaveFromBlock \/ LeaveFromByte
    PROVE  ForwardInv'
<1> USE DEF IInv, PlaceInv, choices
<1>1. /\ strIdx \in 0 .. ForwardLen - 1
      /\ ForwardLen \in 1 .. Len(str) /\ Len(str) \in Nat
      /\ MaxIdx \in Int /\ MaxIdx <= ForwardLen - 1
      /\ Block \in Nat /\ Block > 0
  <2>1. pc = "forward" /\ Real(state) /\ ForwardGoesOn
    BY SkipsInARow, LeavesSomewhere DEF ForwardStep, SkipBlock, SkipByte
  <2> QED
    BY <2>1, ForwardRow, InUse
<1>2. CASE ForwardStep
  BY <1>1, <1>2 DEF ForwardStep, ForwardInv, ForwardLen
<1>3. CASE SkipByte
  BY <1>1, <1>3 DEF SkipByte, ForwardInv, ForwardLen
<1>4. CASE SkipBlock
  BY <1>1, <1>4 DEF SkipBlock, BlockFits, ForwardInv, ForwardLen
<1>5. CASE LeaveFromBlock \/ LeaveFromByte
  <2>1. PICK i \in Int : /\ LeaveAt(i)
                         /\ strIdx <= i
                         /\ i = strIdx \/ (BlockFits /\ i <= strIdx + Block - 1)
    BY <1>5, LeavesSomewhere
  <2>2. i \in 0 .. ForwardLen - 1
    BY <1>1, <2>1 DEF BlockFits
  <2>3. strIdx' = i + 1 /\ UNCHANGED backIdx
    BY <2>1 DEF LeaveAt
  <2> QED
    BY <1>1, <2>2, <2>3 DEF ForwardInv, ForwardLen
<1> QED
  BY <1>2, <1>3, <1>4, <1>5

\* Every step keeps the fixed parts, the indices and the part in their places.
LEMMA PlaceStep ==
    ASSUME Given, IInv, PlaceInv, Compilable(parser), [Next]_vars
    PROVE  PlaceInv'
<1> USE DEF IInv, PlaceInv, choices
<1>1. /\ Closed(P) /\ Len(str) \in Nat /\ Len(str) > 0
      /\ (P.fwd \cup P.bwd) \cap Outcomes = {}
      /\ Len(P.fwdFix) \in Nat /\ Len(P.bwdFix) \in Nat
  BY InUse, Kinds, LevelsInUse
<1>2. CASE \E answer \in BOOLEAN : Return(answer)
  BY <1>2 DEF Return, FixedInv, BackwardInv, PartInv, ForwardInv
<1>3. CASE CompileThrows
  BY <1>3 DEF CompileThrows, Goto, FixedInv, BackwardInv, PartInv, ForwardInv
<1>4. CASE LongEnough
  BY <1>1, <1>4, LengthSuffices
     DEF LongEnough, Goto, FixedInv, BackwardInv, PartInv, ForwardInv, ForwardLen, P
<1>5. CASE SuffixEqual
  <2>1. P.bwdStart \in P.bwd /\ P.bwdStart \notin Accepts
    BY <1>1, <1>5 DEF SuffixEqual, InTheirTables, Closed, Outcomes
  <2>2. Len(P.bwdFix) \in 0 .. Len(str)
    BY <1>1, <1>5 DEF SuffixEqual, FixedInv
  <2>3. Len(P.bwdFix) = 0 => P.bwdFix = << >>
    BY <1>1 DEF Closed
  <2> QED
    BY <1>1, <1>5, <2>1, <2>2, <2>3 DEF SuffixEqual, FixedInv, BackwardInv, PartInv, ForwardInv, P
<1>6. CASE BackwardStep
  BY <1>6, BackwardStepKeeps DEF BackwardStep, FixedInv, PartInv, ForwardInv
<1>7. CASE BackwardAccept \/ (BackwardStop /\ P.pseudo[state] # NoEnd)
  BY <1>7, PartIsLeft DEF BackwardAccept, BackwardStop, FixedInv, BackwardInv, ForwardInv
<1>8. CASE RoomForward
  <2>1. P.fwdMin > 0 /\ P.fwdMin <= LevelRange /\ P.fwdMin \in Nat /\ Len(P.fwdFix) <= P.fwdMin
    BY <1>8, LevelsInUse, InUse DEF RoomForward
  <2>2. ForwardLen \in 1 .. Len(str) /\ backIdx = ForwardLen - 1
    BY <1>1, <1>8 DEF RoomForward, PartInv, ForwardLen, TypeOK
  <2>3. /\ Wrapped(ForwardLen) = ForwardLen
        /\ Wrapped(backIdx) = backIdx
        /\ Wrapped(P.fwdMin - 1) = P.fwdMin - 1
    <3>1. /\ ForwardLen \in 0 .. LevelRange - 1
          /\ backIdx \in 0 .. LevelRange - 1
          /\ P.fwdMin - 1 \in 0 .. LevelRange - 1
      BY <2>1, <2>2, InUse
    <3> QED
      BY <3>1, Unwrapped DEF Given
  <2>4. Len(P.fwdFix) <= ForwardLen
    BY <1>1, <1>8, <2>1, <2>2, <2>3 DEF RoomForward, NoRoom
  <2> QED
    BY <1>8, <2>2, <2>4 DEF RoomForward, Goto, FixedInv, BackwardInv, PartInv, ForwardInv, ForwardLen, P
<1>9. CASE PrefixEqual
  BY <1>1, <1>9 DEF PrefixEqual, FixedInv, BackwardInv, PartInv, ForwardInv, ForwardLen
<1>10. CASE ForwardStep \/ SkipBlock \/ SkipByte \/ LeaveFromBlock \/ LeaveFromByte
  <2>1. pc = "forward" /\ pc' = pc /\ UNCHANGED <<choices, backIdx>>
    BY <1>10, LeavesSomewhere, LeaveStep DEF ForwardStep, SkipBlock, SkipByte, Skipping
  <2> QED
    BY <1>10, <2>1, ForwardStepKeeps DEF FixedInv, BackwardInv, PartInv, ForwardLen
<1>11. CASE ForwardAccept
  BY <1>11 DEF ForwardAccept, FixedInv, BackwardInv, PartInv, ForwardInv
<1>12. CASE UNCHANGED vars
  BY <1>12 DEF vars, FixedInv, BackwardInv, PartInv, ForwardInv, ForwardLen, P
<1>13. ASSUME Next PROVE \/ \E answer \in BOOLEAN : Return(answer)
                         \/ CompileThrows \/ LongEnough \/ SuffixEqual \/ BackwardStep
                         \/ BackwardAccept \/ (BackwardStop /\ P.pseudo[state] # NoEnd)
                         \/ RoomForward \/ PrefixEqual
                         \/ ForwardStep \/ SkipBlock \/ SkipByte \/ LeaveFromBlock \/ LeaveFromByte
                         \/ ForwardAccept
  BY <1>13 DEF Next, Backward, Forward, TooShort, SuffixDiffers, BackwardStop, BackwardError,
               OnlyBackwards, NoRoomForward, PrefixDiffers, ForwardStop, ForwardError
<1> QED
  BY <1>2, <1>3, <1>4, <1>5, <1>6, <1>7, <1>8, <1>9, <1>10, <1>11, <1>12, <1>13

\* What the generated code compares and loads is in its place, if the automata
\* in use have no level that wraps.
THEOREM Places ==
    ASSUME Given
    PROVE  Spec => [](Compilable(parser) => PlaceInv)
<1>1. Init => (Compilable(parser) => PlaceInv)
  BY InitIInv
<1>2. IInv /\ (Compilable(parser) => PlaceInv) /\ [Next]_vars => (Compilable(parser) => PlaceInv)'
  <2> SUFFICES ASSUME IInv, Compilable(parser) => PlaceInv, [Next]_vars, Compilable(parser)'
               PROVE  PlaceInv'
    OBVIOUS
  <2>1. parser' = parser
    BY LeavesSomewhere DEF Next, Backward, Forward, vars, choices, CompileThrows, TooShort, LongEnough,
       SuffixDiffers, SuffixEqual, BackwardStep, BackwardAccept, BackwardStop, BackwardError, OnlyBackwards,
       NoRoomForward, RoomForward, PrefixDiffers, PrefixEqual, ForwardStep, SkipBlock, SkipByte,
       LeaveFromBlock, LeaveFromByte, LeaveAt, ForwardAccept, ForwardStop, ForwardError, Return, Goto
  <2>2. Compilable(parser)
    BY <2>1 DEF Compilable
  <2> QED
    BY <2>2, PlaceStep
<1> QED
  BY <1>1, <1>2, Invariance, PTL DEF Spec

\* The fixed end and the fixed beginning are only compared with strings that
\* are long enough, although the code that compares does not look at the
\* length: the levels of the start states, or their sum, see to it.
THEOREM PartsFit ==
    ASSUME Given
    PROVE  Spec => []FixedPartsFit
<1>1. (Compilable(parser) => PlaceInv) => FixedPartsFit
  BY DEF PlaceInv, FixedInv, FixedPartsFit, CompilableParsers
<1> QED
  BY <1>1, Places, PTL

\* No byte is loaded that lies further from the string than next to it, or
\* two in front in the LLVM code, and no block that does not lie inside.
THEOREM Loads ==
    ASSUME Given
    PROVE  Spec => []LoadsNearby
<1>1. IInv /\ (Compilable(parser) => PlaceInv) => LoadsNearby
  <2> SUFFICES ASSUME IInv, PlaceInv, parser \in CompilableParsers
               PROVE  LoadsNearby
    BY DEF LoadsNearby, CompilableParsers
  <2>0. Compilable(parser)
    BY DEF CompilableParsers
  <2>1. ASSUME pc = "backward", BackwardGoesOn
        PROVE  IF llvm THEN strIdx \in -2 .. Len(str) - 1
               ELSE Real(state) => strIdx \in -1 .. Len(str) - 1
    BY <2>0, <2>1, BackwardRow DEF PlaceInv, BackwardInv
  <2>2. ASSUME pc = "forward", ForwardGoesOn
        PROVE  IF llvm THEN strIdx \in 0 .. ForwardLen
               ELSE Real(state) => strIdx \in 0 .. ForwardLen - 1
    BY <2>0, <2>2, ForwardRow DEF PlaceInv, ForwardInv
  <2>3. ASSUME Skipping, BlockFits
        PROVE  InBlock \subseteq 0 .. ForwardLen - 1
    <3>1. /\ strIdx \in 0 .. ForwardLen - 1
          /\ MaxIdx \in Int /\ MaxIdx <= ForwardLen - 1
          /\ Block \in Nat /\ ForwardLen \in Int
      BY <2>0, <2>3, SkipsInARow, ForwardRow, InUse DEF IInv
    <3> QED
      BY <2>3, <3>1 DEF BlockFits, InBlock
  <2> QED
    BY <2>1, <2>2, <2>3 DEF LoadsNearby
<1> QED
  BY <1>1, Invariance, Places, PTL

-----------------------------------------------------------------------------
(* The answer: the parts of its inductive invariant.                       *)

\* How many codes there are behind the fixed beginning, and in front of the
\* fixed end.
Behind == Len(str) - Len(P.fwdFix)
InFrontOf == Len(str) - Len(P.bwdFix)

\* Nothing has been matched in the beginning, or there is nothing to match.
StartInv == (pc \in {"begin", "suffix"} \/ ~P.backward) => backIdx = Len(str) - 1 /\ backSym = 8

\* The backward walk is where the automaton leads on the codes read, or has
\* read the byte in front of the string and found it a match.
BackwardWalked ==
    pc = "backward" =>
        /\ Ends(str, P.bwdFix)
        /\ \/ /\ strIdx \in -1 .. InFrontOf - 1
              /\ Arrives(BackwardWalk(P, str), P.next, InFrontOf - 1 - strIdx, state)
           \/ /\ strIdx = -2
              /\ \E s \in P.bwd : /\ Arrives(BackwardWalk(P, str), P.next, InFrontOf, s)
                                  /\ P.level[s] = 0
                                  /\ state = Accept(P.pseudo[s])

\* The end matches where the backward walk says, and nowhere else.
EndFound == pc \in {"room", "prefix", "forward"} => EndIsAt(P, str, backIdx, backSym)

\* The byte in front of the one at i is an escape.
Escaped(i) == i > 0 /\ str[i] = Escape

\* The automaton is in s when the code at i is next, and no escape waits for
\* its byte; or it is where an escape, which the generated code passed in s,
\* has led it.
Skipped(s, i) ==
    \/ /\ Arrives(ForwardWalk(P, str), P.next, i - Len(P.fwdFix), s)
       /\ ~Escaped(i)
    \/ /\ Arrives(ForwardWalk(P, str), P.next, i - Len(P.fwdFix), P.next[s][Escape])
       /\ Escaped(i) /\ LeadsOnlyBack(s)

\* The forward walk is where the automaton leads on the codes read, or in a
\* middle start as good as there.
ForwardWalked ==
    pc = "forward" =>
        /\ Begins(str, P.fwdFix)
        /\ strIdx - Len(P.fwdFix) \in 0 .. Behind
        /\ IF state \in P.skipping THEN Skipped(state, strIdx)
           ELSE Arrives(ForwardWalk(P, str), P.next, strIdx - Len(P.fwdFix), state)

Answered == pc = "done" => result = Verdict(P, str)

VerdictInv == StartInv /\ BackwardWalked /\ EndFound /\ ForwardWalked /\ Answered

\* What the steps below all assume.
Good ==
    /\ Given /\ OutcomesDiffer
    /\ Faithful(parser)
    /\ IInv /\ PlaceInv

\* What is known then.
LEMMA GoodFacts ==
    ASSUME Good
    PROVE  /\ Closed(P) /\ LooksOneByteAhead(P) /\ OutcomesDiffer
           /\ str \in Seq(Bytes) /\ Len(str) \in Nat /\ Len(str) > 0 /\ 2 * Len(str) < LevelRange
           /\ LevelRange \in Nat \ {0}
           /\ Len(P.fwdFix) \in Nat /\ Len(P.bwdFix) \in Nat
           /\ Compilable(parser) /\ LevelsAreHonest(P) /\ AsksForNoMore(P) /\ EscapesComeBack(P)
           /\ \A i \in 1 .. Len(str) - 1 : ~(str[i] = Escape /\ str[i + 1] = Escape)
           /\ P.skipping \subseteq P.fwd
           /\ \A s \in Outcomes : s \notin DOMAIN P.next
           /\ \A s \in P.bwd \cup P.fwd : s \in DOMAIN P.next
           /\ \A s \in P.bwd \cup P.fwd : P.level[s] \in Nat /\ P.pseudo[s] \in 0 .. 8 \cup {NoEnd}
           /\ strIdx \in Int /\ backIdx \in Int /\ backSym \in 0 .. 8
<1>1. Given /\ TypeOK
  BY DEF Good, IInv
<1>2. Closed(P) /\ LooksOneByteAhead(P) /\ StopsForEscapes(P)
  BY <1>1, InUse
<1>3. OneEscapeAtATime(str)
  BY <1>1 DEF Good, Faithful, TypeOK
<1>4. str \in Seq(Bytes) /\ Len(str) \in Nat /\ Len(str) > 0
  BY <1>1, InUse
<1>5. LevelsAreHonest(P) /\ AsksForNoMore(P) /\ EscapesComeBack(P) /\ Compilable(parser)
  BY DEF Good, Faithful, P
<1>6. OutcomesDiffer /\ LevelRange \in Nat \ {0}
  BY DEF Good, Given
<1>7. 2 * Len(str) < LevelRange /\ \A i \in 1 .. Len(str) - 1 : ~(str[i] = Escape /\ str[i + 1] = Escape)
  BY <1>3 DEF OneEscapeAtATime
<1>8. /\ Len(P.fwdFix) \in Nat /\ Len(P.bwdFix) \in Nat
      /\ \A s \in Outcomes : s \notin DOMAIN P.next
      /\ \A s \in P.bwd \cup P.fwd : s \in DOMAIN P.next
      /\ \A s \in P.bwd \cup P.fwd : P.level[s] \in Nat /\ P.pseudo[s] \in 0 .. 8 \cup {NoEnd}
  BY <1>2, <1>6 DEF Closed
<1>9. strIdx \in Int /\ backIdx \in Int /\ backSym \in 0 .. 8
  BY <1>1 DEF TypeOK
<1> QED
  BY <1>2, <1>4, <1>5, <1>6, <1>7, <1>8, <1>9 DEF StopsForEscapes

\* A byte of the string is what it is.
LEMMA ReadsInside ==
    ASSUME Good, NEW i \in 0 .. Len(str) - 1
    PROVE  Read(i) = {str[i + 1]} /\ str[i + 1] \in Bytes
<1>1. i + 1 \in 1 .. Len(str)
  BY GoodFacts
<1> QED
  BY <1>1, GoodFacts DEF Read

\* Comparing the fixed parts is what Begins and Ends say, as they fit.
LEMMA SuffixCompares ==
    ASSUME Good, pc = "suffix"
    PROVE  /\ MayDiffer(P.bwdFix, Len(str) - Len(P.bwdFix)) <=> ~Ends(str, P.bwdFix)
           /\ MayEqual(P.bwdFix, Len(str) - Len(P.bwdFix)) <=> Ends(str, P.bwdFix)
<1> DEFINE n == Len(P.bwdFix)
           at == Len(str) - n
<1>1. n \in Nat /\ at \in Nat /\ n <= Len(str)
  BY GoodFacts DEF Good, PlaceInv, FixedInv
<1>2. ASSUME NEW k \in 1 .. n PROVE Read(at + k - 1) = {str[at + k]}
  <2>1. at + k - 1 \in 0 .. Len(str) - 1 /\ at + k - 1 + 1 = at + k
    BY <1>1, GoodFacts
  <2> HIDE DEF at, n
  <2> QED
    BY <2>1, ReadsInside
<1> QED
  BY <1>1, <1>2 DEF MayDiffer, MayEqual, Ends

LEMMA PrefixCompares ==
    ASSUME Good, pc = "prefix"
    PROVE  /\ MayDiffer(P.fwdFix, 0) <=> ~Begins(str, P.fwdFix)
           /\ MayEqual(P.fwdFix, 0) <=> Begins(str, P.fwdFix)
<1> DEFINE n == Len(P.fwdFix)
<1>1. n \in Nat /\ n <= Len(str)
  BY GoodFacts DEF Good, PlaceInv, PartInv, FixedInv
<1>2. ASSUME NEW k \in 1 .. n PROVE Read(0 + k - 1) = {str[k]}
  <2>1. 0 + k - 1 \in 0 .. Len(str) - 1 /\ 0 + k - 1 + 1 = k
    BY <1>1, GoodFacts
  <2> HIDE DEF n
  <2> QED
    BY <2>1, ReadsInside
<1> QED
  BY <1>1, <1>2 DEF MayDiffer, MayEqual, Begins

\* The walk of the end begins in its start state, with no code read.
LEMMA WalkBegins ==
    ASSUME Good
    PROVE  /\ P.backward /\ Ends(str, P.bwdFix)
              => InFrontOf \in Nat /\ Arrives(BackwardWalk(P, str), P.next, 0, P.bwdStart)
           /\ P.forward /\ Begins(str, P.fwdFix)
              => Behind \in Nat /\ Arrives(ForwardWalk(P, str), P.next, 0, P.fwdStart)
<1>1. ASSUME P.backward, Ends(str, P.bwdFix)
      PROVE  InFrontOf \in Nat /\ Arrives(BackwardWalk(P, str), P.next, 0, P.bwdStart)
  <2>1. Len(P.bwdFix) <= Len(str)
    BY <1>1 DEF Ends
  <2> DEFINE word == [i \in 1 .. InFrontOf |-> str[InFrontOf + 1 - i]]
  <2>2. InFrontOf \in Nat /\ Steps(BackwardWalk(P, str), P.next, P.bwdStart, word, InFrontOf)
    BY <1>1, <2>1, GoodFacts, BackwardSteps DEF InFrontOf
  <2> HIDE DEF word
  <2> QED
    BY <2>2 DEF Steps, Arrives
<1>2. ASSUME P.forward, Begins(str, P.fwdFix)
      PROVE  Behind \in Nat /\ Arrives(ForwardWalk(P, str), P.next, 0, P.fwdStart)
  <2>1. Len(P.fwdFix) <= Len(str)
    BY <1>2 DEF Begins
  <2> DEFINE word == [i \in 1 .. Behind |-> str[Len(P.fwdFix) + i]]
  <2>2. Behind \in Nat /\ Steps(ForwardWalk(P, str), P.next, P.fwdStart, word, Behind)
    BY <1>2, <2>1, GoodFacts, ForwardSteps DEF Behind
  <2> HIDE DEF word
  <2> QED
    BY <2>2 DEF Steps, Arrives
<1> QED
  BY <1>1, <1>2

\* A step of the backward loop.
LEMMA BackwardStepWalks ==
    ASSUME Good, BackwardWalked, BackwardStep
    PROVE  BackwardWalked'
<1>1. PICK c \in Read(strIdx) : state' = P.next[state][c]
  BY DEF BackwardStep
<1>2. /\ state \in P.bwd /\ P.backward
      /\ strIdx \in -1 .. Len(str) - 1
      /\ strIdx + 1 >= P.level[state] /\ P.level[state] \in Nat
  BY BackwardRow, GoodFacts DEF BackwardStep, Good
<1>3. UNCHANGED <<parser, str, pc>> /\ strIdx' = strIdx - 1 /\ P' = P /\ pc = "backward"
  BY DEF BackwardStep, P, choices
<1> DEFINE j == InFrontOf - 1 - strIdx
<1>4. /\ Ends(str, P.bwdFix)
      /\ strIdx \in -1 .. InFrontOf - 1
      /\ Arrives(BackwardWalk(P, str), P.next, j, state)
  BY <1>2, <1>3 DEF BackwardWalked
<1>5. InFrontOf \in Nat /\ InFrontOf' = InFrontOf
  BY <1>2, <1>3, <1>4, WalkBegins DEF InFrontOf
<1>6. CASE strIdx >= 0
  <2>1. Len(P.bwdFix) <= Len(str)
    BY <1>4 DEF Ends
  <2>2. j \in 0 .. InFrontOf - 1 /\ InFrontOf - j = strIdx + 1
    BY <1>4, <1>5, <1>6
  <2>3. c = str[InFrontOf - j]
    BY <1>1, <1>2, <1>6, <2>2 DEF Read
  <2>4. Arrives(BackwardWalk(P, str), P.next, j + 1, P.next[state][str[InFrontOf - j]])
    <3> HIDE DEF j
    <3> QED
      BY <1>2, <1>4, <2>1, <2>2, GoodFacts, BackwardGoes DEF InFrontOf
  <2>5. j + 1 = InFrontOf - 1 - strIdx' /\ strIdx' \in -1 .. InFrontOf - 1
    BY <1>3, <1>4, <1>5, <1>6
  <2> QED
    BY <1>1, <1>3, <1>4, <1>5, <2>3, <2>4, <2>5 DEF BackwardWalked
<1>7. CASE strIdx = -1
  <2>1. j = InFrontOf /\ strIdx' = -2 /\ P.level[state] = 0
    BY <1>2, <1>3, <1>5, <1>7
  <2>2. c \in Outside
    BY <1>1, <1>7, GoodFacts DEF Read
  <2>3. state' = Accept(P.pseudo[state])
    BY <1>1, <1>2, <2>1, <2>2, GoodFacts DEF LevelsAreHonest
  <2> QED
    BY <1>2, <1>3, <1>4, <1>5, <2>1, <2>3 DEF BackwardWalked
<1> QED
  BY <1>2, <1>6, <1>7

\* An accept state tells where the end matches.
LEMMA BackwardAcceptFinds ==
    ASSUME Good, BackwardWalked, BackwardAccept
    PROVE  EndFound'
<1>1. PICK k \in 0 .. 8 : state = Accept(k) /\ backSym' = k
  BY DEF BackwardAccept
<1>2. /\ UNCHANGED <<parser, str>> /\ P' = P
      /\ backIdx' = strIdx + 2
      /\ P.backward /\ pc = "backward"
      /\ Ends(str, P.bwdFix)
  BY DEF BackwardAccept, P, choices, Good, IInv, InTheirTables, BackwardWalked
<1>3. InFrontOf \in Nat
  BY <1>2, WalkBegins
<1>4. CASE /\ strIdx \in -1 .. InFrontOf - 1
           /\ Arrives(BackwardWalk(P, str), P.next, InFrontOf - 1 - strIdx, state)
  <2> DEFINE j == InFrontOf - 1 - strIdx
  <2>1. /\ j \in 0 .. InFrontOf /\ Arrives(BackwardWalk(P, str), P.next, j, Accept(k))
        /\ InFrontOf + 1 - j = strIdx + 2
    BY <1>1, <1>3, <1>4
  <2> HIDE DEF j
  <2>2. EndIsAt(P, str, InFrontOf + 1 - j, k)
    BY <1>2, <2>1, GoodFacts, BackwardMatch DEF InFrontOf
  <2> QED
    BY <1>1, <1>2, <2>1, <2>2 DEF EndFound
<1>5. CASE strIdx = -2
  <2>1. PICK s \in P.bwd : /\ Arrives(BackwardWalk(P, str), P.next, InFrontOf, s)
                           /\ P.level[s] = 0
                           /\ state = Accept(P.pseudo[s])
    BY <1>2, <1>5 DEF BackwardWalked
  <2>2. P.pseudo[s] \in 0 .. 8
    BY <2>1, GoodFacts DEF LevelsAreHonest
  <2>3. P.pseudo[s] = k
    BY <1>1, <2>1, <2>2, GoodFacts, AcceptStates
  <2>4. EndIsAt(P, str, 0, P.pseudo[s])
    BY <1>2, <2>1, GoodFacts, BackwardMatchInFront DEF InFrontOf
  <2> QED
    BY <1>1, <1>2, <1>5, <2>3, <2>4 DEF EndFound
<1> QED
  BY <1>2, <1>4, <1>5 DEF BackwardWalked

\* Whenever the search for the end gives up, the end matches nowhere.
LEMMA BackwardGivesUp ==
    ASSUME Good, BackwardWalked, SuffixDiffers \/ BackwardError \/ BackwardStop
    PROVE  pc' = "done" /\ Answered'
<1>1. UNCHANGED <<parser, str>> /\ P' = P
  BY DEF SuffixDiffers, BackwardError, BackwardStop, Return, P, choices
<1>2. CASE SuffixDiffers
  <2>1. /\ P.backward /\ ~Ends(str, P.bwdFix)
        /\ pc' = "done" /\ result' = FALSE
    BY <1>2, SuffixCompares DEF SuffixDiffers, Return, Good, IInv, InTheirTables
  <2>2. \A b \in Int, k \in 0 .. 8 : ~EndMatches(P, str, b, k)
    BY <2>1 DEF EndMatches
  <2> QED
    BY <1>1, <2>1, <2>2, GoodFacts, NoVerdict DEF Answered
<1>3. CASE BackwardError
  <2>1. /\ P.backward /\ Ends(str, P.bwdFix) /\ state = Error
        /\ pc' = "done" /\ result' = FALSE
    BY <1>3 DEF BackwardError, Return, Good, IInv, InTheirTables, BackwardWalked
  <2>2. InFrontOf \in Nat
    BY <2>1, WalkBegins
  <2> DEFINE j == InFrontOf - 1 - strIdx
  <2>3. strIdx # -2
    <3> SUFFICES ASSUME strIdx = -2 PROVE FALSE
      OBVIOUS
    <3>0. strIdx \notin -1 .. InFrontOf - 1
      BY <2>2
    <3>1. PICK s \in P.bwd : P.level[s] = 0 /\ state = Accept(P.pseudo[s])
      BY <1>3, <3>0, Zenon DEF BackwardWalked, BackwardError
    <3>2. P.pseudo[s] \in 0 .. 8
      BY <3>1, GoodFacts DEF LevelsAreHonest
    <3> QED
      BY <2>1, <3>1, <3>2, GoodFacts, AcceptStates
  <2>4. strIdx \in -1 .. InFrontOf - 1 /\ Arrives(BackwardWalk(P, str), P.next, j, Error)
    BY <1>3, <2>1, <2>3 DEF BackwardWalked, BackwardError
  <2>5. j \in 0 .. InFrontOf
    BY <2>2, <2>4
  <2> HIDE DEF j
  <2>6. \A b \in Int, k \in 0 .. 8 : ~EndMatches(P, str, b, k)
    BY <2>1, <2>4, <2>5, GoodFacts, BackwardLost DEF InFrontOf
  <2> QED
    BY <1>1, <2>1, <2>6, GoodFacts, NoVerdict DEF Answered
<1>4. CASE BackwardStop
  <2>1. /\ state \in P.bwd /\ P.backward /\ pc = "backward"
        /\ strIdx \in -1 .. Len(str) - 1
        /\ ~(strIdx + 1 >= P.level[state])
        /\ P.level[state] \in Nat
    BY <1>4, BackwardRow, GoodFacts DEF BackwardStop, Good
  <2>2. P.pseudo[state] = NoEnd
    <3>1. P.level[state] # 0
      BY <2>1
    <3> QED
      BY <2>1, <3>1, GoodFacts DEF LevelsAreHonest
  <2>3. pc' = "done" /\ result' = FALSE
    BY <1>4, <2>2 DEF BackwardStop, Return
  <2> DEFINE j == InFrontOf - 1 - strIdx
  <2>4. /\ Ends(str, P.bwdFix)
        /\ strIdx \in -1 .. InFrontOf - 1
        /\ Arrives(BackwardWalk(P, str), P.next, j, state)
    BY <2>1 DEF BackwardWalked
  <2>5. InFrontOf \in Nat
    BY <2>1, <2>4, WalkBegins
  <2>6. j \in 0 .. InFrontOf /\ InFrontOf - j = strIdx + 1
    BY <2>4, <2>5
  <2> HIDE DEF j
  <2>7. ASSUME NEW b \in Int, NEW k \in 0 .. 8, EndMatches(P, str, b, k) PROVE FALSE
    <3>1. b >= 0 /\ b + j + P.level[state] <= InFrontOf
      BY <2>1, <2>4, <2>6, <2>7, GoodFacts, BackwardAhead DEF InFrontOf
    <3> QED
      BY <2>1, <2>5, <2>6, <3>1
  <2> QED
    BY <1>1, <2>1, <2>3, <2>7, GoodFacts, NoVerdict DEF Answered
<1> QED
  BY <1>2, <1>3, <1>4

-----------------------------------------------------------------------------
(* Forwards.                                                               *)

\* Where a code of the part is read, and the automaton is in s, it goes on.
LEMMA CodeWalks ==
    ASSUME Good, P.forward, Begins(str, P.fwdFix),
           NEW i \in Int, i - Len(P.fwdFix) \in 0 .. Behind, i < Len(str),
           NEW s \in P.fwd, Arrives(ForwardWalk(P, str), P.next, i - Len(P.fwdFix), s)
    PROVE  /\ Arrives(ForwardWalk(P, str), P.next, (i + 1) - Len(P.fwdFix), P.next[s][str[i + 1]])
           /\ (i + 1) - Len(P.fwdFix) \in 0 .. Behind
           /\ i \in 0 .. Len(str) - 1
<1> DEFINE fixed == Len(P.fwdFix)
           j == i - fixed
<1>1. /\ fixed \in Nat /\ fixed <= Len(str) /\ Behind = Len(str) - fixed
      /\ Closed(P) /\ str \in Seq(Bytes) /\ Len(str) \in Nat /\ s \in DOMAIN P.next
  BY GoodFacts DEF Begins, Behind
<1>2. /\ j \in 0 .. Len(str) - fixed - 1
      /\ fixed + j + 1 = i + 1 /\ j + 1 = (i + 1) - fixed
      /\ i \in 0 .. Len(str) - 1
  <2>1. fixed \in Nat /\ i - fixed \in 0 .. Len(str) - fixed
    BY <1>1
  <2> HIDE DEF fixed
  <2> QED
    BY <1>1, <2>1
<1>3. Arrives(ForwardWalk(P, str), P.next, j + 1, P.next[s][str[fixed + j + 1]])
  <2>1. Arrives(ForwardWalk(P, str), P.next, j, s)
    OBVIOUS
  <2> HIDE DEF j
  <2> QED
    BY <1>1, <1>2, <2>1, ForwardGoes
<1>4. Arrives(ForwardWalk(P, str), P.next, j + 1, P.next[s][str[i + 1]])
  BY <1>2, <1>3
<1>5. (i + 1) - fixed \in 0 .. Behind
  BY <1>1, <1>2
<1> QED
  BY <1>2, <1>4, <1>5

\* The state in which an escape leads into a middle start is only entered with
\* an escape.
LEMMA EscapesInto ==
    ASSUME Good, P.forward, Begins(str, P.fwdFix),
           NEW i \in Int, i - Len(P.fwdFix) \in 0 .. Behind,
           NEW t \in P.fwd, Arrives(ForwardWalk(P, str), P.next, i - Len(P.fwdFix), t),
           P.next[t][Escape] \in P.skipping
    PROVE  Escaped(i)
<1> DEFINE fixed == Len(P.fwdFix)
           j == i - fixed
           word == [q \in 1 .. Behind |-> str[fixed + q]]
           walk == ForwardWalk(P, str)
<1>1. /\ fixed \in Nat /\ Behind \in Nat /\ word \in [1 .. Behind -> Bytes]
      /\ Steps(walk, P.next, P.fwdStart, word, Behind)
      /\ \A q \in 0 .. Behind : walk[q] \in P.fwd \cup Outcomes
  BY GoodFacts, ForwardSteps DEF Begins, Behind
<1>2. /\ \A s \in P.fwd, c \in Bytes \ {Escape} : P.next[s][c] # t
      /\ t = P.fwdStart => P.fwdFix # << >> /\ P.fwdFix[fixed] = Escape
  BY GoodFacts DEF EscapesComeBack
<1>3. j \in 0 .. Behind /\ Arrives(walk, P.next, j, t) /\ i = fixed + j
  BY <1>1
<1>4. CASE j = 0
  <2>1. t = P.fwdStart
    <3> HIDE DEF walk, word, j
    <3> QED
      BY <1>1, <1>3, <1>4 DEF Steps, Arrives
  <2>2. fixed > 0
    BY <1>2, <2>1, GoodFacts DEF Closed
  <2>3. str[fixed] = P.fwdFix[fixed]
    <3>1. \A q \in 1 .. fixed : str[q] = P.fwdFix[q]
      BY DEF Begins
    <3> HIDE DEF fixed
    <3> QED
      BY <1>1, <2>2, <3>1
  <2> QED
    BY <1>1, <1>2, <1>3, <1>4, <2>1, <2>2, <2>3 DEF Escaped
<1>5. CASE j > 0
  <2>1. j \in 1 .. Behind /\ j - 1 \in 0 .. j - 1 /\ j - 1 \in 0 .. Behind
    <3> HIDE DEF j
    <3> QED
      BY <1>1, <1>3, <1>5
  <2>2. walk[j - 1] \in DOMAIN P.next /\ walk[j - 1] \in P.fwd
    <3> HIDE DEF walk, word, j
    <3>1. walk[j - 1] \in DOMAIN P.next
      BY <1>3, <2>1 DEF Arrives
    <3>2. walk[j - 1] \in P.fwd \cup Outcomes
      BY <1>1, <2>1
    <3> QED
      BY <3>1, <3>2, GoodFacts
  <2>3. t = P.next[walk[j - 1]][word[j]] /\ word[j] \in Bytes
    <3> HIDE DEF walk, word, j
    <3> QED
      BY <1>1, <1>3, <2>1, <2>2 DEF Steps, Arrives
  <2>4. word[j] = Escape
    <3> HIDE DEF walk, word, j
    <3> QED
      BY <1>2, <2>2, <2>3
  <2>5. word[j] = str[i]
    BY <1>3, <2>1
  <2>6. i > 0
    <3> HIDE DEF j, fixed
    <3> QED
      BY <1>1, <1>3, <2>1
  <2> QED
    BY <2>4, <2>5, <2>6 DEF Escaped
<1>6. j = 0 \/ j > 0
  BY <1>3
<1> QED
  BY <1>4, <1>5, <1>6

\* So no middle start is entered with an escape: after an escape there is none.
LEMMA EntersWithoutEscape ==
    ASSUME Good, P.forward, Begins(str, P.fwdFix),
           NEW i \in Int, i - Len(P.fwdFix) \in 0 .. Behind, i < Len(str),
           NEW s \in P.fwd, Arrives(ForwardWalk(P, str), P.next, i - Len(P.fwdFix), s),
           P.next[s][str[i + 1]] \in P.skipping
    PROVE  Skipped(P.next[s][str[i + 1]], i + 1)
<1>1. /\ Arrives(ForwardWalk(P, str), P.next, (i + 1) - Len(P.fwdFix), P.next[s][str[i + 1]])
      /\ i \in 0 .. Len(str) - 1
  BY CodeWalks
<1>2. ASSUME Escaped(i + 1) PROVE FALSE
  <2>1. str[i + 1] = Escape
    BY <1>2 DEF Escaped
  <2>2. Escaped(i)
    BY <2>1, EscapesInto
  <2>3. i \in 1 .. Len(str) - 1 /\ str[i] = Escape
    BY <1>1, <2>2, GoodFacts DEF Escaped
  <2> QED
    BY <2>1, <2>3, GoodFacts
<1> QED
  BY <1>1, <1>2 DEF Skipped

\* A byte that does not stop the skipping is passed as the automaton passes it.
LEMMA PassesOne ==
    ASSUME Good, P.forward, Begins(str, P.fwdFix),
           NEW i \in Int, i - Len(P.fwdFix) \in 0 .. Behind, i < Len(str),
           NEW s \in P.skipping, Skipped(s, i),
           str[i + 1] \notin Stops(s) \/ Escaped(i)
    PROVE  Skipped(s, i + 1) /\ (i + 1) - Len(P.fwdFix) \in 0 .. Behind
<1> DEFINE c == str[i + 1]
           q == P.next[s][Escape]
<1>1. s \in P.fwd /\ Len(P.fwdFix) \in Nat /\ Len(str) \in Nat /\ Behind = Len(str) - Len(P.fwdFix)
  BY GoodFacts DEF Behind
<1>2. /\ i \in 0 .. Len(str) - 1 /\ (i + 1) - Len(P.fwdFix) \in 0 .. Behind
      /\ Escaped(i + 1) <=> c = Escape
      /\ c \in Bytes
  <2>1. i - Len(P.fwdFix) >= 0 /\ i - Len(P.fwdFix) <= Behind
    BY <1>1
  <2>2. i >= 0 /\ i + 1 > 0
    BY <1>1, <2>1
  <2>3. i \in 0 .. Len(str) - 1
    BY <1>1, <2>2
  <2>4. c \in Bytes
    BY <2>3, ReadsInside
  <2>5. Escaped(i + 1) <=> c = Escape
    BY <2>2 DEF Escaped
  <2>6. (i + 1) - Len(P.fwdFix) \in 0 .. Behind
    BY <1>1, <2>1, <2>2
  <2> QED
    BY <2>3, <2>4, <2>5, <2>6
<1>3. CASE Arrives(ForwardWalk(P, str), P.next, i - Len(P.fwdFix), s) /\ ~Escaped(i)
  <2>1. Arrives(ForwardWalk(P, str), P.next, (i + 1) - Len(P.fwdFix), P.next[s][c])
    BY <1>1, <1>3, CodeWalks
  <2>2. CASE c = Escape
    <3>1. LeadsOnlyBack(s)
      BY <1>3, <2>2 DEF Stops
    <3> QED
      BY <1>2, <2>1, <2>2, <3>1 DEF Skipped
  <2>3. CASE c # Escape
    <3>1. c \notin P.bits[s]
      BY <1>3, <2>3 DEF Stops
    <3>2. P.next[s][c] = s
      BY <1>2, <3>1, GoodFacts DEF LevelsAreHonest
    <3> QED
      BY <1>2, <2>1, <2>3, <3>2 DEF Skipped
  <2> QED
    BY <2>2, <2>3
<1>4. CASE /\ Arrives(ForwardWalk(P, str), P.next, i - Len(P.fwdFix), q)
           /\ Escaped(i) /\ LeadsOnlyBack(s)
  <2>1. q \in P.fwd /\ \A d \in Bytes : P.next[q][d] = s
    BY <1>4, GoodFacts DEF EscapesComeBack, LeadsOnlyBack, Real
  <2>2. Arrives(ForwardWalk(P, str), P.next, (i + 1) - Len(P.fwdFix), P.next[q][c])
    <3> HIDE DEF q, c
    <3> QED
      BY <1>4, <2>1, CodeWalks DEF c
  <2>3. c # Escape
    <3>1. i \in 1 .. Len(str) - 1 /\ str[i] = Escape
      BY <1>1, <1>2, <1>4 DEF Escaped
    <3> QED
      BY <3>1, GoodFacts
  <2> QED
    BY <1>2, <2>1, <2>2, <2>3 DEF Skipped
<1> QED
  BY <1>2, <1>3, <1>4 DEF Skipped

\* Bytes none of which stops the skipping are passed like one.
LEMMA PassesMany ==
    ASSUME Good, P.forward, Begins(str, P.fwdFix),
           NEW i \in Int, i - Len(P.fwdFix) \in 0 .. Behind,
           NEW e \in Int, i <= e, e <= Len(str),
           NEW s \in P.skipping, Skipped(s, i),
           \A k \in i .. e - 1 : str[k + 1] \notin Stops(s) \/ Escaped(k)
    PROVE  Skipped(s, e) /\ e - Len(P.fwdFix) \in 0 .. Behind
<1> DEFINE n == e - i
           At(q) == Skipped(s, i + q) /\ (i + q) - Len(P.fwdFix) \in 0 .. Behind
           S == {q \in 0 .. n : At(q)}
<1>1. n \in Nat /\ i + 0 = i /\ i + n = e
  OBVIOUS
<1>2. 0 \in S
  BY <1>1
<1>3. ASSUME NEW q \in 1 .. n, q - 1 \in S PROVE q \in S
  <2> DEFINE k == i + (q - 1)
  <2>1. /\ k \in Int /\ k \in i .. e - 1 /\ k < Len(str) /\ k + 1 = i + q
    <3>1. i \in Int /\ e \in Int /\ n \in Nat /\ q \in 1 .. n /\ Len(str) \in Nat
      BY <1>1, GoodFacts
    <3> QED
      BY <3>1
  <2>2. Skipped(s, k) /\ k - Len(P.fwdFix) \in 0 .. Behind
    BY <1>3
  <2> HIDE DEF k
  <2>3. str[k + 1] \notin Stops(s) \/ Escaped(k)
    BY <2>1
  <2>4. Skipped(s, k + 1) /\ (k + 1) - Len(P.fwdFix) \in 0 .. Behind
    BY <2>1, <2>2, <2>3, PassesOne
  <2>5. At(q)
    BY <2>1, <2>4
  <2> HIDE DEF At, n
  <2> QED
    BY <2>5
<1>4. 0 .. n \subseteq S
  <2> HIDE DEF S, n
  <2> QED
    BY <1>1, <1>2, <1>3, Upwards
<1>5. At(n)
  <2>1. n \in 0 .. n
    BY <1>1
  <2> HIDE DEF At, n
  <2> QED
    BY <1>4, <2>1
<1> QED
  BY <1>1, <1>5

\* What the loops look at, inside of the string.
LEMMA Passed ==
    ASSUME Good, NEW k \in 0 .. Len(str) - 1, MayPass(k)
    PROVE  str[k + 1] \notin Stops(state) \/ Escaped(k)
<1>1. Read(k) = {str[k + 1]}
  BY ReadsInside
<1>2. k > 0 => Read(k - 1) = {str[k]}
  <2>1. k > 0 => k - 1 \in 0 .. Len(str) - 1 /\ (k - 1) + 1 = k
    BY GoodFacts
  <2> QED
    BY <2>1, ReadsInside
<1> QED
  BY <1>1, <1>2 DEF MayPass, Escaped

LEMMA Stopped ==
    ASSUME Good, state \in P.skipping, NEW k \in 0 .. Len(str) - 1, LeaveAt(k)
    PROVE  ~Escaped(k) /\ state' = P.next[state][str[k + 1]]
<1>1. PICK c \in Stoppers(k) :
         IF c \in P.bits[state] THEN state' = P.next[state][c] /\ pc' = pc
         ELSE state' = state /\ pc' = IF llvm THEN "trapped" ELSE pc
  BY DEF LeaveAt
<1>2. c \in P.bits[state]
  BY <1>1, StoppersHaveTransitions DEF Good, IInv
<1>3. c = str[k + 1]
  <2>1. Read(k) = {str[k + 1]} /\ c \in Read(k)
    BY <1>1, ReadsInside DEF Stoppers
  <2> QED
    BY <2>1
<1>4. ASSUME Escaped(k) PROVE FALSE
  <2>1. k > 0 /\ str[k] = Escape /\ k - 1 \in 0 .. Len(str) - 1 /\ (k - 1) + 1 = k
    BY <1>4, GoodFacts DEF Escaped
  <2>2. Read(k - 1) = {Escape}
    BY <2>1, ReadsInside
  <2> QED
    BY <1>1, <2>1, <2>2 DEF Stoppers
<1> QED
  BY <1>1, <1>2, <1>3, <1>4

\* What the walk has to be after a step.
LEMMA StillWalked ==
    ASSUME Good, Begins(str, P.fwdFix), UNCHANGED <<parser, str>>,
           strIdx' - Len(P.fwdFix) \in 0 .. Behind,
           IF state' \in P.skipping THEN Skipped(state', strIdx')
           ELSE Arrives(ForwardWalk(P, str), P.next, strIdx' - Len(P.fwdFix), state')
    PROVE  ForwardWalked'
<1>1. P' = P /\ str' = str /\ Behind' = Behind
  BY DEF P, Behind
<1> QED
  BY <1>1 DEF ForwardWalked, Skipped, Escaped, LeadsOnlyBack, Real

\* From a state of the automaton, one code leads where a step should.
LEMMA OneCode ==
    ASSUME Good, P.forward, Begins(str, P.fwdFix),
           NEW i \in Int, i - Len(P.fwdFix) \in 0 .. Behind, i < Len(str),
           NEW s \in P.fwd, Arrives(ForwardWalk(P, str), P.next, i - Len(P.fwdFix), s),
           UNCHANGED <<parser, str>>,
           strIdx' = i + 1, state' = P.next[s][str[i + 1]]
    PROVE  ForwardWalked'
<1>1. /\ Arrives(ForwardWalk(P, str), P.next, strIdx' - Len(P.fwdFix), state')
      /\ strIdx' - Len(P.fwdFix) \in 0 .. Behind
  BY CodeWalks
<1>2. state' \in P.skipping => Skipped(state', strIdx')
  BY EntersWithoutEscape
<1> QED
  BY <1>1, <1>2, StillWalked

\* A byte or a block that the forward loops pass is passed by the automaton.
LEMMA ForwardStepWalks ==
    ASSUME Good, ForwardWalked,
           ForwardStep \/ SkipBlock \/ SkipByte \/ LeaveFromBlock \/ LeaveFromByte
    PROVE  ForwardWalked'
<1>1. /\ pc = "forward" /\ P.forward /\ state \in P.fwd /\ ForwardGoesOn
      /\ strIdx \in 0 .. ForwardLen - 1 /\ ForwardLen \in 1 .. Len(str)
      /\ MaxIdx \in Int /\ MaxIdx <= ForwardLen - 1
  <2>1. Given /\ IInv /\ PlaceInv /\ TypeOK /\ Compilable(parser)
    BY GoodFacts DEF Good, IInv
  <2>2. ForwardStep \/ Skipping
    BY <2>1, LeavesSomewhere DEF SkipBlock, SkipByte
  <2>3. pc = "forward" /\ Real(state) /\ ForwardGoesOn
    BY <2>1, <2>2, SkipsInARow DEF ForwardStep
  <2> QED
    BY <2>1, <2>3, ForwardRow DEF IInv, InTheirTables, PlaceInv, PartInv
<1>2. /\ Begins(str, P.fwdFix)
      /\ strIdx - Len(P.fwdFix) \in 0 .. Behind
      /\ IF state \in P.skipping THEN Skipped(state, strIdx)
         ELSE Arrives(ForwardWalk(P, str), P.next, strIdx - Len(P.fwdFix), state)
  BY <1>1 DEF ForwardWalked
<1>3. /\ strIdx \in Int /\ strIdx < Len(str) /\ strIdx \in 0 .. Len(str) - 1
      /\ Len(str) \in Nat /\ Block \in Nat /\ Block > 0
  BY <1>1, GoodFacts, InUse DEF Good, IInv
<1>4. CASE ForwardStep
  <2>1. PICK c \in Read(strIdx) : state' = P.next[state][c]
    BY <1>4 DEF ForwardStep
  <2>2. c = str[strIdx + 1]
    BY <1>3, <2>1, ReadsInside
  <2>3. /\ state \notin P.skipping /\ strIdx' = strIdx + 1 /\ UNCHANGED <<parser, str>>
    BY <1>4 DEF ForwardStep, choices
  <2> QED
    BY <1>1, <1>2, <1>3, <2>1, <2>2, <2>3, OneCode
<1>5. CASE SkipByte \/ SkipBlock
  <2>1. PICK e \in Int : /\ strIdx' = e
                         /\ state \in P.skipping /\ state' = state /\ UNCHANGED <<parser, str>>
                         /\ strIdx <= e /\ e <= Len(str)
                         /\ \A k \in strIdx .. e - 1 : MayPass(k)
    <3>1. CASE SkipByte
      BY <1>3, <3>1 DEF SkipByte, Skipping, choices
    <3>2. CASE SkipBlock
      <4>1. strIdx' = strIdx + Block /\ strIdx' <= Len(str)
        BY <1>1, <1>3, <3>2 DEF SkipBlock, BlockFits
      <4> QED
        BY <1>3, <3>2, <4>1 DEF SkipBlock, Skipping, choices, InBlock
    <3> QED
      BY <1>5, <3>1, <3>2
  <2>2. \A k \in strIdx .. e - 1 : str[k + 1] \notin Stops(state) \/ Escaped(k)
    <3> TAKE k \in strIdx .. e - 1
    <3>1. k \in 0 .. Len(str) - 1
      <4>1. strIdx \in Nat /\ e \in Int /\ e <= Len(str) /\ Len(str) \in Nat
        BY <1>3, <2>1
      <4> QED
        BY <4>1
    <3>2. MayPass(k)
      BY <2>1
    <3> QED
      BY <3>1, <3>2, Passed
  <2>3. Skipped(state, e) /\ e - Len(P.fwdFix) \in 0 .. Behind
    BY <1>1, <1>2, <1>3, <2>1, <2>2, PassesMany
  <2> QED
    BY <1>2, <2>1, <2>3, StillWalked
<1>6. CASE LeaveFromByte \/ LeaveFromBlock
  <2>1. PICK i \in Int : /\ i \in 0 .. Len(str) - 1 /\ strIdx <= i
                         /\ LeaveAt(i)
                         /\ \A k \in strIdx .. i - 1 : MayPass(k)
    <3>1. CASE LeaveFromByte
      <4>1. strIdx .. strIdx - 1 = {}
        BY <1>3
      <4> QED
        BY <1>3, <3>1, <4>1 DEF LeaveFromByte
    <3>2. CASE LeaveFromBlock
      <4>1. PICK i \in InBlock : LeaveAt(i) /\ \A k \in strIdx .. i - 1 : MayPass(k)
        BY <3>2 DEF LeaveFromBlock
      <4>2. i \in Int /\ i \in 0 .. Len(str) - 1 /\ strIdx <= i
        BY <1>1, <1>3, <3>2, <4>1 DEF LeaveFromBlock, InBlock, BlockFits
      <4> QED
        BY <4>1, <4>2
    <3> QED
      BY <1>6, <3>1, <3>2
  <2>2. state \in P.skipping
    BY <1>6 DEF LeaveFromByte, LeaveFromBlock, Skipping
  <2>3. \A k \in strIdx .. i - 1 : str[k + 1] \notin Stops(state) \/ Escaped(k)
    <3> TAKE k \in strIdx .. i - 1
    <3>1. k \in 0 .. Len(str) - 1
      <4>1. strIdx \in 0 .. Len(str) - 1 /\ i \in 0 .. Len(str) - 1 /\ Len(str) \in Nat
        BY <1>3, <2>1
      <4> QED
        BY <4>1
    <3>2. MayPass(k)
      BY <2>1
    <3> QED
      BY <3>1, <3>2, Passed
  <2>4. i < Len(str) /\ i <= Len(str)
    BY <1>3, <2>1
  <2>5. Skipped(state, i) /\ i - Len(P.fwdFix) \in 0 .. Behind
    BY <1>1, <1>2, <1>3, <2>1, <2>2, <2>3, <2>4, PassesMany
  <2>6. ~Escaped(i) /\ state' = P.next[state][str[i + 1]]
    BY <2>1, <2>2, Stopped
  <2>7. Arrives(ForwardWalk(P, str), P.next, i - Len(P.fwdFix), state)
    BY <2>5, <2>6 DEF Skipped
  <2>8. strIdx' = i + 1 /\ UNCHANGED <<parser, str>>
    BY <2>1 DEF LeaveAt, choices
  <2> QED
    BY <1>1, <1>2, <2>1, <2>4, <2>5, <2>6, <2>7, <2>8, OneCode
<1> QED
  BY <1>4, <1>5, <1>6

-----------------------------------------------------------------------------
(* The answers.                                                            *)

\* A match of the beginning is as long as the generated code asks for; a match
\* of the end leaves as much behind the code it begins in.
LEMMA BeginNeeds ==
    ASSUME Good, P.forward, NEW n \in Int, NEW m \in 0 .. 8, BeginMatches(P, str, n, m)
    PROVE  n >= P.fwdMin /\ P.fwdMin \in Nat
<1>1. /\ Begins(str, P.fwdFix) /\ P.fwdMin \in Nat /\ Len(P.fwdFix) \in Nat
      /\ n - Len(P.fwdFix) \in 0 .. Behind
  <2>1. Begins(str, P.fwdFix)
    BY DEF BeginMatches
  <2> DEFINE word == [i \in 1 .. Behind |-> str[Len(P.fwdFix) + i]]
  <2>2. Steps(ForwardWalk(P, str), P.next, P.fwdStart, word, Behind)
    BY <2>1, GoodFacts, ForwardSteps DEF Behind, Begins
  <2> HIDE DEF word
  <2>3. n - Len(P.fwdFix) \in 0 .. Behind
    BY <2>2 DEF BeginMatches, Steps
  <2> QED
    BY <2>1, <2>3, GoodFacts DEF Compilable, P
<1>2. P.fwdMin <= Len(P.fwdFix) + IF P.fwdStart \in P.fwd THEN P.level[P.fwdStart] ELSE 0
  BY GoodFacts DEF AsksForNoMore
<1>3. CASE P.fwdStart \in P.fwd
  <2>1. Behind \in Nat /\ Arrives(ForwardWalk(P, str), P.next, 0, P.fwdStart)
    BY <1>1, WalkBegins
  <2>2. n >= Len(P.fwdFix) + 0 + P.level[P.fwdStart]
    <3>1. 0 \in 0 .. Len(str) - Len(P.fwdFix)
      BY <2>1 DEF Behind
    <3> QED
      BY <1>1, <1>3, <2>1, <3>1, GoodFacts, ForwardAhead
  <2> QED
    BY <1>1, <1>2, <1>3, <2>2, GoodFacts
<1>4. CASE P.fwdStart \notin P.fwd
  <2>1. n >= Len(P.fwdFix)
    BY <1>1, GoodFacts DEF Behind
  <2> QED
    BY <1>1, <1>2, <1>4, <2>1
<1> QED
  BY <1>3, <1>4

LEMMA EndNeeds ==
    ASSUME Good, P.backward, NEW b \in Int, NEW k \in 0 .. 8, EndMatches(P, str, b, k)
    PROVE  b + P.bwdMin <= Len(str) /\ P.bwdMin \in Nat
<1>1. /\ Ends(str, P.bwdFix) /\ P.bwdMin \in Nat /\ Len(P.bwdFix) \in Nat
      /\ P.bwdStart \in P.bwd
  BY GoodFacts DEF Compilable, P, EndMatches, Closed
<1>2. InFrontOf \in Nat /\ Arrives(BackwardWalk(P, str), P.next, 0, P.bwdStart)
  BY <1>1, WalkBegins
<1>3. b + 0 + P.level[P.bwdStart] <= Len(str) - Len(P.bwdFix)
  <2>1. 0 \in 0 .. Len(str) - Len(P.bwdFix)
    BY <1>2 DEF InFrontOf
  <2> QED
    BY <1>1, <1>2, <2>1, GoodFacts, BackwardAhead
<1>4. P.bwdMin <= Len(P.bwdFix) + P.level[P.bwdStart]
  BY GoodFacts DEF AsksForNoMore
<1>5. P.level[P.bwdStart] \in Nat /\ Len(str) \in Nat
  BY <1>1, GoodFacts
<1> QED
  BY <1>1, <1>3, <1>4, <1>5

\* So a string that is too short does not match.
LEMMA TooShortForAMatch ==
    ASSUME Good, TooShort
    PROVE  Verdict(P, str) = FALSE
<1>1. P.forward \/ P.backward
  BY DEF TooShort
<1>2. Len(str) < MinLength /\ Len(str) \in Nat /\ LevelRange \in Nat \ {0}
  BY GoodFacts DEF TooShort
<1> SUFFICES ASSUME Verdict(P, str) PROVE FALSE
  BY DEF Verdict
<1>3. PICK b \in 0 .. Len(str) - 1, k \in 0 .. 8 :
         /\ IF P.backward THEN EndMatches(P, str, b, k) ELSE b = Len(str) - 1 /\ k = 8
         /\ P.forward => \E n \in 0 .. b + 1, m \in 0 .. 8 : BeginMatches(P, str, n, m)
  BY DEF Verdict
<1>4. b \in Int /\ b >= 0
  BY <1>2, <1>3
<1>5. ASSUME P.backward PROVE b + P.bwdMin <= Len(str) /\ P.bwdMin \in Nat
  BY <1>3, <1>4, <1>5, EndNeeds
<1>6. ASSUME P.forward PROVE P.fwdMin <= b + 1 /\ P.fwdMin \in Nat /\ P.fwdMin > 0
  <2>1. PICK n \in 0 .. b + 1, m \in 0 .. 8 : BeginMatches(P, str, n, m)
    BY <1>3, <1>6
  <2>2. n \in Int /\ n <= b + 1
    BY <1>4
  <2>3. n >= P.fwdMin /\ P.fwdMin \in Nat
    BY <1>6, <2>1, <2>2, BeginNeeds
  <2> QED
    BY <1>4, <1>6, <2>2, <2>3, GoodFacts DEF Compilable, P
<1>7. CASE P.forward /\ P.backward
  <2>1. P.fwdMin + P.bwdMin <= LevelRange
    BY GoodFacts DEF Compilable, P
  <2>2. P.fwdMin + P.bwdMin - 1 \in 0 .. LevelRange - 1
    BY <1>2, <1>5, <1>6, <1>7, <2>1
  <2>3. MinLength = P.fwdMin + P.bwdMin - 1
    BY <1>2, <1>7, <2>2, Unwrapped DEF MinLength
  <2> QED
    BY <1>2, <1>4, <1>5, <1>6, <1>7, <2>3
<1>8. CASE P.forward /\ ~P.backward
  BY <1>2, <1>3, <1>4, <1>6, <1>8 DEF MinLength
<1>9. CASE ~P.forward /\ P.backward
  BY <1>2, <1>4, <1>5, <1>9 DEF MinLength
<1> QED
  BY <1>1, <1>7, <1>8, <1>9

\* Where the end matches, with or without a backward function.
LEMMA EndKnown ==
    ASSUME Good, StartInv, EndFound, pc \in {"room", "prefix", "forward"}
    PROVE  /\ EndIsAt(P, str, backIdx, backSym)
           /\ backIdx \in 0 .. Len(str) - 1 /\ backSym \in 0 .. 8
           /\ ForwardLen = backIdx + 1
<1>1. EndIsAt(P, str, backIdx, backSym)
  BY DEF EndFound
<1>2. ForwardLen \in 1 .. Len(str)
  BY DEF Good, PlaceInv, PartInv
<1> QED
  BY <1>1, <1>2, GoodFacts DEF ForwardLen

\* The forward loop stops when fewer codes are left than the level asks for,
\* whatever the compiler compares.
LEMMA StopsShort ==
    ASSUME Good, pc = "forward", state \in P.fwd, ~ForwardGoesOn
    PROVE  strIdx + P.level[state] > ForwardLen
<1> DEFINE level == P.level[state]
<1>1. /\ strIdx \in 0 .. ForwardLen /\ ForwardLen \in 1 .. Len(str)
      /\ Len(str) \in Nat /\ 2 * Len(str) < LevelRange /\ LevelRange \in Nat \ {0}
  BY GoodFacts DEF Good, PlaceInv, ForwardInv, PartInv
<1>2. /\ level \in Nat /\ level >= 1 /\ level + Len(str) < LevelRange
      /\ LevelOf(state) = level /\ Signed(level) = level
  <2>1. Given /\ TypeOK /\ Compilable(parser)
    BY GoodFacts DEF Good, IInv
  <2>2. state \in DOMAIN P.next
    BY GoodFacts
  <2> QED
    BY <2>1, <2>2, LevelsInUse DEF LevelOf, Real
<1> HIDE DEF level
<1>3. ASSUME strIdx + level <= ForwardLen PROVE FALSE
  <2>1. ForwardLen \in 0 .. LevelRange - 1 /\ strIdx + level \in 0 .. LevelRange - 1
        /\ ForwardLen - level \in 0 .. LevelRange - 1 /\ 2 * (ForwardLen - level) < LevelRange
    BY <1>1, <1>2, <1>3
  <2>2. /\ Wrapped(ForwardLen) = ForwardLen /\ Wrapped(strIdx + level) = strIdx + level
        /\ Wrapped(ForwardLen - level) = ForwardLen - level
    BY <1>1, <2>1, Unwrapped
  <2>3. MaxIdx = ForwardLen - level
    <3>1. Signed(ForwardLen - level) = ForwardLen - level
      BY <1>1, <2>1 DEF Signed
    <3> QED
      BY <1>2, <2>2, <3>1 DEF MaxIdx
  <2>4. CppLoopGoesOn /\ LlvmLoopGoesOn
    BY <1>2, <1>3, <2>2 DEF CppLoopGoesOn, LlvmLoopGoesOn
  <2>5. strIdx <= MaxIdx
    BY <1>1, <1>2, <1>3, <2>3
  <2> QED
    BY <2>4, <2>5 DEF ForwardGoesOn
<1> QED
  BY <1>1, <1>2, <1>3 DEF level

\* From where the walk is, a match takes as many codes as the level says, one
\* that the code keeps for a state in which an escape was passed included.
LEMMA MatchIsAhead ==
    ASSUME Good, ForwardWalked, pc = "forward", P.forward, state \in P.fwd,
           NEW n \in Int, NEW m \in 0 .. 8, BeginMatches(P, str, n, m)
    PROVE  n >= strIdx + P.level[state]
<1> DEFINE fixed == Len(P.fwdFix)
           j == strIdx - fixed
<1>1. /\ Begins(str, P.fwdFix) /\ fixed \in Nat
      /\ strIdx \in Int /\ strIdx - fixed \in 0 .. Behind /\ Behind = Len(str) - fixed
      /\ P.level[state] \in Nat
  BY GoodFacts DEF ForwardWalked, Behind
<1>2. ASSUME NEW i \in Int, i - fixed \in 0 .. Behind, NEW s \in P.fwd,
             Arrives(ForwardWalk(P, str), P.next, i - fixed, s)
      PROVE  n >= i + P.level[s]
  <2>1. i - fixed \in 0 .. Len(str) - Len(P.fwdFix)
    BY <1>1, <1>2
  <2>2. n >= Len(P.fwdFix) + (i - fixed) + P.level[s]
    BY <1>1, <1>2, <2>1, GoodFacts, ForwardAhead
  <2>3. P.level[s] \in Nat
    BY <1>2, GoodFacts
  <2> HIDE DEF fixed
  <2> QED
    BY <1>1, <1>2, <2>2, <2>3 DEF fixed
<1>3. CASE Arrives(ForwardWalk(P, str), P.next, strIdx - fixed, state)
  BY <1>1, <1>2, <1>3
<1>4. CASE /\ state \in P.skipping
           /\ Arrives(ForwardWalk(P, str), P.next, strIdx - fixed, P.next[state][Escape])
           /\ Escaped(strIdx) /\ LeadsOnlyBack(state)
  <2> DEFINE q == P.next[state][Escape]
  <2>1. q \in P.fwd /\ \A d \in Bytes : P.next[q][d] = state
    BY <1>4, GoodFacts DEF EscapesComeBack, LeadsOnlyBack, Real
  <2> HIDE DEF q
  <2>2. Arrives(ForwardWalk(P, str), P.next, strIdx - fixed, q)
    BY <1>4 DEF q
  <2>3. CASE strIdx < Len(str)
    <3>1. /\ Arrives(ForwardWalk(P, str), P.next, (strIdx + 1) - fixed, P.next[q][str[strIdx + 1]])
          /\ (strIdx + 1) - fixed \in 0 .. Behind
          /\ strIdx \in 0 .. Len(str) - 1
      BY <1>1, <2>1, <2>2, <2>3, CodeWalks
    <3>2. P.next[q][str[strIdx + 1]] = state
      BY <2>1, <3>1, ReadsInside
    <3>3. n >= (strIdx + 1) + P.level[state]
      <4>1. strIdx + 1 \in Int
        BY <1>1
      <4> HIDE DEF fixed
      <4> QED
        BY <1>2, <3>1, <3>2, <4>1
    <3> QED
      BY <1>1, <3>3
  <2>4. CASE strIdx >= Len(str)
    <3>1. n >= strIdx + P.level[q] /\ P.level[q] \in Nat /\ P.level[q] >= 1
      <4>1. P.level[q] >= 1 /\ P.level[q] \in Nat
        <5>1. Given /\ TypeOK /\ Compilable(parser)
          BY GoodFacts DEF Good, IInv
        <5> QED
          BY <2>1, <5>1, LevelsInUse
      <4> QED
        BY <1>1, <1>2, <2>1, <2>2, <4>1
    <3>2. n <= Len(str)
      <4> DEFINE word == [i \in 1 .. Behind |-> str[Len(P.fwdFix) + i]]
      <4>1. Steps(ForwardWalk(P, str), P.next, P.fwdStart, word, Behind)
        BY <1>1, GoodFacts, ForwardSteps DEF Behind, Begins
      <4> HIDE DEF word
      <4>2. n - fixed \in 0 .. Behind
        BY <4>1 DEF BeginMatches, Steps
      <4> QED
        BY <1>1, <4>2, GoodFacts
    <3> QED
      BY <1>1, <2>4, <3>1, <3>2, GoodFacts
  <2> QED
    BY <1>1, <2>3, <2>4, GoodFacts
<1> QED
  BY <1>3, <1>4 DEF ForwardWalked, Skipped

\* Every answer behind the search for the end is the verdict.
LEMMA ForwardAnswers ==
    ASSUME Good, StartInv, EndFound, ForwardWalked,
           \/ OnlyBackwards \/ NoRoomForward \/ PrefixDiffers
           \/ ForwardAccept \/ ForwardStop \/ ForwardError
    PROVE  pc' = "done" /\ Answered'
<1>1. UNCHANGED <<parser, str>> /\ P' = P /\ pc \in {"room", "prefix", "forward"}
  BY DEF OnlyBackwards, NoRoomForward, PrefixDiffers, ForwardAccept, ForwardStop, ForwardError,
         Return, P, choices
<1>2. /\ EndIsAt(P, str, backIdx, backSym)
      /\ backIdx \in 0 .. Len(str) - 1 /\ backSym \in 0 .. 8
      /\ ForwardLen = backIdx + 1
  BY <1>1, EndKnown
<1>3. Len(str) \in Nat /\ str \in Seq(Bytes) /\ Closed(P) /\ OutcomesDiffer /\ Len(P.fwdFix) \in Nat
  BY GoodFacts
<1>4. CASE OnlyBackwards
  <2>1. pc' = "done" /\ result' = TRUE /\ ~P.forward
    BY <1>4 DEF OnlyBackwards, Return
  <2>2. Verdict(P, str)
    BY <1>2, <1>3, <2>1, VerdictAt
  <2>3. Verdict(P, str) = TRUE
    BY <2>2 DEF Verdict
  <2> QED
    BY <1>1, <2>1, <2>3 DEF Answered
<1>5. CASE NoRoomForward \/ PrefixDiffers
  <2>1. pc' = "done" /\ result' = FALSE /\ P.forward
    BY <1>5 DEF NoRoomForward, PrefixDiffers, Return, Good, IInv, InTheirTables
  <2>2. ASSUME NEW n \in 0 .. backIdx + 1, NEW m \in 0 .. 8, BeginMatches(P, str, n, m)
        PROVE  FALSE
    <3>1. CASE PrefixDiffers
      BY <2>2, <3>1, PrefixCompares DEF PrefixDiffers, BeginMatches
    <3>2. CASE NoRoomForward
      <4>1. n \in Int /\ n <= backIdx + 1 /\ n >= P.fwdMin /\ P.fwdMin \in Nat
        <5>1. n \in Int /\ n <= backIdx + 1
          BY <1>2
        <5> QED
          BY <2>1, <2>2, <5>1, BeginNeeds
      <4>2. P.fwdMin > 0 /\ P.fwdMin <= LevelRange /\ Len(str) < LevelRange /\ LevelRange \in Nat \ {0}
        <5>1. P.bwdMin \in Nat /\ P.fwdMin > 0 /\ P.fwdMin + P.bwdMin <= LevelRange
          BY <2>1, GoodFacts DEF Compilable, P
        <5> QED
          BY <4>1, <5>1, GoodFacts
      <4>3. /\ ForwardLen \in 0 .. LevelRange - 1
            /\ backIdx \in 0 .. LevelRange - 1
            /\ P.fwdMin - 1 \in 0 .. LevelRange - 1
        BY <1>2, <1>3, <4>1, <4>2
      <4>4. /\ Wrapped(ForwardLen) = ForwardLen
            /\ Wrapped(backIdx) = backIdx
            /\ Wrapped(P.fwdMin - 1) = P.fwdMin - 1
        BY <4>2, <4>3, Unwrapped
      <4>5. ForwardLen < P.fwdMin
        BY <1>2, <3>2, <4>1, <4>4 DEF NoRoomForward, NoRoom
      <4> QED
        BY <1>2, <4>1, <4>5
    <3> QED
      BY <1>5, <3>1, <3>2
  <2>3. Verdict(P, str) = FALSE
    BY <1>2, <1>3, <2>1, <2>2, VerdictOfNone
  <2> QED
    BY <1>1, <2>1, <2>3 DEF Answered
<1>6. CASE ForwardAccept \/ ForwardStop \/ ForwardError
  <2> DEFINE j == strIdx - Len(P.fwdFix)
  <2>1. /\ pc = "forward" /\ P.forward
        /\ Begins(str, P.fwdFix)
        /\ j \in 0 .. Len(str) - Len(P.fwdFix)
        /\ state \notin P.fwd => Arrives(ForwardWalk(P, str), P.next, j, state)
    <3>1. pc = "forward" /\ P.forward
      BY <1>6 DEF ForwardAccept, ForwardStop, ForwardError, Good, IInv, InTheirTables
    <3>2. state \notin P.fwd => state \notin P.skipping
      BY GoodFacts
    <3> QED
      BY <3>1, <3>2 DEF ForwardWalked, Behind
  <2>2. strIdx \in 0 .. backIdx + 1 /\ strIdx = Len(P.fwdFix) + j
    BY <1>2, <1>3, <2>1, GoodFacts DEF Good, PlaceInv, ForwardInv
  <2> HIDE DEF j
  <2>3. CASE ForwardAccept
    <3>1. PICK k \in 0 .. 8 : /\ state = Accept(k)
                              /\ result' = (~P.backward \/ strIdx - 1 < backIdx \/ k <= backSym)
      BY <2>3 DEF ForwardAccept
    <3>2. Verdict(P, str) <=> Len(P.fwdFix) + j <= backIdx \/ k <= backSym
      <4>1. state \notin P.fwd
        BY <3>1, AcceptKinds, GoodFacts
      <4>2. /\ Len(P.fwdFix) + j <= backIdx + 1
            /\ Arrives(ForwardWalk(P, str), P.next, j, Accept(k))
        BY <1>2, <2>1, <2>2, <3>1, <4>1
      <4> QED
        BY <1>2, <1>3, <2>1, <4>2, VerdictOfMatch
    <3>3. result' = Verdict(P, str)
      <4>1. Verdict(P, str) \in BOOLEAN /\ result' \in BOOLEAN
        BY <3>1 DEF Verdict
      <4>2. strIdx - 1 < backIdx <=> Len(P.fwdFix) + j <= backIdx
        BY <1>2, <2>2
      <4>3. ~P.backward => k <= backSym
        BY <3>1 DEF StartInv
      <4> QED
        BY <3>1, <3>2, <4>1, <4>2, <4>3
    <3> QED
      BY <1>1, <2>3, <3>3 DEF Answered, ForwardAccept
  <2>4. CASE ForwardStop
    <3>1. pc' = "done" /\ result' = FALSE /\ state \in P.fwd /\ ~ForwardGoesOn
      <4>1. Given /\ TypeOK
        BY DEF Good, IInv
      <4>2. state \in P.fwd \cup P.bwd /\ state \in P.fwd \cup Outcomes
        BY <2>1, <2>4, <4>1, Kinds DEF ForwardStop, Good, IInv, InTheirTables
      <4>3. state \notin Outcomes
        BY <4>1, <4>2, Kinds
      <4> QED
        BY <2>4, <4>2, <4>3 DEF ForwardStop, Return
    <3>2. strIdx + P.level[state] > backIdx + 1 /\ P.level[state] \in Nat
      BY <1>2, <2>1, <3>1, StopsShort, GoodFacts
    <3>3. ASSUME NEW n \in 0 .. backIdx + 1, NEW m \in 0 .. 8, BeginMatches(P, str, n, m)
          PROVE  FALSE
      <4>1. n \in Int
        OBVIOUS
      <4>2. n >= strIdx + P.level[state]
        BY <2>1, <3>1, <3>3, <4>1, MatchIsAhead
      <4> QED
        BY <1>2, <2>2, <3>2, <4>1, <4>2
    <3>4. Verdict(P, str) = FALSE
      BY <1>2, <1>3, <2>1, <3>3, VerdictOfNone
    <3> QED
      BY <1>1, <3>1, <3>4 DEF Answered
  <2>5. CASE ForwardError
    <3>1. pc' = "done" /\ result' = FALSE /\ state = Error /\ state \notin P.fwd
      BY <2>5, GoodFacts DEF ForwardError, Return, Outcomes
    <3>2. ASSUME NEW n \in 0 .. backIdx + 1, NEW m \in 0 .. 8 PROVE ~BeginMatches(P, str, n, m)
      <4>1. n \in Int
        OBVIOUS
      <4> QED
        BY <1>3, <2>1, <3>1, <4>1, ForwardLost
    <3>3. Verdict(P, str) = FALSE
      BY <1>2, <1>3, <2>1, <3>2, VerdictOfNone
    <3> QED
      BY <1>1, <3>1, <3>3 DEF Answered
  <2> QED
    BY <1>6, <2>3, <2>4, <2>5
<1> QED
  BY <1>4, <1>5, <1>6

\* Every step keeps what is known of the walks and of the answer.
LEMMA VerdictStep ==
    ASSUME Good, VerdictInv, [Next]_vars
    PROVE  VerdictInv'
<1> USE DEF VerdictInv, choices
<1>1. CASE CompileThrows \/ LongEnough
  BY <1>1 DEF CompileThrows, LongEnough, Goto, StartInv, EndFound, EndIsAt, BackwardWalked, ForwardWalked, Answered, P
<1>2. CASE TooShort
  <2>1. Verdict(P, str) = FALSE /\ P' = P
    BY <1>2, TooShortForAMatch DEF TooShort, Return, P
  <2> QED
    BY <1>2, <2>1 DEF TooShort, Return, StartInv, EndFound, BackwardWalked, ForwardWalked, Answered
<1>3. CASE SuffixEqual
  <2>1. /\ UNCHANGED <<parser, str, backIdx, backSym>> /\ P' = P
        /\ P.backward /\ Ends(str, P.bwdFix)
        /\ pc' = "backward" /\ state' = P.bwdStart
        /\ strIdx' = Len(str) - 1 - Len(P.bwdFix)
    BY <1>3, SuffixCompares DEF SuffixEqual, P, Good, IInv, InTheirTables
  <2>2. InFrontOf \in Nat /\ Arrives(BackwardWalk(P, str), P.next, 0, P.bwdStart)
    BY <2>1, WalkBegins
  <2>3. InFrontOf' = InFrontOf
    BY <2>1 DEF InFrontOf
  <2>4. InFrontOf - 1 - strIdx' = 0 /\ strIdx' \in -1 .. InFrontOf - 1
    BY <2>1, <2>2, GoodFacts DEF InFrontOf
  <2>5. BackwardWalked'
    BY <2>1, <2>2, <2>3, <2>4 DEF BackwardWalked
  <2> QED
    BY <2>1, <2>5 DEF StartInv, EndFound, ForwardWalked, Answered
<1>4. CASE BackwardStep
  <2>1. BackwardWalked'
    BY <1>4, BackwardStepWalks
  <2> QED
    BY <1>4, <2>1 DEF BackwardStep, StartInv, EndFound, ForwardWalked, Answered, P
<1>5. CASE BackwardAccept
  <2>1. EndFound'
    BY <1>5, BackwardAcceptFinds
  <2>2. P' = P /\ P.backward /\ pc' = "room"
    BY <1>5 DEF BackwardAccept, P, Good, IInv, InTheirTables
  <2> QED
    BY <2>1, <2>2 DEF BackwardWalked, StartInv, ForwardWalked, Answered
<1>6. CASE SuffixDiffers \/ BackwardError \/ BackwardStop
  <2>1. pc' = "done" /\ Answered'
    BY <1>6, BackwardGivesUp
  <2>2. P' = P /\ P.backward
    BY <1>6 DEF SuffixDiffers, BackwardError, BackwardStop, Return, P, Good, IInv, InTheirTables
  <2> QED
    BY <2>1, <2>2 DEF BackwardWalked, EndFound, StartInv, ForwardWalked
<1>7. CASE RoomForward
  BY <1>7 DEF RoomForward, Goto, StartInv, EndFound, BackwardWalked, ForwardWalked, Answered, P
<1>8. CASE PrefixEqual
  <2>1. /\ UNCHANGED <<parser, str, backIdx, backSym>> /\ P' = P
        /\ pc = "prefix" /\ P.forward /\ Begins(str, P.fwdFix)
        /\ pc' = "forward" /\ strIdx' = Len(P.fwdFix) /\ state' = P.fwdStart
    BY <1>8, PrefixCompares DEF PrefixEqual, P, Good, IInv, InTheirTables
  <2>2. Behind \in Nat /\ Arrives(ForwardWalk(P, str), P.next, 0, P.fwdStart)
    BY <2>1, WalkBegins
  <2>3. strIdx' - Len(P.fwdFix) = 0 /\ strIdx' - Len(P.fwdFix) \in 0 .. Behind
    BY <2>1, <2>2, GoodFacts
  <2>4. ASSUME P.fwdStart \in P.skipping PROVE Skipped(P.fwdStart, strIdx')
    <3>1. P.fwdFix = << >> \/ P.fwdFix[Len(P.fwdFix)] # Escape
      BY <2>4, GoodFacts DEF EscapesComeBack
    <3>2. ~Escaped(Len(P.fwdFix))
      <4>1. Len(P.fwdFix) > 0 => str[Len(P.fwdFix)] = P.fwdFix[Len(P.fwdFix)]
        BY <2>1, GoodFacts DEF Begins
      <4>2. P.fwdFix = << >> => Len(P.fwdFix) = 0
        OBVIOUS
      <4> QED
        BY <3>1, <4>1, <4>2 DEF Escaped
    <3> QED
      BY <2>1, <2>2, <2>3, <3>2 DEF Skipped
  <2>5. ForwardWalked'
    BY <2>1, <2>2, <2>3, <2>4, StillWalked
  <2> QED
    BY <2>1, <2>5 DEF StartInv, BackwardWalked, EndFound, Answered
<1>9. CASE ForwardStep \/ SkipBlock \/ SkipByte \/ LeaveFromBlock \/ LeaveFromByte
  <2>1. ForwardWalked'
    BY <1>9, ForwardStepWalks
  <2>2. pc = "forward" /\ pc' = pc /\ UNCHANGED <<parser, str, backIdx, backSym>> /\ P' = P
    <3>1. Given /\ TypeOK
      BY DEF Good, IInv
    <3> QED
      BY <1>9, <3>1, LeavesSomewhere, LeaveStep DEF ForwardStep, SkipBlock, SkipByte, Skipping, P
  <2> QED
    BY <2>1, <2>2 DEF StartInv, BackwardWalked, EndFound, Answered
<1>10. CASE OnlyBackwards \/ NoRoomForward \/ PrefixDiffers \/ ForwardAccept \/ ForwardStop \/ ForwardError
  <2>1. pc' = "done" /\ Answered'
    BY <1>10, ForwardAnswers
  <2>2. UNCHANGED <<parser, str, backIdx, backSym>> /\ P' = P
    BY <1>10 DEF OnlyBackwards, NoRoomForward, PrefixDiffers, ForwardAccept, ForwardStop, ForwardError, Return, P
  <2> QED
    BY <2>1, <2>2 DEF StartInv, BackwardWalked, EndFound, ForwardWalked
<1>11. CASE UNCHANGED vars
  BY <1>11 DEF vars, StartInv, BackwardWalked, EndFound, ForwardWalked, Skipped, Escaped,
               LeadsOnlyBack, Real, Answered, P, InFrontOf, Behind
<1> QED
  BY <1>1, <1>2, <1>3, <1>4, <1>5, <1>6, <1>7, <1>8, <1>9, <1>10, <1>11 DEF Next, Backward, Forward

\* The generated matchers answer what the automata say.  That the code asks
\* for a length first, compares levels with a sign or without, skips by bytes
\* or by blocks of any size, and leaves escapes out makes no difference: for
\* any sound automata, strings, and bytes around them, the answer is the one
\* that the table-driven matcher returns.
THEOREM GeneratedVerdict ==
    ASSUME Given, OutcomesDiffer
    PROVE  Spec => []ReturnsVerdict
<1>1. Init => (Faithful(parser) => VerdictInv)
  BY DEF Init, VerdictInv, StartInv, BackwardWalked, EndFound, ForwardWalked, Answered
<1>2. IInv /\ (Faithful(parser) => VerdictInv) /\ (Compilable(parser) => PlaceInv) /\ [Next]_vars
         => (Faithful(parser) => VerdictInv)'
  <2> SUFFICES ASSUME IInv, Faithful(parser) => VerdictInv, Compilable(parser) => PlaceInv, [Next]_vars,
                      Faithful(parser)'
               PROVE  VerdictInv'
    OBVIOUS
  <2>1. parser' = parser
    BY LeavesSomewhere DEF IInv, Next, Backward, Forward, vars, choices, CompileThrows, TooShort, LongEnough,
       SuffixDiffers, SuffixEqual, BackwardStep, BackwardAccept, BackwardStop, BackwardError, OnlyBackwards,
       NoRoomForward, RoomForward, PrefixDiffers, PrefixEqual, ForwardStep, SkipBlock, SkipByte,
       LeaveFromBlock, LeaveFromByte, LeaveAt, ForwardAccept, ForwardStop, ForwardError, Return, Goto
  <2>2. Faithful(parser)
    BY <2>1
  <2>3. Compilable(parser)
    BY <2>2 DEF Faithful
  <2> QED
    BY <2>2, <2>3, VerdictStep DEF Good
<1>3. (Faithful(parser) => VerdictInv) => ReturnsVerdict
  BY DEF VerdictInv, Answered, ReturnsVerdict, FaithfulParsers
<1> QED
  BY <1>1, <1>2, <1>3, Invariance, Places, PTL DEF Spec
=============================================================================
