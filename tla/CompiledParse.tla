---------------------------- MODULE CompiledParse ----------------------------
(***************************************************************************)
(* The generated matchers: the function parse that CppCompiler writes as   *)
(* C++ (src/codegen/cppcodegen.cpp) and LLVMCompiler as LLVM IR            *)
(* (src/codegen/llvmcodegen.cpp) for the automata of a pattern.  It walks  *)
(* the automata that TableParse walks, but                                 *)
(*   - compares the length with the levels of the start states first, and  *)
(*     compares the fixed ends without looking at the length again;        *)
(*   - leaves the transition of a middle start on an escape out if it only *)
(*     leads back, and looks at the byte in front instead;                 *)
(*   - skips in a middle start by blocks;                                  *)
(*   - compares levels as unsigned numbers in C++, as signed ones in LLVM. *)
(*                                                                         *)
(* One action is one iteration of a loop, or one branch around the loops.  *)
(* The code keeps the level of the state q in a variable; the C++ code     *)
(* does not update it for the error state, in which it returns false       *)
(* whether the loop goes on or not.                                        *)
(***************************************************************************)
EXTENDS ParserTables, FiniteSets

CONSTANTS
    Escape,     \* the code of an escape, 255
    Block       \* the bytes of a vector register: 16

\* llvm and simd say which compiler made the code and whether it was allowed
\* vector instructions.  They, parser and str never change; the others are as
\* in TableParse.
VARIABLES llvm, simd, parser, str, pc, strIdx, state, backIdx, backSym, result

choices == <<llvm, simd, parser, str>>
vars == <<llvm, simd, parser, str, pc, strIdx, state, backIdx, backSym, result>>

P == Parsers[parser]
Real(s) == s \in DOMAIN P.next

LevelOf(s) ==
    IF Real(s) THEN P.level[s] ELSE IF s = Error THEN LevelRange - 1 ELSE 0

\* The bytes that reading compressed[i] may yield.
Read(i) == IF i \in 0 .. Len(str) - 1 THEN {str[i + 1]} ELSE Outside

\* The length of the part that the forward function is given.
ForwardLen == backIdx + 1

Init ==
    /\ llvm \in BOOLEAN
    /\ simd \in BOOLEAN
    /\ parser \in DOMAIN Parsers
    /\ str \in Input[parser]
    /\ pc = "begin"
    /\ strIdx = 0
    /\ state = Error
    /\ backIdx = Len(str) - 1
    /\ backSym = 8
    /\ result = FALSE

Return(answer) ==
    /\ pc' = "done"
    /\ result' = answer
    /\ UNCHANGED <<choices, strIdx, state, backIdx, backSym>>

Goto(label) ==
    /\ pc' = label
    /\ UNCHANGED <<choices, strIdx, state, backIdx, backSym, result>>

-----------------------------------------------------------------------------
(* parse: the check of the length.                                         *)

MinLength ==
    CASE P.forward /\ P.backward -> Wrapped(P.fwdMin + P.bwdMin - 1)
      [] P.forward /\ ~P.backward -> P.fwdMin
      [] OTHER -> P.bwdMin

\* A pattern without any part has no parameters for either direction; the
\* compiler takes the value of an empty optional, which throws.
CompileThrows ==
    /\ pc = "begin"
    /\ ~P.forward /\ ~P.backward
    /\ Goto("thrown")

TooShort ==
    /\ pc = "begin"
    /\ P.forward \/ P.backward
    /\ Len(str) < MinLength
    /\ Return(FALSE)

\* A deliberate mistake: the length is taken for granted.
LengthUnchecked ==
    /\ pc = "begin"
    /\ P.forward \/ P.backward
    /\ Goto(IF P.backward THEN "suffix" ELSE "prefix")

LongEnough ==
    /\ pc = "begin"
    /\ P.forward \/ P.backward
    /\ Len(str) >= MinLength
    /\ Goto(IF P.backward THEN "suffix" ELSE "prefix")

-----------------------------------------------------------------------------
(* The backward function.                                                  *)

\* Comparing the bytes from index at on with fix may find them equal, or not.
MayEqual(fix, at) == \A k \in 1 .. Len(fix) : fix[k] \in Read(at + k - 1)
MayDiffer(fix, at) == \E k \in 1 .. Len(fix) : Read(at + k - 1) # {fix[k]}

SuffixDiffers ==
    /\ pc = "suffix"
    /\ MayDiffer(P.bwdFix, Len(str) - Len(P.bwdFix))
    /\ Return(FALSE)

SuffixEqual ==
    /\ pc = "suffix"
    /\ MayEqual(P.bwdFix, Len(str) - Len(P.bwdFix))
    /\ pc' = "backward"
    /\ strIdx' = Len(str) - 1 - Len(P.bwdFix)
    /\ state' = P.bwdStart
    /\ UNCHANGED <<choices, backIdx, backSym, result>>

CppBackwardGoesOn == Wrapped(strIdx + 1) >= LevelOf(state)
LlvmBackwardGoesOn == strIdx + 1 >= Signed(LevelOf(state))
BackwardGoesOn == IF llvm THEN LlvmBackwardGoesOn ELSE CppBackwardGoesOn

\* generateOther: a switch over the byte.
BackwardStep ==
    /\ pc = "backward"
    /\ BackwardGoesOn
    /\ Real(state)
    /\ \E c \in Read(strIdx) : state' = P.next[state][c]
    /\ strIdx' = strIdx - 1
    /\ UNCHANGED <<choices, pc, backIdx, backSym, result>>

\* In the loop (generateEnd) or, in the LLVM code two in front of the string,
\* behind it.
BackwardAccept ==
    /\ pc = "backward"
    /\ \E k \in 0 .. 8 : state = Accept(k) /\ backSym' = k
    /\ backIdx' = strIdx + 2
    /\ pc' = "room"
    /\ UNCHANGED <<choices, strIdx, state, result>>

\* The switch behind the loop: a state with an endIdx still counts as a match.
\* (Those are at level 0, and the loop leaves none of them unread.)
BackwardStop ==
    /\ pc = "backward"
    /\ Real(state)
    /\ ~BackwardGoesOn
    /\ IF P.pseudo[state] # NoEnd
       THEN /\ backSym' = P.pseudo[state]
            /\ backIdx' = strIdx + 1
            /\ pc' = "room"
            /\ UNCHANGED <<choices, strIdx, state, result>>
       ELSE Return(FALSE)

\* generateError
BackwardError ==
    /\ pc = "backward"
    /\ state = Error
    /\ Return(FALSE)

-----------------------------------------------------------------------------
(* parse: between the two functions.                                       *)

OnlyBackwards ==
    /\ pc = "room"
    /\ ~P.forward
    /\ Return(TRUE)

\* Both compilers compare without a sign: what is left with the level of the
\* start state in C++, the index in front of it with one less in LLVM.
NoRoom ==
    IF llvm THEN Wrapped(backIdx) < Wrapped(P.fwdMin - 1) ELSE Wrapped(ForwardLen) < P.fwdMin

NoRoomForward ==
    /\ pc = "room"
    /\ P.forward
    /\ NoRoom
    /\ Return(FALSE)

RoomForward ==
    /\ pc = "room"
    /\ P.forward
    /\ ~NoRoom
    /\ Goto("prefix")

-----------------------------------------------------------------------------
(* The forward function.                                                   *)

PrefixDiffers ==
    /\ pc = "prefix"
    /\ MayDiffer(P.fwdFix, 0)
    /\ Return(FALSE)

PrefixEqual ==
    /\ pc = "prefix"
    /\ MayEqual(P.fwdFix, 0)
    /\ pc' = "forward"
    /\ strIdx' = Len(P.fwdFix)
    /\ state' = P.fwdStart
    /\ UNCHANGED <<choices, backIdx, backSym, result>>

\* A deliberate mistake: one code more is asked for than the level says.
LlvmLoopStopsEarly == strIdx + Signed(LevelOf(state)) < ForwardLen

\* The condition of the loop: as many codes are left as the level asks for.
CppLoopGoesOn == Wrapped(strIdx + LevelOf(state)) <= Wrapped(ForwardLen)
LlvmLoopGoesOn == strIdx + Signed(LevelOf(state)) <= ForwardLen

\* The last index at which the skipping loop of a middle start, which compares
\* with a sign in both, may stop.
MaxIdx == Signed(Wrapped(ForwardLen - LevelOf(state)))

ForwardGoesOn ==
    /\ IF llvm THEN LlvmLoopGoesOn ELSE CppLoopGoesOn
    /\ state \in P.skipping => strIdx <= MaxIdx

Skipping == pc = "forward" /\ state \in P.skipping /\ ForwardGoesOn

\* generateOther, for the states other than the start of a middle automaton.
ForwardStep ==
    /\ pc = "forward"
    /\ ForwardGoesOn
    /\ Real(state) /\ state \notin P.skipping
    /\ \E c \in Read(strIdx) : state' = P.next[state][c]
    /\ strIdx' = strIdx + 1
    /\ UNCHANGED <<choices, pc, backIdx, backSym, result>>

\* A deliberate mistake: the arrays of all starts are taken for one.
StopsOfAll(s) == UNION {P.bits[q] : q \in P.skipping}

\* The transition arrays: the bytes at which a middle start stops skipping.
\* The escape is none of them if the state it leads to has no transitions.
LeadsOnlyBack(s) == LET q == P.next[s][Escape] IN Real(q) => P.bits[q] = {}
Stops(s) ==
    (P.bits[s] \ {Escape}) \cup (IF LeadsOnlyBack(s) THEN {} ELSE {Escape})

\* getNumRealTransitions: it counts on a transition for the escape.
RealTransitions(s) ==
    Cardinality(P.bits[s]) - (IF LeadsOnlyBack(s) THEN 1 ELSE 0)
Vectorised == simd /\ Wrapped(RealTransitions(state)) <= Block

\* A deliberate mistake: a literal byte is taken for a code.
StoppersAreAnyByte(i) == Read(i) \cap Stops(state)

\* The bytes that may be at i and stop the skipping: no escape is in front.
Stoppers(i) == IF i > 0 /\ Read(i - 1) = {Escape} THEN {} ELSE Read(i) \cap Stops(state)
MayPass(i) == ~(Read(i) \subseteq Stops(state)) \/ (i > 0 /\ Escape \in Read(i - 1))

\* Deliberate mistakes: a block is read where a single byte fits; a byte is
\* looked at again and again.
BlockReadsOn == Vectorised /\ strIdx <= MaxIdx

BlockFits == Vectorised /\ strIdx + Block - 1 <= MaxIdx
InBlock == strIdx .. strIdx + Block - 1

SkipBlock ==
    /\ Skipping
    /\ BlockFits
    /\ \A i \in InBlock : MayPass(i)
    /\ strIdx' = strIdx + Block
    /\ UNCHANGED <<choices, pc, state, backIdx, backSym, result>>

SkipNothing ==
    /\ Skipping
    /\ ~BlockFits
    /\ MayPass(strIdx)
    /\ UNCHANGED vars

SkipByte ==
    /\ Skipping
    /\ ~BlockFits
    /\ MayPass(strIdx)
    /\ strIdx' = strIdx + 1
    /\ UNCHANGED <<choices, pc, state, backIdx, backSym, result>>

\* The switch of a middle start on the byte at i.  A byte that stops the
\* skipping and has no transition: the LLVM code traps, the C++ code stays.
LeaveAt(i) ==
    /\ \E c \in Stoppers(i) :
          IF c \in P.bits[state] THEN state' = P.next[state][c] /\ pc' = pc
          ELSE state' = state /\ pc' = IF llvm THEN "trapped" ELSE pc
    /\ strIdx' = i + 1
    /\ UNCHANGED <<choices, backIdx, backSym, result>>

LeaveFromBlock ==
    /\ Skipping
    /\ BlockFits
    /\ \E i \in InBlock :
          /\ \A j \in strIdx .. i - 1 : MayPass(j)
          /\ LeaveAt(i)

LeaveFromByte ==
    /\ Skipping
    /\ ~BlockFits
    /\ LeaveAt(strIdx)

\* generateEnd, and what parse makes of it: the last code used must not reach
\* past where the match of the end begins.
ForwardAccept ==
    /\ pc = "forward"
    /\ \E k \in 0 .. 8 :
          /\ state = Accept(k)
          /\ result' = (~P.backward \/ strIdx - 1 < backIdx \/ k <= backSym)
    /\ strIdx' = strIdx - 1
    /\ pc' = "done"
    /\ UNCHANGED <<choices, state, backIdx, backSym>>

ForwardStop ==
    /\ pc = "forward"
    /\ Real(state)
    /\ ~ForwardGoesOn
    /\ Return(FALSE)

\* generateError
ForwardError ==
    /\ pc = "forward"
    /\ state = Error
    /\ Return(FALSE)

-----------------------------------------------------------------------------
Backward == SuffixDiffers \/ SuffixEqual \/ BackwardStep \/ BackwardAccept
            \/ BackwardStop \/ BackwardError

Forward == PrefixDiffers \/ PrefixEqual \/ ForwardStep \/ SkipBlock \/ SkipByte
           \/ LeaveFromBlock \/ LeaveFromByte \/ ForwardAccept
           \/ ForwardStop \/ ForwardError

Next == CompileThrows \/ TooShort \/ LongEnough \/ Backward
        \/ OnlyBackwards \/ NoRoomForward \/ RoomForward \/ Forward

\* A call runs to its return without waiting for anything.
Spec == Init /\ [][Next]_vars /\ WF_vars(Next)

-----------------------------------------------------------------------------
(***************************************************************************)
(* What the generated code relies on besides: a middle start has a         *)
(* transition on the escape; no level wraps when an index is added to it,  *)
(* with a sign or without; and the lengths asked for cover the fixed parts.*)
(***************************************************************************)
StopsForEscapes(p) ==
    p.skipping \subseteq p.fwd /\ \A s \in p.skipping : Escape \in p.bits[s]

Compilable(n) ==
    LET p == Parsers[n]
    IN  /\ LevelsAreFinite(n)
        /\ \A s \in p.fwd \cup p.bwd : Signed(p.level[s]) = p.level[s]
        /\ p.fwdMin \in Nat /\ p.bwdMin \in Nat
        /\ p.forward => p.fwdMin > 0 /\ Len(p.fwdFix) <= p.fwdMin
        /\ p.backward => Len(p.bwdFix) <= p.bwdMin
        /\ p.fwdMin + p.bwdMin <= LevelRange

\* The lengths asked for are no more than the fixed parts and the levels of the
\* start states say.
AsksForNoMore(p) ==
    /\ p.forward => p.fwdMin <= Len(p.fwdFix)
                                + IF p.fwdStart \in p.fwd THEN p.level[p.fwdStart] ELSE 0
    /\ p.backward => p.bwdMin <= Len(p.bwdFix) + p.level[p.bwdStart]

\* An escape that may be left out leads to a state that leads back with any
\* byte; and a middle start is never entered with an escape, other than by a
\* state that is itself only entered with one.
EscapesComeBack(p) ==
    /\ \A s \in p.skipping :
          LET q == p.next[s][Escape]
          IN  (q \in DOMAIN p.next => p.bits[q] = {}) =>
                 q \in p.fwd \ p.skipping /\ \A c \in Bytes : p.next[q][c] = s
    /\ \A t \in p.fwd : p.next[t][Escape] \in p.skipping =>
          /\ \A s \in p.fwd, c \in Bytes \ {Escape} : p.next[s][c] # t
          /\ t = p.fwdStart => p.fwdFix # << >> /\ p.fwdFix[Len(p.fwdFix)] = Escape
    /\ p.fwdStart \in p.skipping => p.fwdFix = << >> \/ p.fwdFix[Len(p.fwdFix)] # Escape

\* Strings are shorter than 2^63 bytes, and the byte 255, which is in no text
\* that is UTF-8, is not escaped.
OneEscapeAtATime(s) ==
    /\ 2 * Len(s) < LevelRange
    /\ \A i \in 1 .. Len(s) - 1 : ~(s[i] = Escape /\ s[i + 1] = Escape)

Faithful(n) ==
    /\ Compilable(n)
    /\ LevelsAreHonest(Parsers[n])
    /\ AsksForNoMore(Parsers[n])
    /\ EscapesComeBack(Parsers[n])
    /\ \A s \in Input[n] : OneEscapeAtATime(s)

\* The parsers for which the generated code is asked to be right, by what of
\* this they satisfy.
CompilableParsers == {n \in DOMAIN Parsers : Compilable(n)}
FaithfulParsers == {n \in DOMAIN Parsers : Faithful(n)}

-----------------------------------------------------------------------------
\* The fixed end and the fixed beginning are only compared with a string that
\* is long enough to hold them: the code relies on the levels of the start
\* states for this, and for both directions on the sum of the two.  With a
\* part that no code can spell the level wraps: for Z%YX the end is compared
\* with a string that may be shorter.
FixedPartsFit ==
    parser \in CompilableParsers =>
        /\ pc = "suffix" => Len(P.bwdFix) <= Len(str)
        /\ pc = "prefix" => Len(P.fwdFix) <= ForwardLen

\* The C++ code reads at most one byte in front of the string, which is the
\* look-ahead for an escape, and none behind the part it is given.  The LLVM
\* code loads the byte before it looks at the state, the error and the accept
\* states included: one more in front and one behind.  A block lies inside the
\* part.
LoadsNearby ==
    parser \in CompilableParsers =>
        /\ (pc = "backward" /\ BackwardGoesOn) =>
              IF llvm THEN strIdx \in -2 .. Len(str) - 1
              ELSE Real(state) => strIdx \in -1 .. Len(str) - 1
        /\ (pc = "forward" /\ ForwardGoesOn) =>
              IF llvm THEN strIdx \in 0 .. ForwardLen
              ELSE Real(state) => strIdx \in 0 .. ForwardLen - 1
        /\ (Skipping /\ BlockFits) => InBlock \subseteq 0 .. ForwardLen - 1

\* The trap of the LLVM code is never reached: whenever the transition array
\* stops the skipping loop, the switch has a case for the byte.
NeverTraps == pc # "trapped"

\* The generated code returns what the automata say of the string, whatever
\* lies around it, and so what the table-driven matcher returns: asking for a
\* length first, skipping by bytes or by blocks, leaving escapes out that only
\* lead back, and comparing levels with a sign or without cost no match and
\* find none.
ReturnsVerdict == (pc = "done" /\ parser \in FaithfulParsers) => result = Verdict(P, str)
=============================================================================
