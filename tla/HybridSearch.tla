---------------------------- MODULE HybridSearch ----------------------------
(***************************************************************************)
(* hybridStringSearch, twoWaySearch and twoWaySearchImpl                   *)
(* (include/hybrid_string_search.hpp): a call that looks for a needle in   *)
(* the bytes begin .. end - 1 of a text.  Short needles in long texts are  *)
(* looked for a vector register at a time, others with the two-way search. *)
(*                                                                         *)
(* One action is one iteration of an outer loop, or one branch around the  *)
(* loops.  The two loops of twoWaySearchImpl are one here: without equal,  *)
(* lastPtr stays -1.                                                       *)
(***************************************************************************)
EXTENDS TwoWay, FiniteSets

CONSTANTS
    Block,     \* the bytes of a vector register: 16
    MaxShort   \* the longest needle that is looked for with one: 12

ASSUME BlockAssumption == Block \in Nat /\ MaxShort \in Nat /\ MaxShort <= Block

\* The arguments of the call, which it does not change: prepared is the result
\* of PreparePattern, limit the number of positions at which the needle leaves
\* room for what is still to be found behind it.
VARIABLES text, begin, end, needle, prepared, limit, sse

\* at is where the needle may begin next, lastPtr the last position of the
\* needle that is known to match there.
VARIABLES pc, at, lastPtr

arguments == <<text, begin, end, needle, prepared, limit, sse>>

Length == Len(needle)
MatchesAt(i, pos) == At(needle, pos) = At(text, i + pos)

Found(i) ==
    /\ pc' = "found"
    /\ at' = i
    /\ UNCHANGED lastPtr

Missing ==
    /\ pc' = "missing"
    /\ UNCHANGED <<at, lastPtr>>

-----------------------------------------------------------------------------
(* hybridStringSearch and twoWaySearch: which way to look.                 *)

\* A deliberate mistake: a register is loaded from fewer bytes than it has.
VectorisedAlways == sse /\ Length <= MaxShort

Vectorised == sse /\ Length <= MaxShort /\ end - begin >= Block

StartBlocks ==
    /\ pc = "search"
    /\ Vectorised
    /\ pc' = "blocks"
    /\ at' = begin
    /\ UNCHANGED lastPtr

\* memchr
FindByte ==
    /\ pc = "search"
    /\ ~Vectorised
    /\ Length = 1
    /\ LET places == {i \in begin .. begin + limit - 1 : MatchesAt(i, 0)}
       IN  IF places = {} THEN Missing
           ELSE \E i \in places : IsLeast(i, places) /\ Found(i)

FindPair ==
    /\ pc = "search"
    /\ ~Vectorised
    /\ Length > 1
    /\ LET places == {i \in begin .. begin + limit - 1 : MatchesAt(i, 0) /\ MatchesAt(i, 1)}
       IN  IF places = {} THEN Missing
           ELSE /\ pc' = "windows"
                /\ \E i \in places : IsLeast(i, places) /\ at' = i
                /\ lastPtr' = -1

-----------------------------------------------------------------------------
(* twoWaySearchImpl                                                        *)

\* The positions of the needle's halves that differ from the window at at.
\* What is known to match is not compared again.
RightDiffers == {pos \in Larger(prepared.ms, lastPtr) + 1 .. Length - 1 : ~MatchesAt(at, pos)}
LeftDiffers == {pos \in lastPtr + 1 .. prepared.ms : ~MatchesAt(at, pos)}

InWindows == pc = "windows" /\ at <= begin + limit - 1

ShiftToMismatch ==
    /\ InWindows
    /\ \E pos \in RightDiffers :
          /\ IsLeast(pos, RightDiffers)
          /\ at' = at + pos - prepared.ms
    /\ lastPtr' = -1
    /\ UNCHANGED pc

ShiftByPeriod ==
    /\ InWindows
    /\ RightDiffers = {}
    /\ LeftDiffers # {}
    /\ at' = at + prepared.period
    /\ lastPtr' = IF prepared.equal THEN Length - prepared.period - 1 ELSE -1
    /\ UNCHANGED pc

WindowMatches ==
    /\ InWindows
    /\ RightDiffers = {}
    /\ LeftDiffers = {}
    /\ Found(at)

WindowsEnd ==
    /\ pc = "windows"
    /\ at > begin + limit - 1
    /\ Missing

-----------------------------------------------------------------------------
(* The loop over blocks.                                                   *)

\* The instruction finds the first place in the block at i where the needle, or
\* as much of it as the block holds, begins; Block if there is none.
InBlock(i, j) == \A pos \in 0 .. Length - 1 : j + pos < Block => MatchesAt(i + j, pos)
FirstInBlock(i, match) ==
    /\ match < Block => InBlock(i, match)
    /\ \A j \in 0 .. match - 1 : ~InBlock(i, j)

\* A deliberate mistake: one too many.
SafeMatchTooLarge == Block + 2 - Length

\* Below this the whole needle was in the block.
SafeMatch == Block + 1 - Length

BlockFits == pc = "blocks" /\ at + Block <= end

BlockMatches ==
    /\ BlockFits
    /\ \E match \in 0 .. Block :
          /\ FirstInBlock(at, match)
          /\ match < SafeMatch
          /\ Found(at + match)

\* To the place where the beginning of the needle is, or past the block.
NextBlock ==
    /\ BlockFits
    /\ \E match \in 0 .. Block :
          /\ FirstInBlock(at, match)
          /\ match >= SafeMatch
          /\ at' = at + match
    /\ UNCHANGED <<pc, lastPtr>>

\* The block that ends with the text overlaps what has been seen.
LastBlock ==
    /\ pc = "blocks"
    /\ end - Block < at /\ at < end
    /\ \E match \in 0 .. Block :
          /\ FirstInBlock(end - Block, match)
          /\ IF match < SafeMatch THEN Found(end - Block + match) ELSE Missing

BlocksEnd ==
    /\ pc = "blocks"
    /\ at >= end
    /\ Missing

-----------------------------------------------------------------------------
Search ==
    \/ StartBlocks \/ FindByte \/ FindPair
    \/ ShiftToMismatch \/ ShiftByPeriod \/ WindowMatches \/ WindowsEnd
    \/ BlockMatches \/ NextBlock \/ LastBlock \/ BlocksEnd

-----------------------------------------------------------------------------
(***************************************************************************)
(* A call by itself, for arguments as the callers give them: the needle    *)
(* lies in the bytes given wherever it begins within the limit, and        *)
(* prepared is what the search needs of PreparePattern(needle).            *)
(***************************************************************************)

Given ==
    /\ text \in Seq(Nat)
    /\ needle \in Seq(Nat)
    /\ needle # << >>
    /\ begin \in Nat
    /\ end \in 0 .. Len(text)
    /\ limit \in Nat \ {0}
    /\ begin + limit + Length - 1 <= end
    /\ sse \in BOOLEAN
    /\ prepared \in [ms : Int, period : Int, equal : BOOLEAN]
    /\ Prepared(needle, prepared)

SearchInit == Given /\ pc = "search" /\ at \in Int /\ lastPtr \in Int
SearchSpec == SearchInit /\ [][Search /\ UNCHANGED arguments]_<<arguments, pc, at, lastPtr>>

-----------------------------------------------------------------------------
(***************************************************************************)
(* Properties.                                                             *)
(***************************************************************************)

\* The needle lies at i in the bytes given.
OccursAt(i) == i + Length <= end /\ \A pos \in 0 .. Length - 1 : MatchesAt(i, pos)

\* The search returns the first place at which the needle lies, and none only
\* if it does not lie where it leaves room for the rest of the pattern.
FirstOccurrence ==
    /\ pc = "found" => at >= begin /\ OccursAt(at) /\ \A i \in begin .. at - 1 : ~OccursAt(i)
    /\ pc = "missing" => \A i \in begin .. begin + limit - 1 : ~OccursAt(i)

\* Every call of the search is one for which the search is right: there is
\* room for the needle at every position within the limit, the cut of the
\* needle is critical and the period is its period.
CallsAsGiven == pc = "search" => Given

\* No shift passes over a place where the needle lies.
NoneSkipped ==
    pc \in {"windows", "blocks"} => \A i \in begin .. at - 1 : ~OccursAt(i)

\* What the loop takes for known to match does match.
RemembersMatch ==
    (pc = "windows" /\ at <= begin + limit - 1) =>
        \A pos \in 0 .. lastPtr : MatchesAt(at, pos)

\* Every byte that is compared, and every block that is loaded, lies in the
\* bytes given.
ReadsInside ==
    /\ (pc = "search" /\ ~Vectorised) => begin + limit + Length - 1 <= end
    /\ InWindows => at \in begin .. end - Length
    /\ BlockFits => at \in begin .. end - Block
    /\ pc = "blocks" => end - Block >= begin
=============================================================================
