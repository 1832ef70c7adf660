------------------------- MODULE LikeProgramProofs -------------------------
(***************************************************************************)
(* Theorems about LIKE over decompressed text, in two parts.  A call of    *)
(* the search, for every text, every needle, each result of PreparePattern *)
(* that is what Prepared asks for, and every size of a vector register.    *)
(* And the matcher around it, for every program that fits: it stays inside *)
(* the text, and calls the search as the search must be called, so that    *)
(* each part is found where it first lies.                                 *)
(***************************************************************************)
EXTENDS LikeProgram, FiniteSetTheorems, WellFoundedInduction, TLAPS

-----------------------------------------------------------------------------
(* A call of the search.                                                   *)

(***************************************************************************)
(* The invariant: what FirstOccurrence says of the result, NoneSkipped and *)
(* RemembersMatch of the loops, and the types and bounds these rest on.    *)
(***************************************************************************)
TypeOK ==
    /\ pc \in {"search", "windows", "blocks", "found", "missing"}
    /\ at \in Int
    /\ lastPtr \in Int

InLoop ==
    /\ pc = "windows" => Length > 1 /\ at >= begin /\ lastPtr >= -1 /\ lastPtr < Length
    /\ pc = "blocks" => Vectorised /\ at >= begin

IInv == TypeOK /\ Given /\ InLoop /\ NoneSkipped /\ RemembersMatch /\ FirstOccurrence

searchVars == <<arguments, pc, at, lastPtr>>

\* A needle has a length.
LEMMA Lengths == ASSUME Given PROVE Length \in Nat /\ Length > 0
BY DEF Given, Length

(***************************************************************************)
(* A window that differs at pos in its right half: the needle begins       *)
(* nowhere before the byte that differs has left the right half.           *)
(***************************************************************************)
LEMMA RightShift ==
    ASSUME IInv, InWindows,
           NEW pos \in RightDiffers, IsLeast(pos, RightDiffers),
           NEW i \in begin .. (at + pos - prepared.ms) - 1
    PROVE  ~OccursAt(i)
<1>1. /\ Length \in Nat /\ Length > 1
      /\ prepared.ms \in Int /\ prepared.ms >= -1
      /\ at \in Int /\ lastPtr \in Int /\ lastPtr >= -1 /\ begin \in Nat
      /\ pc = "windows" /\ at <= begin + limit - 1
  BY Lengths DEF IInv, TypeOK, InLoop, Given, InWindows, Prepared, InBounds, Length
<1> DEFINE from == Larger(prepared.ms, lastPtr)
<1>a. /\ from \in Int /\ from >= prepared.ms /\ from >= lastPtr
      /\ from = prepared.ms \/ from = lastPtr
  BY <1>1 DEF Larger
<1>b. RightDiffers = {j \in from + 1 .. Length - 1 : ~MatchesAt(at, j)}
  BY DEF RightDiffers
<1> HIDE DEF from
<1>2. /\ pos \in Int /\ pos > prepared.ms /\ pos > lastPtr /\ pos < Length /\ pos >= 0
      /\ ~MatchesAt(at, pos)
  BY <1>1, <1>a, <1>b
<1>3. ASSUME NEW j \in Int, prepared.ms < j, j < pos, 0 <= j PROVE MatchesAt(at, j)
  <2>1. CASE j <= lastPtr
    BY <1>1, <2>1, <1>3 DEF IInv, RemembersMatch
  <2>2. CASE j > lastPtr
    <3>1. j \notin RightDiffers
      BY <1>2, <1>3 DEF IsLeast
    <3>2. j \in from + 1 .. Length - 1
      BY <1>1, <1>2, <1>3, <1>a, <2>2
    <3> QED BY <3>1, <3>2, <1>b
  <2> QED BY <2>1, <2>2, <1>1, <1>3
<1>4. CASE i < at
  BY <1>4, <1>1 DEF IInv, NoneSkipped
<1>5. CASE i = at
  BY <1>5, <1>1, <1>2 DEF OccursAt
<1>6. CASE i > at
  <2> DEFINE k == i - at
  <2>1. k \in 1 .. pos - prepared.ms - 1 /\ pos \in prepared.ms + 1 .. Length - 1
    BY <1>1, <1>2, <1>6
  <2> DEFINE low == Larger(prepared.ms + 1, k)
  <2>a. low \in Int /\ low >= prepared.ms + 1 /\ low >= k
    BY <1>1, <2>1 DEF Larger
  <2> HIDE DEF low
  <2>2. SUFFICES ASSUME OccursAt(i) PROVE FALSE
    OBVIOUS
  <2>3. ASSUME NEW j \in low .. pos - 1
        PROVE  At(needle, j - k) = At(needle, j)
    <3>1. j \in Int /\ j > prepared.ms /\ j >= k /\ j < pos /\ j >= 0
      BY <2>1, <2>a, <1>1, <1>2
    <3>2. At(needle, j) = At(text, at + j)
      BY <3>1, <1>3 DEF MatchesAt
    <3>3. j - k \in 0 .. Length - 1
      BY <3>1, <2>1, <1>1, <1>2
    <3>4. At(needle, j - k) = At(text, i + (j - k))
      BY <3>3, <2>2 DEF OccursAt, MatchesAt
    <3>5. i + (j - k) = at + j
      BY <3>1, <1>1
    <3> QED BY <3>2, <3>4, <3>5
  <2>4. At(needle, pos - k) = At(needle, pos)
    <3>1. CutIsCritical(needle, prepared)
      BY <1>1 DEF IInv, Given, Prepared, Length
    <3> HIDE DEF k
    <3> QED BY <3>1, <2>1, <2>3 DEF CutIsCritical, Length, low
  <2>5. pos - k \in 0 .. Length - 1
    BY <2>1, <1>1, <1>2
  <2>6. At(needle, pos - k) = At(text, i + (pos - k))
    BY <2>5, <2>2 DEF OccursAt, MatchesAt
  <2>7. i + (pos - k) = at + pos
    BY <1>1, <1>2
  <2> QED BY <2>4, <2>6, <2>7, <1>2 DEF MatchesAt
<1> QED BY <1>1, <1>4, <1>5, <1>6

(***************************************************************************)
(* In a window whose right half matches, all of it does.                   *)
(***************************************************************************)
LEMMA RightHalf ==
    ASSUME IInv, InWindows, RightDiffers = {},
           NEW j \in Int, prepared.ms < j, j < Length, 0 <= j
    PROVE  MatchesAt(at, j)
<1>1. /\ Length \in Nat /\ prepared.ms \in Int /\ lastPtr \in Int
      /\ pc = "windows" /\ at <= begin + limit - 1
  BY Lengths DEF IInv, TypeOK, Given, InWindows
<1>2. CASE j <= lastPtr
  BY <1>1, <1>2 DEF IInv, RemembersMatch
<1>3. CASE j > lastPtr
  <2>1. j \in Larger(prepared.ms, lastPtr) + 1 .. Length - 1
    BY <1>1, <1>3 DEF Larger
  <2> QED BY <2>1 DEF RightDiffers
<1> QED BY <1>1, <1>2, <1>3

(***************************************************************************)
(* A window of which only the right half matches: the needle begins        *)
(* nowhere before one period later.                                        *)
(***************************************************************************)
LEMMA PeriodShift ==
    ASSUME IInv, InWindows, RightDiffers = {}, LeftDiffers # {}
    PROVE  /\ prepared.ms >= 0
           /\ prepared.period \in 1 .. Length
           /\ \A i \in begin .. (at + prepared.period) - 1 : ~OccursAt(i)
<1>1. /\ Length \in Nat /\ Length > 1
      /\ prepared.ms \in Int /\ prepared.ms <= Length - 2
      /\ at \in Int /\ lastPtr \in Int /\ lastPtr >= -1 /\ begin \in Nat
      /\ pc = "windows" /\ at <= begin + limit - 1
  BY Lengths DEF IInv, TypeOK, InLoop, Given, InWindows, Prepared, InBounds, Length
<1>2. PICK bad \in LeftDiffers : TRUE
  OBVIOUS
<1>3. bad \in Int /\ bad >= 0 /\ bad <= prepared.ms /\ ~MatchesAt(at, bad)
  BY <1>1, <1>2 DEF LeftDiffers
<1>4. prepared.ms >= 0 /\ prepared.period \in 1 .. Length
  BY <1>1, <1>3 DEF IInv, Given, Prepared, InBounds, Length
<1>5. ASSUME NEW i \in begin .. (at + prepared.period) - 1, OccursAt(i)
      PROVE  FALSE
  <2>1. CASE i < at
    BY <2>1, <1>1, <1>5 DEF IInv, NoneSkipped
  <2>2. CASE i = at
    BY <2>2, <1>1, <1>3, <1>5 DEF OccursAt
  <2>3. CASE i > at
    <3> DEFINE k == i - at
               low == Larger(prepared.ms + 1, k)
    <3>1. k \in 1 .. prepared.period - 1
      BY <2>3, <1>1, <1>4
    <3>2. low \in Int /\ low >= prepared.ms + 1 /\ low >= k
      BY <1>1, <3>1 DEF Larger
    <3> HIDE DEF low
    <3>3. PICK j \in low .. Length - 1 : At(needle, j - k) # At(needle, j)
      <4>1. PeriodIsLeast(needle, prepared)
        BY <1>1 DEF IInv, Given, Prepared, Length
      <4> HIDE DEF k
      <4> QED BY <4>1, <1>4, <3>1 DEF PeriodIsLeast, Length, low
    <3>4. j \in Int /\ j > prepared.ms /\ j >= k /\ j < Length /\ j >= 0
      BY <3>2, <3>1, <1>1, <1>4
    <3>5. At(needle, j) = At(text, at + j)
      BY <3>4, RightHalf DEF MatchesAt
    <3>6. j - k \in 0 .. Length - 1
      BY <3>4, <3>1, <1>1, <1>4
    <3>7. At(needle, j - k) = At(text, i + (j - k))
      BY <3>6, <1>5 DEF OccursAt, MatchesAt
    <3>8. i + (j - k) = at + j
      BY <3>4, <1>1
    <3> QED BY <3>3, <3>5, <3>7, <3>8
  <2> QED BY <2>1, <2>2, <2>3, <1>1
<1> QED BY <1>4, <1>5

(***************************************************************************)
(* What is remembered when the needle has the period: all that the right   *)
(* half was compared with.                                                 *)
(***************************************************************************)
LEMMA Remembered ==
    ASSUME IInv, InWindows, RightDiffers = {}, LeftDiffers # {}, prepared.equal,
           NEW pos \in 0 .. Length - prepared.period - 1
    PROVE  MatchesAt(at + prepared.period, pos)
<1>1. /\ Length \in Nat /\ Length > 1 /\ prepared.ms \in Int /\ at \in Int
      /\ prepared.period \in 1 .. Length
  BY Lengths, PeriodShift DEF IInv, TypeOK, InLoop, Given, InWindows
<1>2. /\ prepared.period > prepared.ms
      /\ \A j \in prepared.period .. Length - 1 : At(needle, j - prepared.period) = At(needle, j)
  BY <1>1 DEF IInv, Given, Prepared, PeriodRepeats, Length
<1> DEFINE j == pos + prepared.period
<1>3. j \in prepared.period .. Length - 1 /\ j > prepared.ms /\ j < Length /\ 0 <= j /\ j \in Int
  BY <1>1, <1>2
<1>4. At(needle, j) = At(text, at + j)
  <2> HIDE DEF j
  <2> QED BY <1>3, RightHalf DEF MatchesAt
<1>5. At(needle, j - prepared.period) = At(needle, j)
  <2> HIDE DEF j
  <2> QED BY <1>2, <1>3
<1>6. j - prepared.period = pos /\ at + j = at + prepared.period + pos
  BY <1>1
<1> QED BY <1>4, <1>5, <1>6 DEF MatchesAt

(***************************************************************************)
(* In a block the needle begins nowhere in front of what the instruction   *)
(* finds.                                                                  *)
(***************************************************************************)
LEMMA NoneInBlock ==
    ASSUME IInv, NEW from \in Int, NEW match \in 0 .. Block, FirstInBlock(from, match),
           NEW i \in from .. from + match - 1
    PROVE  ~OccursAt(i)
<1>1. Length \in Nat
  BY Lengths DEF IInv
<1>2. i - from \in 0 .. match - 1 /\ from + (i - from) = i
  BY BlockAssumption
<1>3. ~InBlock(from, i - from)
  BY <1>2 DEF FirstInBlock
<1> QED BY <1>1, <1>2, <1>3 DEF InBlock, OccursAt

(***************************************************************************)
(* What the instruction finds so far in front of the end of the block that *)
(* all of the needle was in it.                                            *)
(***************************************************************************)
LEMMA WholeInBlock ==
    ASSUME IInv, NEW from \in Int, from + Block <= end,
           NEW match \in 0 .. Block, FirstInBlock(from, match), match < SafeMatch
    PROVE  OccursAt(from + match)
<1>1. Length \in Nat /\ Length > 0 /\ end \in Int /\ Block \in Nat
  BY Lengths, BlockAssumption DEF IInv, Given
<1>2. match + Length <= Block
  BY <1>1 DEF SafeMatch
<1>3. InBlock(from, match)
  BY <1>1, <1>2 DEF FirstInBlock
<1>4. \A pos \in 0 .. Length - 1 : MatchesAt(from + match, pos)
  BY <1>1, <1>2, <1>3 DEF InBlock
<1> QED BY <1>1, <1>2, <1>4 DEF OccursAt

(***************************************************************************)
(* No argument changes, so that what is said of them keeps its meaning.    *)
(***************************************************************************)
LEMMA Unchanged ==
    ASSUME IInv, UNCHANGED arguments
    PROVE  /\ Given'
           /\ Length' = Length
           /\ \A i : OccursAt(i)' = OccursAt(i)
           /\ \A i, pos : MatchesAt(i, pos)' = MatchesAt(i, pos)
           /\ Vectorised' = Vectorised
BY DEF IInv, arguments, Given, Length, OccursAt, MatchesAt, Vectorised

(***************************************************************************)
(* When the search returns, only the result matters.                       *)
(***************************************************************************)
LEMMA ReturningFound ==
    ASSUME IInv, UNCHANGED arguments, NEW i \in Int, Found(i), i >= begin,
           OccursAt(i), \A j \in begin .. i - 1 : ~OccursAt(j)
    PROVE  IInv'
<1>1. pc' = "found" /\ at' = i /\ lastPtr' = lastPtr /\ begin' = begin
  BY DEF Found, arguments
<1>2. TypeOK' /\ InLoop' /\ NoneSkipped' /\ RemembersMatch'
  BY <1>1 DEF IInv, TypeOK, InLoop, NoneSkipped, RemembersMatch
<1>3. FirstOccurrence'
  BY <1>1, Unchanged DEF FirstOccurrence
<1> QED BY <1>2, <1>3, Unchanged DEF IInv

\* None may be returned when the needle begins nowhere within the limit.
LEMMA ReturningNone ==
    ASSUME IInv, UNCHANGED arguments, Missing,
           \A j \in begin .. begin + limit - 1 : ~OccursAt(j)
    PROVE  IInv'
<1>1. pc' = "missing" /\ at' = at /\ lastPtr' = lastPtr /\ begin' = begin /\ limit' = limit
  BY DEF Missing, arguments
<1>2. TypeOK' /\ InLoop' /\ NoneSkipped' /\ RemembersMatch'
  BY <1>1 DEF IInv, TypeOK, InLoop, NoneSkipped, RemembersMatch
<1>3. FirstOccurrence'
  BY <1>1, Unchanged DEF FirstOccurrence
<1> QED BY <1>2, <1>3, Unchanged DEF IInv

(***************************************************************************)
(* When it goes on, what matters is what has been passed over and what is  *)
(* remembered.                                                             *)
(***************************************************************************)
LEMMA GoingOn ==
    ASSUME IInv, UNCHANGED arguments, NEW i \in Int, NEW known \in Int,
           at' = i, lastPtr' = known, pc' \in {"windows", "blocks"}, i >= begin,
           \A j \in begin .. i - 1 : ~OccursAt(j),
           pc' = "blocks" => Vectorised,
           pc' = "windows" => /\ Length > 1 /\ known >= -1 /\ known < Length
                              /\ \A pos \in 0 .. known : MatchesAt(i, pos)
    PROVE  IInv'
<1>1. begin' = begin /\ limit' = limit
  BY DEF arguments
<1>2. TypeOK' /\ FirstOccurrence'
  BY DEF TypeOK, FirstOccurrence
<1>3. InLoop'
  BY <1>1, Unchanged DEF InLoop
<1>4. NoneSkipped'
  BY <1>1, Unchanged DEF NoneSkipped
<1>5. RemembersMatch'
  BY DEF RemembersMatch, MatchesAt, arguments
<1> QED BY <1>2, <1>3, <1>4, <1>5, Unchanged DEF IInv

\* The invariant holds when the search is called.
THEOREM InitInv == SearchInit => IInv
BY DEF SearchInit, IInv, TypeOK, InLoop, NoneSkipped, RemembersMatch, FirstOccurrence

(***************************************************************************)
(* Every step of the search keeps the invariant.                           *)
(***************************************************************************)
THEOREM StepInv == IInv /\ [Search /\ UNCHANGED arguments]_searchVars => IInv'
<1> SUFFICES ASSUME IInv, [Search /\ UNCHANGED arguments]_searchVars PROVE IInv'
  OBVIOUS
<1>0. CASE UNCHANGED searchVars
  BY <1>0 DEF searchVars, arguments, IInv, TypeOK, Given, InLoop, NoneSkipped, RemembersMatch,
              FirstOccurrence, OccursAt, MatchesAt, Length, Vectorised
<1> SUFFICES ASSUME Search, UNCHANGED arguments PROVE IInv'
  BY <1>0
<1>t. /\ Length \in Nat /\ Length > 0 /\ begin \in Nat /\ end \in Nat /\ limit \in Nat /\ limit > 0
      /\ begin + limit + Length - 1 <= end
      /\ at \in Int /\ lastPtr \in Int /\ Block \in Nat
      /\ begin' = begin /\ end' = end /\ limit' = limit /\ prepared' = prepared
      /\ text \in Seq(Nat)
  BY Lengths, BlockAssumption DEF IInv, TypeOK, Given, arguments
<1>1. CASE StartBlocks
  <2>1. pc' = "blocks" /\ at' = begin /\ lastPtr' = lastPtr /\ Vectorised
    BY <1>1 DEF StartBlocks
  <2> QED BY <2>1, <1>t, GoingOn
<1>2. CASE FindByte
  <2> DEFINE places == {i \in begin .. begin + limit - 1 : MatchesAt(i, 0)}
  <2>1. ASSUME NEW i \in begin .. begin + limit - 1, i \notin places PROVE ~OccursAt(i)
    BY <1>2, <1>t, <2>1 DEF FindByte, OccursAt
  <2>2. CASE places = {}
    BY <2>1, <2>2, <1>2, ReturningFound, ReturningNone DEF FindByte
  <2>3. CASE places # {}
    <3>1. PICK i \in places : IsLeast(i, places) /\ Found(i)
      BY <2>3, <1>2 DEF FindByte
    <3>2. OccursAt(i)
      BY <1>2, <1>t DEF FindByte, OccursAt
    <3>3. \A j \in begin .. i - 1 : ~OccursAt(j)
      BY <3>1, <2>1, <1>t DEF IsLeast
    <3> QED BY <3>1, <3>2, <3>3, <1>t, ReturningFound, ReturningNone
  <2> QED BY <2>2, <2>3
<1>3. CASE FindPair
  <2> DEFINE places == {i \in begin .. begin + limit - 1 : MatchesAt(i, 0) /\ MatchesAt(i, 1)}
  <2>1. ASSUME NEW i \in begin .. begin + limit - 1, i \notin places PROVE ~OccursAt(i)
    BY <1>3, <1>t, <2>1 DEF FindPair, OccursAt
  <2>2. CASE places = {}
    BY <2>1, <2>2, <1>3, ReturningFound, ReturningNone DEF FindPair
  <2>3. CASE places # {}
    <3>1. PICK i \in places : IsLeast(i, places) /\ at' = i
      BY <2>3, <1>3 DEF FindPair
    <3>2. pc' = "windows" /\ lastPtr' = -1 /\ Length > 1
      BY <2>3, <1>3 DEF FindPair
    <3>3. i \in Int /\ i >= begin
      BY <1>t
    <3>4. \A j \in begin .. i - 1 : ~OccursAt(j)
      BY <3>1, <2>1, <1>t DEF IsLeast
    <3> QED BY <3>1, <3>2, <3>3, <3>4, <1>t, GoingOn
  <2> QED BY <2>2, <2>3
<1>4. CASE ShiftToMismatch
  <2>1. PICK pos \in RightDiffers : IsLeast(pos, RightDiffers) /\ at' = at + pos - prepared.ms
    BY <1>4 DEF ShiftToMismatch
  <2>2. /\ InWindows /\ pc = "windows" /\ pc' = "windows" /\ lastPtr' = -1
        /\ Length > 1 /\ at >= begin
    BY <1>4 DEF ShiftToMismatch, InWindows, IInv, InLoop
  <2>3. \A i \in begin .. (at + pos - prepared.ms) - 1 : ~OccursAt(i)
    BY <2>1, <2>2, RightShift
  <2>4. pos \in Int /\ pos > prepared.ms /\ prepared.ms \in Int
    <3>1. prepared.ms \in Int
      BY DEF IInv, Given
    <3>2. Larger(prepared.ms, lastPtr) \in Int /\ Larger(prepared.ms, lastPtr) >= prepared.ms
      BY <3>1, <1>t DEF Larger
    <3> QED BY <3>1, <3>2, <1>t DEF RightDiffers
  <2> DEFINE new == at + pos - prepared.ms
  <2>5. new \in Int /\ new >= begin /\ at' = new
    BY <2>1, <2>2, <2>4, <1>t
  <2> HIDE DEF new
  <2> QED BY <2>2, <2>3, <2>5, <1>t, GoingOn DEF new
<1>5. CASE ShiftByPeriod
  <2>1. /\ InWindows /\ RightDiffers = {} /\ LeftDiffers # {}
        /\ pc = "windows" /\ pc' = "windows" /\ at' = at + prepared.period
        /\ lastPtr' = IF prepared.equal THEN Length - prepared.period - 1 ELSE -1
        /\ Length > 1 /\ at >= begin
    BY <1>5 DEF ShiftByPeriod, InWindows, IInv, InLoop
  <2>2. /\ prepared.period \in 1 .. Length
        /\ \A i \in begin .. (at + prepared.period) - 1 : ~OccursAt(i)
    BY <2>1, PeriodShift
  <2> DEFINE new == at + prepared.period
             known == IF prepared.equal THEN Length - prepared.period - 1 ELSE -1
  <2>3. /\ new \in Int /\ new >= begin /\ known \in Int /\ known >= -1 /\ known < Length
        /\ at' = new /\ lastPtr' = known
    BY <2>1, <2>2, <1>t
  <2>4. \A pos \in 0 .. known : MatchesAt(new, pos)
    BY <2>1, <2>2, <1>t, Remembered
  <2>5. \A i \in begin .. new - 1 : ~OccursAt(i)
    BY <2>2
  <2> HIDE DEF new, known
  <2> QED BY <2>1, <2>3, <2>4, <2>5, <1>t, GoingOn
<1>6. CASE WindowMatches
  <2>1. /\ InWindows /\ RightDiffers = {} /\ LeftDiffers = {} /\ Found(at)
        /\ pc = "windows" /\ at <= begin + limit - 1 /\ at >= begin /\ prepared.ms \in Int
    BY <1>6 DEF WindowMatches, InWindows, IInv, InLoop, Given
  <2>2. ASSUME NEW pos \in 0 .. Length - 1 PROVE MatchesAt(at, pos)
    <3>1. CASE pos <= lastPtr
      BY <3>1, <2>1, <1>t DEF IInv, RemembersMatch
    <3>2. CASE pos > lastPtr /\ pos <= prepared.ms
      BY <3>2, <2>1, <1>t DEF LeftDiffers
    <3>3. CASE pos > prepared.ms
      BY <3>3, <2>1, <1>t, RightHalf
    <3> QED BY <3>1, <3>2, <3>3, <2>1, <1>t
  <2>3. OccursAt(at)
    BY <2>1, <2>2, <1>t DEF OccursAt
  <2>4. \A i \in begin .. at - 1 : ~OccursAt(i)
    BY <2>1 DEF IInv, NoneSkipped
  <2> QED BY <2>1, <2>3, <2>4, <1>t, ReturningFound, ReturningNone
<1>7. CASE WindowsEnd
  <2>1. pc = "windows" /\ at > begin + limit - 1 /\ Missing
    BY <1>7 DEF WindowsEnd
  <2>2. \A i \in begin .. begin + limit - 1 : ~OccursAt(i)
    BY <2>1, <1>t DEF IInv, NoneSkipped
  <2> QED BY <2>1, <2>2, ReturningFound, ReturningNone
<1>8. CASE BlockMatches
  <2>1. PICK match \in 0 .. Block :
            FirstInBlock(at, match) /\ match < SafeMatch /\ Found(at + match)
    BY <1>8 DEF BlockMatches
  <2>2. pc = "blocks" /\ at + Block <= end /\ at >= begin
    BY <1>8 DEF BlockMatches, BlockFits, IInv, InLoop
  <2>3. OccursAt(at + match)
    BY <2>1, <2>2, <1>t, WholeInBlock
  <2> DEFINE new == at + match
  <2>4. ASSUME NEW i \in begin .. new - 1 PROVE ~OccursAt(i)
    <3>1. CASE i < at
      BY <3>1, <2>2, <1>t DEF IInv, NoneSkipped
    <3>2. CASE i >= at
      BY <3>2, <2>1, <1>t, NoneInBlock
    <3> QED BY <3>1, <3>2, <1>t
  <2>5. new \in Int /\ new >= begin
    BY <2>2, <1>t
  <2>6. Found(new) /\ OccursAt(new)
    BY <2>1, <2>3
  <2> HIDE DEF new
  <2> QED BY <2>4, <2>5, <2>6, ReturningFound
<1>9. CASE NextBlock
  <2>1. PICK match \in 0 .. Block : FirstInBlock(at, match) /\ at' = at + match
    BY <1>9 DEF NextBlock
  <2> DEFINE new == at + match
  <2>2. pc = "blocks" /\ pc' = "blocks" /\ lastPtr' = lastPtr /\ Vectorised /\ at >= begin
    BY <1>9 DEF NextBlock, BlockFits, IInv, InLoop
  <2>3. ASSUME NEW i \in begin .. new - 1 PROVE ~OccursAt(i)
    <3>1. CASE i < at
      BY <3>1, <2>2, <1>t DEF IInv, NoneSkipped
    <3>2. CASE i >= at
      BY <3>2, <2>1, <1>t, NoneInBlock
    <3> QED BY <3>1, <3>2, <1>t
  <2>4. new \in Int /\ new >= begin /\ at' = new
    BY <2>1, <2>2, <1>t
  <2> HIDE DEF new
  <2> QED BY <2>2, <2>3, <2>4, <1>t, GoingOn
<1>10. CASE LastBlock
  <2> DEFINE last == end - Block
  <2>1. PICK match \in 0 .. Block :
            /\ FirstInBlock(last, match)
            /\ IF match < SafeMatch THEN Found(last + match) ELSE Missing
    BY <1>10 DEF LastBlock
  <2>2. /\ pc = "blocks" /\ last < at /\ at < end /\ at >= begin
        /\ last \in Int /\ last >= begin /\ last + Block <= end
    BY <1>10, <1>t DEF LastBlock, IInv, InLoop, Vectorised
  <2>3. ASSUME NEW i \in begin .. (last + match) - 1 PROVE ~OccursAt(i)
    <3>1. CASE i < at
      BY <3>1, <2>2, <1>t DEF IInv, NoneSkipped
    <3>2. CASE i >= at
      <4>1. i \in last .. last + match - 1
        BY <3>2, <2>2, <1>t
      <4> HIDE DEF last
      <4> QED BY <4>1, <2>1, <2>2, NoneInBlock
    <3> QED BY <3>1, <3>2, <1>t
  <2>4. CASE match < SafeMatch
    <3>1. OccursAt(last + match)
      <4> HIDE DEF last
      <4> QED BY <2>1, <2>2, <2>4, WholeInBlock
    <3>2. last + match \in Int /\ last + match >= begin /\ Found(last + match)
      BY <2>1, <2>2, <2>4, <1>t
    <3> QED BY <3>1, <3>2, <2>3, ReturningFound, ReturningNone
  <2>5. CASE ~(match < SafeMatch)
    <3>1. ASSUME NEW i \in begin .. begin + limit - 1, OccursAt(i) PROVE FALSE
      <4>1. i + Length <= end
        BY <3>1 DEF OccursAt
      <4>2. i <= last + match - 1
        BY <4>1, <2>5, <1>t DEF SafeMatch
      <4> QED BY <4>2, <3>1, <2>3, <2>2, <1>t
    <3> QED BY <3>1, <2>1, <2>5, ReturningFound, ReturningNone
  <2> QED BY <2>4, <2>5
<1>11. CASE BlocksEnd
  <2>1. pc = "blocks" /\ at >= end /\ Missing
    BY <1>11 DEF BlocksEnd
  <2>2. \A i \in begin .. begin + limit - 1 : ~OccursAt(i)
    BY <2>1, <1>t DEF IInv, NoneSkipped
  <2> QED BY <2>1, <2>2, ReturningFound, ReturningNone
<1> QED BY <1>1, <1>2, <1>3, <1>4, <1>5, <1>6, <1>7, <1>8, <1>9, <1>10, <1>11 DEF Search

\* The invariant holds in every state of a call.
THEOREM Invariant == SearchSpec => []IInv
<1>1. SearchInit => IInv
  BY InitInv
<1>2. IInv /\ [Search /\ UNCHANGED arguments]_searchVars => IInv'
  BY StepInv
<1> QED BY <1>1, <1>2, PTL DEF SearchSpec, searchVars

(***************************************************************************)
(* hybridStringSearch returns the first place at which the needle lies,    *)
(* and none only if the needle does not lie where it leaves room for the   *)
(* rest of the pattern; with both ways to look.                            *)
(***************************************************************************)
THEOREM FindsFirst == SearchSpec => []FirstOccurrence
<1>1. IInv => FirstOccurrence
  BY DEF IInv
<1> QED BY <1>1, Invariant, PTL

(***************************************************************************)
(* No shift of twoWaySearchImpl, and no block, passes over a place where   *)
(* the needle lies.                                                        *)
(***************************************************************************)
THEOREM SkipsNone == SearchSpec => []NoneSkipped
<1>1. IInv => NoneSkipped
  BY DEF IInv
<1> QED BY <1>1, Invariant, PTL

(***************************************************************************)
(* What twoWaySearchImpl does not compare again because of lastPtr does    *)
(* match.                                                                  *)
(***************************************************************************)
THEOREM RemembersRight == SearchSpec => []RemembersMatch
<1>1. IInv => RemembersMatch
  BY DEF IInv
<1> QED BY <1>1, Invariant, PTL

\* From the invariant: what is read lies in the bytes given.
LEMMA InvariantReads ==
    ASSUME IInv
    PROVE  ReadsInside
<1>1. /\ Length \in Nat /\ begin \in Nat /\ end \in Nat /\ limit \in Nat /\ at \in Int /\ Block \in Nat
      /\ begin + limit + Length - 1 <= end
  BY Lengths, BlockAssumption DEF IInv, TypeOK, Given
<1>2. InWindows => at \in begin .. end - Length
  BY <1>1 DEF IInv, InLoop, InWindows
<1>3. BlockFits => at \in begin .. end - Block
  BY <1>1 DEF IInv, InLoop, BlockFits
<1>4. pc = "blocks" => end - Block >= begin
  BY <1>1 DEF IInv, InLoop, Vectorised
<1> QED BY <1>1, <1>2, <1>3, <1>4 DEF ReadsInside

(***************************************************************************)
(* Neither the comparisons nor the loads of blocks leave the bytes given.  *)
(***************************************************************************)
THEOREM ReadsAreInside == SearchSpec => []ReadsInside
<1>1. IInv => ReadsInside
  BY InvariantReads
<1> QED BY <1>1, Invariant, PTL

-----------------------------------------------------------------------------
(* The matcher around it: the parts of the invariant.                      *)

SearchStates == {"search", "windows", "blocks", "found", "missing"}
PartStates == SearchStates \cup {"skip", "rest", "again"}

Programs ==
    /\ Fits(program)
    /\ text \in Seq(Byte)
    /\ program.underscores => WellEncoded(text)

Types ==
    /\ pc \in PartStates \cup {"begin", "prefix", "suffix", "next", "done"}
    /\ sse \in BOOLEAN
    /\ sums \in Nat /\ iter \in Nat /\ steps \in Nat /\ reader \in Nat
    /\ index \in 0 .. Len(program.middle)
    /\ at \in Int /\ lastPtr \in Int

Inside == 0 <= begin /\ begin <= end /\ end <= Len(text) /\ begin \in Int /\ end \in Int

\* sums is what the parts not yet found hold, and without underscores there is
\* room for all of them while the fixed ends are compared.
Left(k) == Cardinality(Rest(program, k))
Sums ==
    /\ pc \in {"begin", "prefix"} => sums = Len(program.prefix) + Len(program.suffix) + Left(0)
    /\ pc = "suffix" => sums = Len(program.suffix) + Left(0)
    /\ pc \in {"begin", "prefix", "suffix"} => index = 0
    /\ pc \in {"next"} \cup PartStates => sums = Left(index)
    /\ pc \in PartStates => index < Len(program.middle)
    /\ pc \in {"prefix", "suffix"} /\ ~program.underscores => end - begin >= sums

\* The loops stay in their parts; a needle is sought that there is; only parts
\* with underscores have a rest.
Loops ==
    /\ pc = "suffix" /\ program.underscores => iter <= Len(program.suffix)
    /\ pc = "skip" => iter <= Middle.skip
    /\ pc \in SearchStates \cup {"rest", "again"} => Middle.buffer # << >>
    /\ pc \in SearchStates \cup {"rest"} => needle = Middle.buffer
    /\ pc \in {"rest", "again"} => program.underscores
    /\ pc = "rest" => begin < end /\ reader \in begin .. end

\* With underscores, what is left of the text begins and ends between two code
\* points, other than in the middle of a loop over the suffix and in front of
\* a search that begins again.
Boundary(i) == i = Len(text) \/ ~Continues(text[i + 1])
Boundaries ==
    program.underscores =>
        /\ pc = "begin" => begin = 0
        /\ pc \in {"begin", "prefix"} => end = Len(text)
        /\ pc \in {"prefix", "suffix", "next", "skip"} => Boundary(begin)
        /\ pc = "suffix" => IF iter = Len(program.suffix) THEN end = Len(text)
                            ELSE ~Continues(program.suffix[iter + 1]) => Boundary(end)
        /\ pc \in {"next"} \cup PartStates => Boundary(end)
        /\ pc = "rest" => Boundary(reader)

\* The search is on its way in its own invariant.
InSearch == pc \in SearchStates => IInv

Inv == Programs /\ Types /\ Inside /\ Sums /\ Loops /\ Boundaries /\ InSearch

-----------------------------------------------------------------------------
(* Lemmas about numbers, parts and code points.                            *)

\* Every set of natural numbers that is not empty has a least element.
LEMMA LeastNat ==
    ASSUME NEW T \in SUBSET Nat, T # {}
    PROVE  \E x \in T : IsLeast(x, T)
<1> DEFINE R == OpToRel(<, Nat)
<1>1. IsWellFoundedOn(R, Nat)
  BY NatLessThanWellFounded
<1>2. PICK x \in T : \A y \in T : <<y, x>> \notin R
  <2> HIDE DEF R
  <2> QED
    BY <1>1, WFMin
<1>3. \A y \in T : <<y, x>> \in R <=> y < x
  BY DEF OpToRel
<1>4. \A y \in T : ~(y < x)
  <2> HIDE DEF R
  <2> QED
    BY <1>2, <1>3
<1>5. \A y \in T : x \in Nat /\ y \in Nat
  OBVIOUS
<1>6. \A y \in T : x <= y
  <2> HIDE DEF R
  <2> QED
    BY <1>4, <1>5
<1> QED
  BY <1>6 DEF IsLeast

LEMMA LeastIsIn ==
    ASSUME NEW T \in SUBSET Nat, T # {}
    PROVE  Least(T) \in T /\ IsLeast(Least(T), T)
BY LeastNat DEF Least

\* A part has as many bytes as its length says.
LEMMA BytesOfPart ==
    ASSUME NEW m, NEW l \in Nat
    PROVE  IsFiniteSet({m} \X (1 .. l)) /\ Cardinality({m} \X (1 .. l)) = l
<1>1. IsFiniteSet(1 .. l) /\ Cardinality(1 .. l) = IF 1 > l THEN 0 ELSE l - 1 + 1
  BY FS_Interval
<1>2. IsFiniteSet({m}) /\ Cardinality({m}) = 1
  BY FS_Singleton
<1>3. /\ IsFiniteSet({m} \X (1 .. l))
      /\ Cardinality({m} \X (1 .. l)) = Cardinality({m}) * Cardinality(1 .. l)
  BY <1>1, <1>2, FS_Product
<1>4. Cardinality(1 .. l) = l
  BY <1>1
<1>5. Cardinality({m} \X (1 .. l)) = 1 * l
  BY <1>2, <1>3, <1>4
<1> QED
  BY <1>3, <1>5

\* The bytes of the parts from one on are those of this part and of the parts
\* behind it.
LEMMA RestSplits ==
    ASSUME Fits(program), NEW k \in Nat, k < Len(program.middle)
    PROVE  /\ Left(k) \in Nat /\ Left(k + 1) \in Nat
           /\ Left(k) = Len(program.middle[k + 1].part) + Left(k + 1)
<1> DEFINE n == Len(program.middle)
           bytes(m) == {m} \X (1 .. Len(program.middle[m].part))
           rest(j) == Rest(program, j)
<1>1. n \in Nat /\ \A m \in 1 .. n : Len(program.middle[m].part) \in Nat
  BY DEF Fits, PartFits
<1>2. \A m \in 1 .. n : /\ IsFiniteSet(bytes(m))
                        /\ Cardinality(bytes(m)) = Len(program.middle[m].part)
  BY <1>1, BytesOfPart
<1>3. ASSUME NEW j \in Nat, j < n
      PROVE  /\ rest(j) = bytes(j + 1) \cup rest(j + 1)
             /\ bytes(j + 1) \cap rest(j + 1) = {}
             /\ j + 1 \in 1 .. n
  <2>1. j + 1 .. n = {j + 1} \cup ((j + 1) + 1 .. n) /\ j + 1 \notin (j + 1) + 1 .. n
    BY <1>1, <1>3
  <2> QED
    BY <1>1, <1>3, <2>1 DEF Rest
<1>4. ASSUME NEW j \in 0 .. n PROVE IsFiniteSet(rest(j))
  <2> DEFINE T == {d \in 0 .. n : ~IsFiniteSet(rest(n - d))}
  <2> SUFFICES ASSUME T # {} PROVE FALSE
    <3>1. n - j \in 0 .. n /\ n - (n - j) = j
      BY <1>1
    <3> QED
      BY <3>1
  <2>1. PICK d \in T : IsLeast(d, T)
    <3>1. T \in SUBSET Nat
      BY <1>1
    <3> HIDE DEF T
    <3> QED
      BY <3>1, LeastNat
  <2>2. d # 0
    <3>1. n + 1 .. n = {} /\ n - 0 = n
      BY <1>1
    <3>2. rest(n) = {}
      BY <3>1 DEF Rest
    <3> QED
      BY <2>1, <3>1, <3>2, FS_EmptySet
  <2>3. d \in Nat /\ d - 1 \in 0 .. n /\ n - d \in Nat /\ n - d < n /\ (n - d) + 1 = n - (d - 1)
    BY <1>1, <2>1, <2>2
  <2>4. d - 1 \notin T
    BY <2>1, <2>3 DEF IsLeast
  <2>5. IsFiniteSet(rest(n - (d - 1)))
    BY <2>3, <2>4
  <2>6. /\ rest(n - d) = bytes((n - d) + 1) \cup rest((n - d) + 1)
        /\ (n - d) + 1 \in 1 .. n
    BY <1>3, <2>3
  <2>7. IsFiniteSet(bytes((n - d) + 1)) /\ IsFiniteSet(rest((n - d) + 1))
    BY <1>2, <2>3, <2>5, <2>6
  <2>8. IsFiniteSet(bytes((n - d) + 1) \cup rest((n - d) + 1))
    BY <2>7, FS_Union
  <2> QED
    BY <2>1, <2>6, <2>8
<1>5. /\ IsFiniteSet(rest(k)) /\ IsFiniteSet(rest(k + 1)) /\ IsFiniteSet(bytes(k + 1))
      /\ Cardinality(bytes(k + 1)) = Len(program.middle[k + 1].part)
      /\ Len(program.middle[k + 1].part) \in Nat
  <2>1. k + 1 \in 1 .. n /\ k \in 0 .. n /\ k + 1 \in 0 .. n
    BY <1>1
  <2>2. IsFiniteSet(rest(k)) /\ IsFiniteSet(rest(k + 1))
    BY <1>4, <2>1
  <2> QED
    BY <1>1, <1>2, <2>1, <2>2
<1>6. Cardinality(bytes(k + 1) \cup rest(k + 1))
        = Cardinality(bytes(k + 1)) + Cardinality(rest(k + 1)) - Cardinality(bytes(k + 1) \cap rest(k + 1))
  <2> HIDE DEF bytes, rest
  <2> QED
    BY <1>5, FS_Union
<1>7. Cardinality(rest(k)) \in Nat /\ Cardinality(rest(k + 1)) \in Nat
  BY <1>5, FS_CardinalityType
<1>8. Cardinality(bytes(k + 1) \cap rest(k + 1)) = 0
  BY <1>3, FS_EmptySet
<1>9. Cardinality(rest(k)) = Len(program.middle[k + 1].part) + Cardinality(rest(k + 1))
  <2>1. rest(k) = bytes(k + 1) \cup rest(k + 1)
    BY <1>3
  <2> HIDE DEF bytes, rest
  <2> QED
    BY <1>5, <1>6, <1>7, <1>8, <2>1
<1> QED
  BY <1>7, <1>9 DEF Left

\* What is known of the part being looked for.
LEMMA PartFacts ==
    ASSUME Inv, pc \in PartStates
    PROVE  /\ PartFits(Middle, program.underscores)
           /\ index \in Nat /\ index + 1 \in 0 .. Len(program.middle)
           /\ sums = Len(Middle.part) + Left(index + 1) /\ Left(index + 1) \in Nat
           /\ Len(Middle.part) \in Nat /\ Len(Middle.buffer) \in Nat
           /\ Needed \in Nat /\ Needed >= Len(Middle.buffer)
<1>1. index \in Nat /\ index < Len(program.middle) /\ Len(program.middle) \in Nat /\ sums = Left(index)
  BY DEF Inv, Types, Sums, Programs, Fits
<1>2. index + 1 \in 1 .. Len(program.middle)
  BY <1>1
<1>3. PartFits(Middle, program.underscores)
  BY <1>2 DEF Inv, Programs, Fits, Middle
<1>4. sums = Len(Middle.part) + Left(index + 1) /\ Left(index + 1) \in Nat
  BY <1>1, RestSplits DEF Inv, Programs, Middle
<1>5. /\ Len(Middle.part) \in Nat /\ Len(Middle.buffer) \in Nat /\ Middle.skip \in Nat
      /\ Middle.skip + Len(Middle.buffer) <= Len(Middle.part)
  BY <1>3 DEF PartFits
<1> QED
  BY <1>1, <1>2, <1>3, <1>4, <1>5 DEF Needed

\* The length of a code point.
LEMMA CodePointLengths ==
    ASSUME NEW b \in Byte
    PROVE  MultiByteSequenceLength(b) \in 1 .. 4 /\ (b < 128 => MultiByteSequenceLength(b) = 1)
BY DEF MultiByteSequenceLength, Byte

\* A code point that begins in front of a boundary ends at the next one.
LEMMA NextCodePoint ==
    ASSUME text \in Seq(Byte), WellEncoded(text),
           NEW b \in Nat, NEW e \in Nat, b < e, e <= Len(text), Boundary(b), Boundary(e)
    PROVE  /\ MultiByteSequenceLength(text[b + 1]) \in Nat
           /\ b + MultiByteSequenceLength(text[b + 1]) \in b + 1 .. e
           /\ Boundary(b + MultiByteSequenceLength(text[b + 1]))
<1> DEFINE next == b + MultiByteSequenceLength(text[b + 1])
<1>1. MultiByteSequenceLength(text[b + 1]) \in 1 .. 4
  <2>1. text[b + 1] \in Byte
    OBVIOUS
  <2> QED
    BY <2>1, CodePointLengths
<1>2. b \in 0 .. Len(text) - 1 /\ ~Continues(text[b + 1])
  BY DEF Boundary
<1>3. /\ next <= Len(text)
      /\ \A k \in b + 1 .. next - 1 : Continues(text[k + 1])
      /\ next < Len(text) => ~Continues(text[next + 1])
  BY <1>2 DEF WellEncoded
<1>4. ASSUME next > e PROVE FALSE
  <2>1. e \in b + 1 .. next - 1 /\ e # Len(text)
    BY <1>1, <1>3, <1>4
  <2> QED
    BY <1>3, <2>1 DEF Boundary
<1> QED
  BY <1>1, <1>3, <1>4 DEF Boundary

\* A char that equals a byte is not negative.
LEMMA AsciiByte ==
    ASSUME NEW c \in Byte, NEW x \in Byte, AsChar(c) = x
    PROVE  ~Continues(x) /\ MultiByteSequenceLength(x) = 1
<1>1. c \in Int /\ c <= 255 /\ x \in Int /\ x >= 0
  BY DEF Byte
<1>2. x < 128
  BY <1>1 DEF AsChar
<1> QED
  BY <1>1, <1>2 DEF Continues, MultiByteSequenceLength

\* So does a single byte that is no part of a longer code point.
LEMMA NextAscii ==
    ASSUME text \in Seq(Byte), WellEncoded(text), NEW c \in Byte,
           NEW b \in Nat, b < Len(text), AsChar(c) = text[b + 1]
    PROVE  Boundary(b + 1)
<1>1. text[b + 1] \in Byte
  OBVIOUS
<1>3. ~Continues(text[b + 1]) /\ MultiByteSequenceLength(text[b + 1]) = 1
  BY <1>1, AsciiByte
<1>4. b \in 0 .. Len(text) - 1
  OBVIOUS
<1>5. b + 1 < Len(text) => ~Continues(text[(b + 1) + 1])
  BY <1>3, <1>4 DEF WellEncoded
<1> QED
  BY <1>5 DEF Boundary

\* The code point in front of end does not begin in front of a boundary.
LEMMA CodePointInFront ==
    ASSUME text \in Seq(Byte), NEW b \in Nat, NEW e \in Nat, b < e, e <= Len(text), Boundary(b)
    PROVE  /\ CodePointBefore(e) \in b .. e - 1 /\ Boundary(CodePointBefore(e))
           /\ \A k \in CodePointBefore(e) + 1 .. e - 1 : Continues(text[k + 1])
<1> DEFINE T == {d \in 0 .. e - 1 : ~Continues(text[(e - 1 - d) + 1])}
           Begins(j) == ~Continues(text[j + 1]) /\ \A k \in j + 1 .. e - 1 : Continues(text[k + 1])
<1>1. ~Continues(text[b + 1])
  BY DEF Boundary
<1>2. e - 1 - b \in T
  <2>1. e - 1 - b \in 0 .. e - 1 /\ e - 1 - (e - 1 - b) = b
    OBVIOUS
  <2> QED
    BY <1>1, <2>1
<1>3. PICK d \in T : \A y \in T : d <= y
  <2>1. T \in SUBSET Nat
    OBVIOUS
  <2>2. T # {}
    BY <1>2
  <2> QED
    BY <2>1, <2>2, LeastNat DEF IsLeast
<1>4. Begins(e - 1 - d)
  <2>1. ASSUME NEW k \in (e - 1 - d) + 1 .. e - 1 PROVE Continues(text[k + 1])
    <3>1. e - 1 - k \in 0 .. e - 1 /\ e - 1 - k < d /\ e - 1 - (e - 1 - k) = k
      BY <1>3
    <3>2. ~(d <= e - 1 - k)
      BY <1>3, <3>1
    <3>3. e - 1 - k \notin T
      BY <1>3, <3>2
    <3> QED
      BY <3>1, <3>3
  <2> QED
    BY <1>3, <2>1
<1>5. CodePointBefore(e) \in 0 .. e - 1 /\ Begins(CodePointBefore(e))
  <2>1. e - 1 - d \in 0 .. e - 1
    BY <1>3
  <2> HIDE DEF T
  <2> QED
    BY <1>4, <2>1 DEF CodePointBefore
<1>6. CodePointBefore(e) >= b
  BY <1>1, <1>5
<1> QED
  BY <1>5, <1>6 DEF Boundary

\* The parts not yet found hold a number of bytes.
LEMMA LeftIsNat ==
    ASSUME Fits(program), NEW k \in 0 .. Len(program.middle)
    PROVE  Left(k) \in Nat
<1>1. Len(program.middle) \in Nat
  BY DEF Fits
<1>2. CASE k = Len(program.middle)
  <2>1. k + 1 .. Len(program.middle) = {}
    BY <1>1, <1>2
  <2>2. Rest(program, k) = {}
    BY <2>1 DEF Rest
  <2> QED
    BY <2>2, FS_EmptySet DEF Left
<1>3. CASE k < Len(program.middle)
  BY <1>1, <1>3, RestSplits
<1> QED
  BY <1>1, <1>2, <1>3

\* Numbers are numbers.
LEMMA Numbers ==
    ASSUME Inv
    PROVE  /\ Len(program.prefix) \in Nat /\ Len(program.suffix) \in Nat
           /\ Len(program.middle) \in Nat /\ Left(0) \in Nat
           /\ Len(text) \in Nat /\ begin \in Nat /\ end \in Nat
           /\ begin <= end /\ end <= Len(text)
           /\ index \in Nat /\ index <= Len(program.middle)
           /\ Len(program.suffix) + Left(0) \in Nat
           /\ Len(program.prefix) + Len(program.suffix) + Left(0)
                = Len(program.prefix) + (Len(program.suffix) + Left(0))
<1>1. Fits(program)
  BY DEF Inv, Programs
<1>2. Len(program.prefix) \in Nat /\ Len(program.suffix) \in Nat /\ Len(program.middle) \in Nat
  BY <1>1 DEF Fits
<1>3. Left(0) \in Nat
  BY <1>1, <1>2, LeftIsNat
<1>4. \A a, b, c \in Nat : b + c \in Nat /\ a + b + c = a + (b + c)
  OBVIOUS
<1>5. /\ Len(program.suffix) + Left(0) \in Nat
      /\ Len(program.prefix) + Len(program.suffix) + Left(0)
           = Len(program.prefix) + (Len(program.suffix) + Left(0))
  BY <1>2, <1>3, <1>4, Zenon
<1>6. /\ Len(text) \in Nat /\ begin \in Nat /\ end \in Nat
      /\ begin <= end /\ end <= Len(text)
      /\ index \in Nat /\ index <= Len(program.middle)
  BY <1>2 DEF Inv, Inside, Programs, Types
<1> QED
  BY <1>2, <1>3, <1>5, <1>6, Zenon

-----------------------------------------------------------------------------
(* The steps.                                                              *)

\* What no step changes.
LEMMA Constants ==
    ASSUME Inv, UNCHANGED constant
    PROVE  /\ Programs' /\ program' = program /\ text' = text /\ sse' = sse
           /\ \A k : Left(k)' = Left(k)
           /\ \A i : Boundary(i)' = Boundary(i)
BY DEF Inv, Programs, constant, Left, Boundary

\* A return leaves everything where it is.
LEMMA Returning ==
    ASSUME Inv, Return(TRUE) \/ Return(FALSE)
    PROVE  Inv'
<1>1. /\ UNCHANGED constant /\ pc' = "done"
      /\ UNCHANGED <<begin, end, sums, index, iter, reader, steps, at, lastPtr>>
  BY DEF Return, loop, call
<1>2. Programs' /\ Types' /\ Inside'
  BY <1>1, Constants DEF Inv, Types, Inside, constant
<1> QED
  BY <1>1, <1>2 DEF Inv, Sums, Loops, Boundaries, InSearch, PartStates, SearchStates

\* Between the beginning and the middle parts.
LEMMA EndsStep ==
    ASSUME Inv, Ends
    PROVE  Inv'
<1>n. /\ Len(program.prefix) \in Nat /\ Len(program.suffix) \in Nat
      /\ Len(program.middle) \in Nat /\ Left(0) \in Nat
      /\ Len(text) \in Nat /\ begin \in Nat /\ end \in Nat
      /\ begin <= end /\ end <= Len(text)
      /\ index \in Nat /\ sums \in Nat /\ iter \in Nat
  BY Numbers DEF Inv, Types
<1>s. /\ Len(program.suffix) + Left(0) \in Nat
      /\ Len(program.prefix) + Len(program.suffix) + Left(0)
           = Len(program.prefix) + (Len(program.suffix) + Left(0))
  BY Numbers
<1>u. /\ program.underscores \in BOOLEAN
      /\ program.prefix \in Seq(Byte) /\ program.suffix \in Seq(Byte)
      /\ text \in Seq(Byte) /\ (program.underscores => WellEncoded(text))
      /\ program.underscores /\ program.suffix # << >> => ~Continues(program.suffix[1])
  BY DEF Inv, Programs, Fits, WellEncoded
<1>c. ASSUME UNCHANGED constant
      PROVE  /\ Programs' /\ program' = program /\ text' = text
             /\ \A k : Left(k)' = Left(k)
             /\ \A i : Boundary(i)' = Boundary(i)
             /\ sse' \in BOOLEAN
  BY <1>c, Constants DEF Inv, Types
<1>1. CASE TooShort \/ PrefixDiffers \/ SuffixDiffers
  BY <1>1, Returning DEF TooShort, PrefixDiffers, SuffixDiffers
<1>2. CASE LongEnough
  <2>1. /\ pc = "begin" /\ pc' = "prefix" /\ iter' = 0 /\ end - begin >= sums
        /\ UNCHANGED constant /\ UNCHANGED <<begin, end, sums, index, reader, steps, at, lastPtr>>
    BY <1>2, <1>n DEF LongEnough, NoRoomFor, call
  <2>2. Types' /\ Inside' /\ Sums' /\ Loops' /\ InSearch'
    <3>1. Types' /\ Inside'
      BY <2>1, <1>n, <1>c DEF Inv, Types, Inside, PartStates, SearchStates
    <3>2. Sums'
      BY <2>1, <1>n, <1>c DEF Inv, Types, Sums, PartStates, SearchStates
    <3>3. Loops' /\ InSearch'
      BY <2>1, <1>n, <1>c DEF Inv, Types, Loops, InSearch, PartStates, SearchStates
    <3> QED
      BY <3>1, <3>2, <3>3
  <2>3. program.underscores => begin = 0 /\ end = Len(text)
    BY <2>1 DEF Inv, Boundaries
  <2>4. program.underscores => Boundary(0)
    BY <1>u, <1>n DEF WellEncoded, Boundary
  <2>5. Boundaries'
    BY <2>1, <2>3, <2>4, <1>c DEF Boundaries, PartStates, SearchStates
  <2> QED
    BY <2>1, <2>2, <2>5, <1>c DEF Inv
<1>3. CASE PrefixEqual
  <2>1. /\ pc = "prefix" /\ pc' = "suffix" /\ ~program.underscores
        /\ begin' = begin + Len(program.prefix) /\ sums' = sums - Len(program.prefix)
        /\ UNCHANGED constant /\ UNCHANGED <<end, index, iter, reader, steps, at, lastPtr>>
    BY <1>3 DEF PrefixEqual, loop, call
  <2>2. /\ sums = Len(program.prefix) + Len(program.suffix) + Left(0) /\ index = 0
        /\ end - begin >= sums
    BY <2>1 DEF Inv, Sums
  <2>3. Types' /\ Inside' /\ Sums' /\ Loops' /\ InSearch' /\ Boundaries'
    <3> DEFINE front == Len(program.prefix)
               back == Len(program.suffix) + Left(0)
    <3>a. /\ sums' = back /\ sums' \in Nat
          /\ begin' \in Nat /\ begin' <= end /\ end - begin' >= sums'
      <4>1. sums = front + back /\ sums' = sums - front /\ begin' = begin + front
        BY <2>1, <2>2, <1>s, Zenon
      <4>2. front \in Nat /\ back \in Nat /\ begin \in Nat /\ end \in Nat /\ end - begin >= sums
        BY <2>2, <1>n, <1>s, Zenon
      <4> HIDE DEF front, back
      <4> QED
        BY <4>1, <4>2
    <3>b. index' = 0 /\ index' \in 0 .. Len(program'.middle)
      BY <2>1, <2>2, <1>n, <1>c
    <3>1. Types' /\ Inside'
      BY <2>1, <3>a, <3>b, <1>n, <1>c DEF Inv, Types, Inside, PartStates, SearchStates
    <3>2. Sums'
      BY <2>1, <3>a, <3>b, <1>n, <1>c DEF Sums, PartStates, SearchStates
    <3>3. Loops' /\ InSearch' /\ Boundaries'
      BY <2>1, <2>2, <1>n, <1>c DEF Inv, Types, Loops, InSearch, Boundaries, PartStates, SearchStates
    <3> QED
      BY <3>1, <3>2, <3>3
  <2> QED
    BY <2>1, <2>3, <1>c DEF Inv
<1>4. CASE WalkPrefix
  <2> DEFINE c == program.prefix[iter + 1]
  <2>1. CASE PrefixStuck(c)
    BY <1>4, <2>1, Returning DEF WalkPrefix
  <2>2. CASE ~PrefixStuck(c)
    <3>1. /\ pc = "prefix" /\ pc' = "prefix" /\ program.underscores /\ iter < Len(program.prefix)
          /\ begin' = begin + IF c = Underscore THEN MultiByteSequenceLength(text[begin + 1]) ELSE 1
          /\ iter' = iter + 1
          /\ UNCHANGED constant /\ UNCHANGED <<end, sums, index, reader, steps, at, lastPtr>>
      BY <1>4, <2>2 DEF WalkPrefix, call
    <3>2. begin # end /\ (c = Underscore \/ AsChar(c) = text[begin + 1])
      BY <2>2 DEF PrefixStuck
    <3>3. end = Len(text) /\ Boundary(begin) /\ Boundary(end)
      BY <3>1 DEF Inv, Boundaries, Boundary
    <3>4. c \in Byte
      BY <3>1, <1>n, <1>u
    <3>5. begin' \in begin + 1 .. end /\ Boundary(begin')
      <4>1. CASE c = Underscore
        <5>1. begin < end /\ begin' = begin + MultiByteSequenceLength(text[begin + 1])
          BY <4>1, <3>1, <3>2, <1>n
        <5>2. text \in Seq(Byte) /\ WellEncoded(text)
          BY <3>1, <1>u
        <5>3. begin + MultiByteSequenceLength(text[begin + 1]) \in begin + 1 .. end
              /\ Boundary(begin + MultiByteSequenceLength(text[begin + 1]))
          BY <5>1, <5>2, <3>3, <1>n, NextCodePoint
        <5> QED
          BY <5>1, <5>3, Zenon
      <4>2. CASE c # Underscore
        <5>1. begin' = begin + 1 /\ begin < Len(text) /\ AsChar(c) = text[begin + 1]
          BY <4>2, <3>1, <3>2, <3>3, <1>n
        <5>2. Boundary(begin + 1)
          BY <5>1, <3>1, <3>4, <1>n, <1>u, NextAscii
        <5> QED
          BY <5>1, <5>2, <3>3, <1>n
      <4> QED
        BY <4>1, <4>2
    <3>6. Boundary(begin)'
      BY <3>1, <3>5, <1>c DEF Boundary
    <3>7. Types' /\ Inside' /\ Sums' /\ Loops' /\ InSearch'
      <4>1. Types' /\ Inside'
        BY <3>1, <3>5, <1>n, <1>c DEF Inv, Types, Inside, PartStates, SearchStates
      <4>2. Sums'
        BY <3>1, <3>5, <1>n, <1>c DEF Inv, Types, Sums, PartStates, SearchStates
      <4>3. Loops' /\ InSearch'
        BY <3>1, <3>5, <1>n, <1>c DEF Inv, Types, Loops, InSearch, PartStates, SearchStates
      <4> QED
        BY <4>1, <4>2, <4>3
    <3>8. Boundaries'
      BY <3>1, <3>3, <3>6, <1>c DEF Boundaries, PartStates, SearchStates
    <3> QED
      BY <3>1, <3>7, <3>8, <1>c DEF Inv
  <2> QED
    BY <2>1, <2>2
<1>5. CASE PrefixWalked
  <2>1. /\ pc = "prefix" /\ pc' = "suffix" /\ program.underscores
        /\ sums' = sums - Len(program.prefix) /\ iter' = Len(program.suffix)
        /\ UNCHANGED constant /\ UNCHANGED <<begin, end, index, reader, steps, at, lastPtr>>
    BY <1>5 DEF PrefixWalked, call
  <2>2. /\ sums = Len(program.prefix) + Len(program.suffix) + Left(0) /\ index = 0
        /\ end = Len(text) /\ Boundary(begin)
    BY <2>1 DEF Inv, Sums, Boundaries
  <2>3. Boundary(begin)'
    BY <2>1, <2>2 DEF Boundary, constant
  <2>4. Types' /\ Inside' /\ Sums' /\ Loops' /\ InSearch'
    <3> DEFINE front == Len(program.prefix)
               back == Len(program.suffix) + Left(0)
    <3>a. sums' = back /\ sums' \in Nat
      <4>1. sums = front + back /\ sums' = sums - front
        BY <2>1, <2>2, <1>s, Zenon
      <4>2. front \in Nat /\ back \in Nat
        BY <1>n, <1>s, Zenon
      <4> HIDE DEF front, back
      <4> QED
        BY <4>1, <4>2
    <3>b. index' = 0 /\ index' \in 0 .. Len(program'.middle)
      BY <2>1, <2>2, <1>n, <1>c
    <3>1. Types' /\ Inside'
      BY <2>1, <3>a, <3>b, <1>n, <1>c DEF Inv, Types, Inside, PartStates, SearchStates
    <3>2. Sums'
      BY <2>1, <3>a, <3>b, <1>n, <1>c DEF Sums, PartStates, SearchStates
    <3>3. Loops' /\ InSearch'
      BY <2>1, <2>2, <1>n, <1>c DEF Inv, Types, Loops, InSearch, PartStates, SearchStates
    <3> QED
      BY <3>1, <3>2, <3>3
  <2>5. Boundaries'
    BY <2>1, <2>2, <2>3, <1>c DEF Boundaries, PartStates, SearchStates
  <2> QED
    BY <2>1, <2>4, <2>5, <1>c DEF Inv
<1>6. CASE SuffixEqual
  <2>1. /\ pc = "suffix" /\ pc' = "next" /\ ~program.underscores
        /\ end' = end - Len(program.suffix) /\ sums' = sums - Len(program.suffix)
        /\ UNCHANGED constant /\ UNCHANGED <<begin, index, iter, reader, steps, at, lastPtr>>
    BY <1>6 DEF SuffixEqual, loop, call
  <2>2. sums = Len(program.suffix) + Left(0) /\ index = 0 /\ end - begin >= sums
    BY <2>1 DEF Inv, Sums
  <2>3. Types' /\ Inside' /\ Sums' /\ Loops' /\ InSearch' /\ Boundaries'
    <3> DEFINE back == Len(program.suffix)
               rest == Left(0)
    <3>a. /\ sums' = rest /\ sums' \in Nat
          /\ end' \in Nat /\ begin <= end' /\ end' <= Len(text)
      <4>1. sums = back + rest /\ sums' = sums - back /\ end' = end - back
        BY <2>1, <2>2
      <4>2. /\ back \in Nat /\ rest \in Nat /\ begin \in Nat /\ end \in Nat /\ end - begin >= sums
            /\ end <= Len(text) /\ Len(text) \in Nat
        BY <2>2, <1>n
      <4> HIDE DEF back, rest
      <4> QED
        BY <4>1, <4>2
    <3>b. index' = 0 /\ index' \in 0 .. Len(program'.middle)
      BY <2>1, <2>2, <1>n, <1>c
    <3>1. Types' /\ Inside'
      BY <2>1, <3>a, <3>b, <1>n, <1>c DEF Inv, Types, Inside, PartStates, SearchStates
    <3>2. Sums'
      BY <2>1, <3>a, <3>b, <1>n, <1>c DEF Sums, PartStates, SearchStates
    <3>3. Loops' /\ InSearch' /\ Boundaries'
      BY <2>1, <2>2, <1>n, <1>c DEF Inv, Types, Loops, InSearch, Boundaries, PartStates, SearchStates
    <3> QED
      BY <3>1, <3>2, <3>3
  <2> QED
    BY <2>1, <2>3, <1>c DEF Inv
<1>7. CASE WalkSuffix
  <2> DEFINE c == program.suffix[iter]
  <2>1. CASE SuffixStuck(c)
    BY <1>7, <2>1, Returning DEF WalkSuffix
  <2>2. CASE ~SuffixStuck(c)
    <3>1. /\ pc = "suffix" /\ pc' = "suffix" /\ program.underscores /\ iter > 0
          /\ end' = (IF c = Underscore THEN CodePointBefore(end) ELSE end - 1)
          /\ iter' = iter - 1
          /\ UNCHANGED constant /\ UNCHANGED <<begin, sums, index, reader, steps, at, lastPtr>>
      BY <1>7, <2>2 DEF WalkSuffix, call
    <3>2. begin < end /\ (c = Underscore \/ c = text[end])
      BY <2>2, <1>n DEF SuffixStuck
    <3>3. iter \in 1 .. Len(program.suffix) /\ Boundary(begin)
      BY <3>1, <1>n DEF Inv, Loops, Boundaries
    <3>4. end' \in begin .. end - 1 /\ (~Continues(c) => Boundary(end'))
      <4>1. CASE c = Underscore
        BY <4>1, <3>1, <3>2, <3>3, <1>n, <1>u, CodePointInFront
      <4>2. CASE c # Underscore
        <5>1. end' = end - 1 /\ c = text[end]
          BY <4>2, <3>1, <3>2
        <5> QED
          BY <5>1, <3>2, <1>n DEF Boundary
      <4> QED
        BY <4>1, <4>2
    <3>5. Boundary(begin)' /\ (~Continues(c) => Boundary(end)')
      BY <3>1, <3>3, <3>4, <1>c DEF Boundary
    <3>6. Types' /\ Inside' /\ Sums' /\ Loops' /\ InSearch'
      <4>1. Types' /\ Inside'
        <5>1. end' \in Nat /\ begin <= end' /\ end' <= Len(text) /\ iter' \in Nat
          BY <3>1, <3>3, <3>4, <1>n
        <5> QED
          BY <3>1, <5>1, <1>n, <1>c DEF Inv, Types, Inside, PartStates, SearchStates
      <4>2. Sums'
        BY <3>1, <3>3, <3>4, <1>n, <1>c DEF Inv, Types, Sums, PartStates, SearchStates
      <4>3. Loops' /\ InSearch'
        BY <3>1, <3>3, <3>4, <1>n, <1>c DEF Inv, Types, Loops, InSearch, PartStates, SearchStates
      <4> QED
        BY <4>1, <4>2, <4>3
    <3>7. iter' # Len(program'.suffix) /\ program'.suffix[iter' + 1] = c
      BY <3>1, <3>3, <1>n, <1>c
    <3>8. Boundaries'
      BY <3>1, <3>5, <3>7, <1>c DEF Boundaries, PartStates, SearchStates
    <3> QED
      BY <3>1, <3>6, <3>8, <1>c DEF Inv
  <2> QED
    BY <2>1, <2>2
<1>8. CASE SuffixWalked
  <2>1. /\ pc = "suffix" /\ pc' = "next" /\ program.underscores /\ iter = 0
        /\ sums' = sums - Len(program.suffix)
        /\ UNCHANGED constant /\ UNCHANGED <<begin, end, index, iter, reader, steps, at, lastPtr>>
    BY <1>8 DEF SuffixWalked, loop, call
  <2>2. sums = Len(program.suffix) + Left(0) /\ index = 0 /\ Boundary(begin)
    BY <2>1 DEF Inv, Sums, Boundaries
  <2>3. Boundary(end)
    <3>1. CASE program.suffix = << >>
      BY <3>1, <2>1, <1>n DEF Inv, Boundaries, Boundary
    <3>2. CASE program.suffix # << >>
      <4>1. Len(program.suffix) # 0
        BY <3>2, <1>u
      <4> QED
        BY <3>2, <4>1, <2>1, <1>u, <1>n DEF Inv, Boundaries
    <3> QED
      BY <3>1, <3>2
  <2>4. Boundary(begin)' /\ Boundary(end)'
    BY <2>1, <2>2, <2>3 DEF Boundary, constant
  <2>5. Types' /\ Inside' /\ Sums' /\ Loops' /\ InSearch'
    <3>1. Types' /\ Inside'
      BY <2>1, <2>2, <1>n, <1>c DEF Inv, Types, Inside, PartStates, SearchStates
    <3>2. Sums'
      BY <2>1, <2>2, <1>n, <1>c DEF Inv, Types, Sums, PartStates, SearchStates
    <3>3. Loops' /\ InSearch'
      BY <2>1, <2>2, <1>n, <1>c DEF Inv, Types, Loops, InSearch, PartStates, SearchStates
    <3> QED
      BY <3>1, <3>2, <3>3
  <2>6. Boundaries'
    BY <2>1, <2>4 DEF Boundaries, PartStates, SearchStates
  <2> QED
    BY <2>1, <2>5, <2>6, <1>c DEF Inv
<1> QED
  BY <1>1, <1>2, <1>3, <1>4, <1>5, <1>6, <1>7, <1>8 DEF Ends

\* A needle that lies in the text begins and ends between two code points.
LEMMA NeedleIsWhole ==
    ASSUME text \in Seq(Byte), WellEncoded(text), needle \in Seq(Byte), needle # << >>,
           WholeCodePoints(needle),
           NEW i \in Nat, i + Length <= Len(text),
           \A pos \in 0 .. Length - 1 : MatchesAt(i, pos)
    PROVE  Boundary(i) /\ Boundary(i + Length)
<1>1. Length = Len(needle) /\ Length \in Nat /\ Length > 0
  BY DEF Length
<1>2. ASSUME NEW pos \in 0 .. Length - 1
      PROVE  text[i + pos + 1] = needle[pos + 1] /\ i + pos \in 0 .. Len(text) - 1
  BY <1>1, <1>2 DEF MatchesAt, At
<1>3. Boundary(i)
  <2>1. 0 \in 0 .. Length - 1
    BY <1>1
  <2>2. needle[0 + 1] = text[i + 0 + 1]
    BY <2>1 DEF MatchesAt, At
  <2>3. needle[1] = text[i + 1]
    BY <2>2
  <2> QED
    BY <2>3 DEF WholeCodePoints, Boundary
<1>4. PICK k \in 0 .. Length - 1 :
          ~Continues(needle[k + 1]) /\ k + MultiByteSequenceLength(needle[k + 1]) = Length
  BY <1>1 DEF WholeCodePoints
<1>5. text[i + k + 1] = needle[k + 1] /\ i + k \in 0 .. Len(text) - 1
  BY <1>2
<1> DEFINE j == i + k
           next == j + MultiByteSequenceLength(text[j + 1])
<1>6. next = i + Length
  <2>1. MultiByteSequenceLength(needle[k + 1]) \in 1 .. 4
    <3>1. needle[k + 1] \in Byte
      BY <1>1
    <3> QED
      BY <3>1, CodePointLengths
  <2> DEFINE len == MultiByteSequenceLength(needle[k + 1])
  <2>2. next = (i + k) + len
    BY <1>5, Zenon
  <2>3. len \in Int /\ k + len = Length /\ k \in Int
    BY <1>1, <1>4, <2>1
  <2>4. \A a, b, c \in Int : (a + b) + c = a + (b + c)
    OBVIOUS
  <2>5. (i + k) + len = i + (k + len)
    <3> HIDE DEF len
    <3> QED
      BY <2>3, <2>4
  <2> QED
    BY <2>2, <2>3, <2>5, Zenon
<1>7. next < Len(text) => ~Continues(text[next + 1])
  <2>1. j \in 0 .. Len(text) - 1 /\ ~Continues(text[j + 1])
    BY <1>4, <1>5
  <2> HIDE DEF j
  <2> QED
    BY <2>1 DEF WellEncoded
<1>8. Boundary(i + Length)
  <2>1. i + Length < Len(text) => ~Continues(text[(i + Length) + 1])
    BY <1>6, <1>7
  <2>2. i + Length \in Nat /\ Len(text) \in Nat
    BY <1>1
  <2> QED
    BY <2>1, <2>2 DEF Boundary
<1> QED
  BY <1>3, <1>8

\* A middle part that ends at i leaves the others to be found behind it.
LEMMA Advancing ==
    ASSUME Inv, pc \in PartStates, NEW i \in begin .. end, Advance(i),
           program.underscores => Boundary(i)
    PROVE  Inv'
<1>1. /\ pc' = "next" /\ begin' = i /\ sums' = sums - Len(Middle.part) /\ index' = index + 1
      /\ UNCHANGED constant /\ UNCHANGED <<end, iter, reader, steps, at, lastPtr>>
  BY DEF Advance, loop, call
<1>2. /\ program' = program /\ text' = text /\ Programs' /\ sse' = sse
      /\ \A k : Left(k)' = Left(k)
      /\ \A k : Boundary(k)' = Boundary(k)
  BY <1>1, Constants
<1>3. /\ index + 1 \in 0 .. Len(program.middle) /\ sums' = Left(index + 1) /\ sums' \in Nat
  <2> DEFINE rest == Left(index + 1)
             part == Len(Middle.part)
  <2>1. sums = part + rest /\ rest \in Nat /\ part \in Nat /\ sums' = sums - part
    BY <1>1, PartFacts
  <2>2. sums' = rest
    <3> HIDE DEF rest, part
    <3> QED
      BY <2>1
  <2> QED
    BY <2>1, <2>2, PartFacts
<1>4. begin \in Nat /\ end \in Nat /\ end <= Len(text) /\ Len(text) \in Nat
  BY Numbers
<1>5. Types' /\ Inside'
  BY <1>1, <1>2, <1>3, <1>4 DEF Inv, Types, Inside
<1>6. Sums'
  <2>1. sums' = Left(index')
    BY <1>1, <1>3
  <2>2. sums' = Left(index)'
    BY <1>2, <2>1 DEF Left
  <2> QED
    BY <1>1, <2>2 DEF Sums, PartStates, SearchStates
<1>7. Loops' /\ InSearch'
  BY <1>1 DEF Loops, InSearch, PartStates, SearchStates
<1>8. program.underscores => Boundary(i)' /\ Boundary(end)'
  BY <1>1, <1>2 DEF Inv, Boundaries
<1>9. Boundaries'
  BY <1>1, <1>2, <1>8 DEF Boundaries, Boundary, PartStates, SearchStates
<1> QED
  BY <1>2, <1>5, <1>6, <1>7, <1>9 DEF Inv

\* The search is called with arguments as it must be.
LEMMA CallsStep ==
    ASSUME Inv, CallSearch
    PROVE  Inv'
<1>1. /\ pc' = "search" /\ needle' = Middle.buffer /\ prepared' = Middle.prepared
      /\ limit' = end - begin - Needed + 1 /\ UNCHANGED constant
      /\ UNCHANGED <<begin, end, sums, index, iter, reader, steps, at, lastPtr>>
      /\ HasNeedle /\ ~(end - begin < Needed)
  BY DEF CallSearch, loop, NoRoomFor
<1>2. pc \in {"skip", "again"} /\ Middle.buffer # << >> /\ pc \in PartStates
  BY <1>1 DEF HasNeedle, Inv, Loops, PartStates
<1>3. /\ program' = program /\ text' = text /\ Programs' /\ sse' = sse
      /\ \A k : Left(k)' = Left(k)
      /\ \A k : Boundary(k)' = Boundary(k)
  BY <1>1, Constants
<1>4. /\ Needed \in Nat /\ Needed >= Len(Middle.buffer) /\ Len(Middle.buffer) \in Nat
      /\ PartFits(Middle, program.underscores)
  BY <1>2, PartFacts
<1>5. /\ begin \in Nat /\ end \in Nat /\ begin <= end /\ end <= Len(text) /\ Len(text) \in Nat
  BY Numbers
<1>6. Given'
  <2>1. text' \in Seq(Nat) /\ needle' \in Seq(Nat) /\ needle' # << >>
    <3>1. text \in Seq(Byte) /\ Middle.buffer \in Seq(Byte)
      BY <1>4 DEF Inv, Programs, PartFits
    <3>2. \A s \in Seq(Byte) : s \in Seq(Nat)
      <4>1. \A s \in Seq(Byte) : Len(s) \in Nat /\ s \in [1 .. Len(s) -> Byte]
        OBVIOUS
      <4>2. Byte \subseteq Nat
        BY DEF Byte
      <4>3. \A s \in Seq(Byte) : s \in [1 .. Len(s) -> Nat]
        BY <4>1, <4>2
      <4> QED
        BY <4>1, <4>3
    <3> QED
      BY <1>1, <1>2, <1>3, <3>1, <3>2
  <2>2. limit' \in Nat \ {0} /\ begin' + limit' + Length' - 1 <= end'
    BY <1>1, <1>4, <1>5 DEF Length
  <2>3. prepared' \in [ms : Int, period : Int, equal : BOOLEAN] /\ Prepared(needle', prepared')
    BY <1>1, <1>2, <1>4 DEF PartFits
  <2>4. sse' \in BOOLEAN /\ begin' \in Nat /\ end' \in 0 .. Len(text')
    BY <1>1, <1>3, <1>5 DEF Inv, Types
  <2> QED
    BY <2>1, <2>2, <2>3, <2>4 DEF Given
<1>7. IInv'
  BY <1>1, <1>6 DEF IInv, TypeOK, InLoop, NoneSkipped, RemembersMatch, FirstOccurrence, Inv, Types
<1>8. Types' /\ Inside'
  BY <1>1, <1>3 DEF Inv, Types, Inside, PartStates, SearchStates
<1>9. Sums'
  <2>1. sums' = Left(index)' /\ index' < Len(program'.middle)
    BY <1>1, <1>2, <1>3 DEF Inv, Sums
  <2> QED
    BY <1>1, <2>1 DEF Sums, PartStates, SearchStates
<1>10. Loops' /\ InSearch'
  <2>1. Middle' = Middle
    BY <1>1, <1>3 DEF Middle
  <2> QED
    BY <1>1, <1>2, <1>7, <2>1 DEF Loops, InSearch, PartStates, SearchStates
<1>11. program.underscores => Boundary(end)'
  BY <1>1, <1>2, <1>3 DEF Inv, Boundaries
<1>12. Boundaries'
  BY <1>1, <1>3, <1>11 DEF Boundaries, Boundary, PartStates, SearchStates
<1> QED
  BY <1>3, <1>8, <1>9, <1>10, <1>12 DEF Inv

\* A step that stays in the loops of a middle part changes nothing but where
\* the loops are.
LEMMA Looping ==
    ASSUME Inv, UNCHANGED constant, UNCHANGED <<end, sums, index, at, lastPtr>>,
           pc \in {"next"} \cup PartStates, pc' \in PartStates,
           index < Len(program.middle),
           begin' \in begin .. end, iter' \in Nat, reader' \in Nat, steps' \in Nat
    PROVE  /\ Programs' /\ Types' /\ Inside' /\ Sums'
           /\ program' = program /\ text' = text /\ Middle' = Middle
           /\ \A i : Boundary(i)' = Boundary(i)
           /\ program.underscores => Boundary(end)
<1>1. /\ program' = program /\ text' = text /\ Programs' /\ sse' = sse
      /\ \A k : Left(k)' = Left(k)
      /\ \A k : Boundary(k)' = Boundary(k)
  BY Constants
<1>2. begin \in Nat /\ end \in Nat /\ end <= Len(text) /\ Len(text) \in Nat
  BY Numbers
<1>3. Types' /\ Inside'
  BY <1>1, <1>2 DEF Inv, Types, Inside
<1>4. Sums'
  <2>1. sums' = Left(index)'
    BY <1>1 DEF Inv, Sums
  <2> QED
    BY <1>1, <2>1 DEF Sums, PartStates, SearchStates
<1>5. program.underscores => Boundary(end)
  BY DEF Inv, Boundaries
<1> QED
  BY <1>1, <1>3, <1>4, <1>5 DEF Middle

\* Where the needle was found, and what follows it, lies in what is left.
LEMMA PlaceFound ==
    ASSUME Inv, pc = "found"
    PROVE  /\ at \in begin .. end /\ at + Length \in at + 1 .. end /\ Length \in Nat
           /\ program.underscores => Boundary(at) /\ Boundary(at + Length)
<1>1. IInv /\ needle = Middle.buffer /\ needle # << >> /\ PartFits(Middle, program.underscores)
  BY PartFacts DEF Inv, InSearch, Loops, PartStates, SearchStates
<1>2. /\ at >= begin /\ at + Length <= end /\ \A pos \in 0 .. Length - 1 : MatchesAt(at, pos)
      /\ at \in Int
  BY <1>1 DEF IInv, TypeOK, FirstOccurrence, OccursAt
<1>3. Length \in Nat /\ Length > 0
  BY <1>1, Lengths DEF IInv
<1>4. begin \in Nat /\ end \in Nat /\ end <= Len(text) /\ Len(text) \in Nat
  BY Numbers
<1>5. ASSUME program.underscores PROVE Boundary(at) /\ Boundary(at + Length)
  <2>1. WholeCodePoints(needle) /\ needle \in Seq(Byte)
    BY <1>1, <1>5 DEF PartFits
  <2>2. text \in Seq(Byte) /\ WellEncoded(text)
    BY <1>5 DEF Inv, Programs
  <2>3. at \in Nat /\ at + Length <= Len(text)
    BY <1>2, <1>3, <1>4
  <2> QED
    BY <1>1, <1>2, <2>1, <2>2, <2>3, NeedleIsWhole
<1> QED
  BY <1>2, <1>3, <1>4, <1>5

\* A byte behind the needle, from boundary to boundary.
LEMMA ReadsOn ==
    ASSUME Inv, RestMatches
    PROVE  /\ reader' \in reader + 1 .. end
           /\ Boundary(reader')
           /\ MultiByteSequenceLength(text[reader + 1]) \in Nat
<1>1. /\ pc = "rest" /\ iter < Len(Middle.part) /\ reader # end
      /\ Char = Underscore \/ AsChar(Char) = text[reader + 1]
      /\ reader' = reader + IF Char = Underscore THEN MultiByteSequenceLength(text[reader + 1]) ELSE 1
  BY DEF RestMatches, InRest
<1>2. /\ program.underscores /\ reader \in begin .. end
      /\ Boundary(reader) /\ Boundary(end)
  BY <1>1 DEF Inv, Loops, Boundaries, PartStates
<1>3. begin \in Nat /\ end \in Nat /\ end <= Len(text) /\ Len(text) \in Nat
  BY Numbers
<1>4. reader \in Nat /\ reader < end /\ text \in Seq(Byte) /\ WellEncoded(text)
  BY <1>1, <1>2, <1>3 DEF Inv, Programs
<1>5. /\ MultiByteSequenceLength(text[reader + 1]) \in Nat
      /\ reader + MultiByteSequenceLength(text[reader + 1]) \in reader + 1 .. end
      /\ Boundary(reader + MultiByteSequenceLength(text[reader + 1]))
  BY <1>2, <1>3, <1>4, NextCodePoint
<1>6. CASE Char = Underscore
  BY <1>1, <1>5, <1>6
<1>7. CASE Char # Underscore
  <2>1. Char \in Byte
    <3>1. Middle.part \in Seq(Byte) /\ iter \in Nat
      BY <1>1, PartFacts DEF Inv, Types, PartStates, PartFits
    <3> QED
      BY <1>1, <3>1 DEF Char
  <2>2. reader < Len(text) /\ AsChar(Char) = text[reader + 1] /\ reader' = reader + 1
    BY <1>1, <1>3, <1>4, <1>7
  <2>3. Boundary(reader + 1)
    BY <1>4, <2>1, <2>2, NextAscii
  <2> QED
    BY <1>3, <1>4, <1>5, <2>2, <2>3
<1> QED
  BY <1>6, <1>7

\* The middle parts.
LEMMA MiddlesStep ==
    ASSUME Inv, Middles
    PROVE  Inv'
<1>n. /\ begin \in Nat /\ end \in Nat /\ begin <= end /\ end <= Len(text) /\ Len(text) \in Nat
      /\ iter \in Nat /\ reader \in Nat /\ steps \in Nat /\ sums \in Nat
      /\ index \in Nat /\ index <= Len(program.middle) /\ Len(program.middle) \in Nat
  BY Numbers DEF Inv, Types
<1>p. pc \in PartStates =>
        /\ PartFits(Middle, program.underscores) /\ index < Len(program.middle)
        /\ Middle.skip \in Nat
        /\ program.underscores => Boundary(end)
  <2>1. PartFits(Middle, program.underscores) => Middle.skip \in Nat
    BY DEF PartFits
  <2> QED
    BY <2>1, PartFacts DEF Inv, Sums, Boundaries
<1>1. CASE \/ AllFound \/ NoRoomForRest \/ NoRoomForNeedle \/ NeedleMissing
           \/ NoRoomBehindNeedle \/ TextEnds
  BY <1>1, Returning DEF AllFound, NoRoomForRest, NoRoomForNeedle, NeedleMissing,
                         NoRoomBehindNeedle, TextEnds
<1>2. CASE NextMiddle
  <2>1. /\ pc = "next" /\ pc' = "skip" /\ index < Len(program.middle) /\ iter' = Middle.skip
        /\ UNCHANGED constant /\ UNCHANGED <<begin, end, sums, index, reader, steps, at, lastPtr>>
    BY <1>2 DEF NextMiddle, call
  <2>2. Middle.skip \in Nat
    <3>1. index + 1 \in 1 .. Len(program.middle)
      BY <2>1, <1>n
    <3> QED
      BY <3>1 DEF Inv, Programs, Fits, PartFits, Middle
  <2>3. /\ Programs' /\ Types' /\ Inside' /\ Sums'
        /\ program' = program /\ text' = text /\ Middle' = Middle
        /\ \A i : Boundary(i)' = Boundary(i)
        /\ program.underscores => Boundary(end)
    <3>1. pc' \in PartStates /\ begin' \in begin .. end
      BY <2>1, <1>n DEF PartStates
    <3> QED
      BY <2>1, <2>2, <3>1, <1>n, Looping
  <2>4. Loops' /\ InSearch'
    BY <2>1, <2>2, <2>3 DEF Loops, InSearch, PartStates, SearchStates
  <2>5. program.underscores => Boundary(begin)' /\ Boundary(end)'
    BY <2>1, <2>3 DEF Inv, Boundaries, Boundary
  <2>6. Boundaries'
    BY <2>1, <2>3, <2>5 DEF Boundaries, PartStates, SearchStates
  <2> QED
    BY <2>3, <2>4, <2>6 DEF Inv
<1>3. CASE SkipUnderscore
  <2>1. CASE begin = end
    BY <1>3, <2>1, Returning DEF SkipUnderscore
  <2>2. CASE begin # end
    <3>1. /\ pc = "skip" /\ pc' = "skip" /\ iter > 0 /\ iter' = iter - 1
          /\ begin' = begin + MultiByteSequenceLength(text[begin + 1])
          /\ UNCHANGED constant /\ UNCHANGED <<end, sums, index, reader, steps, at, lastPtr>>
      BY <1>3, <2>2 DEF SkipUnderscore, call
    <3>2. pc \in PartStates /\ pc' \in PartStates
      BY <3>1 DEF PartStates
    <3>3. program.underscores
      <4>1. iter <= Middle.skip
        BY <3>1 DEF Inv, Loops
      <4>2. Middle.skip # 0
        BY <3>1, <3>2, <4>1, <1>n, <1>p
      <4>3. program.underscores \in BOOLEAN
        BY DEF Inv, Programs, Fits
      <4> QED
        BY <3>2, <4>2, <4>3, <1>p DEF PartFits
    <3>4. begin' \in begin + 1 .. end /\ Boundary(begin')
      <4>1. Boundary(begin) /\ Boundary(end) /\ text \in Seq(Byte) /\ WellEncoded(text)
        BY <3>1, <3>2, <3>3 DEF Inv, Boundaries, Programs
      <4> QED
        BY <2>2, <3>1, <4>1, <1>n, NextCodePoint
    <3>5. /\ Programs' /\ Types' /\ Inside' /\ Sums'
          /\ program' = program /\ text' = text /\ Middle' = Middle
          /\ \A i : Boundary(i)' = Boundary(i)
          /\ program.underscores => Boundary(end)
      <4>1. begin' \in begin .. end /\ iter' \in Nat
        BY <3>1, <3>4, <1>n
      <4> QED
        BY <3>1, <3>2, <4>1, <1>n, <1>p, Looping
    <3>6. Loops' /\ InSearch'
      <4>1. iter' <= Middle.skip
        BY <3>1, <3>2, <1>n, <1>p DEF Inv, Loops
      <4> QED
        BY <3>1, <3>5, <4>1 DEF Loops, InSearch, PartStates, SearchStates
    <3>7. Boundary(begin)' /\ Boundary(end)'
      BY <3>1, <3>3, <3>4, <3>5 DEF Boundary
    <3>8. Boundaries'
      BY <3>1, <3>7 DEF Boundaries, PartStates, SearchStates
    <3> QED
      BY <3>5, <3>6, <3>8 DEF Inv
  <2> QED
    BY <2>1, <2>2
<1>4. CASE OnlyUnderscores
  <2>1. pc \in PartStates /\ Advance(begin) /\ begin \in begin .. end
        /\ (program.underscores => Boundary(begin))
    BY <1>4, <1>n DEF OnlyUnderscores, PartStates, Inv, Boundaries
  <2> QED
    BY <2>1, Advancing
<1>5. CASE CallSearch
  BY <1>5, CallsStep
<1>6. CASE PartFound
  <2>1. pc = "found" /\ pc \in PartStates /\ Advance(at + Length)
    BY <1>6 DEF PartFound, PartStates, SearchStates
  <2> DEFINE i == at + Length
  <2>2. i \in begin .. end /\ (program.underscores => Boundary(i))
    BY <2>1, <1>n, PlaceFound
  <2> HIDE DEF i
  <2> QED
    BY <2>1, <2>2, Advancing DEF i
<1>7. CASE NeedleFound
  <2>1. /\ pc = "found" /\ pc' = "rest" /\ Middle.buffer # Middle.part /\ begin' = at
        /\ iter' = Middle.skip + Length /\ reader' = at + Length /\ steps' = 0
        /\ UNCHANGED constant /\ UNCHANGED <<end, sums, index, needle, at, lastPtr>>
    BY <1>7 DEF NeedleFound, call
  <2>2. pc \in PartStates /\ pc' \in PartStates
    BY <2>1 DEF PartStates, SearchStates
  <2>3. /\ at \in begin .. end /\ at + Length \in at + 1 .. end /\ Length \in Nat
        /\ program.underscores => Boundary(at) /\ Boundary(at + Length)
    BY <2>1, PlaceFound
  <2>4. program.underscores
    BY <2>1, <2>2, <1>p DEF PartFits, Inv, Programs, Fits
  <2>5. /\ Programs' /\ Types' /\ Inside' /\ Sums'
        /\ program' = program /\ text' = text /\ Middle' = Middle
        /\ \A i : Boundary(i)' = Boundary(i)
        /\ program.underscores => Boundary(end)
    <3>1. begin' \in begin .. end /\ iter' \in Nat /\ reader' \in Nat /\ steps' \in Nat
      BY <2>1, <2>2, <2>3, <1>n, <1>p
    <3> QED
      BY <2>1, <2>2, <3>1, <1>p, Looping
  <2>6. Loops' /\ InSearch'
    <3>1. Middle.buffer # << >> /\ needle = Middle.buffer
      BY <2>1, <2>2 DEF Inv, Loops, SearchStates
    <3>2. begin' < end /\ reader' \in begin' .. end
      BY <2>1, <2>3, <1>n
    <3> QED
      BY <2>1, <2>4, <2>5, <3>1, <3>2 DEF Loops, InSearch, PartStates, SearchStates
  <2>7. Boundary(reader)' /\ Boundary(end)'
    BY <2>1, <2>3, <2>4, <2>5 DEF Boundary
  <2>8. Boundaries'
    BY <2>1, <2>7 DEF Boundaries, PartStates, SearchStates
  <2> QED
    BY <2>5, <2>6, <2>8 DEF Inv
<1>8. CASE RestMatches
  <2>1. /\ pc = "rest" /\ pc' = "rest" /\ iter' = iter + 1
        /\ steps' = steps + (IF Char = Underscore THEN MaxCodePoint ELSE 1)
        /\ UNCHANGED constant /\ UNCHANGED <<begin, end, sums, index, needle, at, lastPtr>>
    BY <1>8 DEF RestMatches, InRest, call
  <2>2. pc \in PartStates /\ pc' \in PartStates
    BY <2>1 DEF PartStates, SearchStates
  <2>3. reader' \in reader + 1 .. end /\ Boundary(reader')
    BY <1>8, ReadsOn
  <2>4. /\ Programs' /\ Types' /\ Inside' /\ Sums'
        /\ program' = program /\ text' = text /\ Middle' = Middle
        /\ \A i : Boundary(i)' = Boundary(i)
        /\ program.underscores => Boundary(end)
    <3>1. begin' \in begin .. end /\ iter' \in Nat /\ reader' \in Nat /\ steps' \in Nat
      BY <2>1, <2>3, <1>n DEF MaxCodePoint
    <3> QED
      BY <2>1, <2>2, <3>1, <1>p, Looping
  <2>5. /\ Middle.buffer # << >> /\ needle = Middle.buffer /\ program.underscores
        /\ begin < end /\ reader \in begin .. end
    BY <2>1, <2>2 DEF Inv, Loops, SearchStates
  <2>6. Loops' /\ InSearch'
    <3>1. begin' < end' /\ reader' \in begin' .. end'
      BY <2>1, <2>3, <2>5, <1>n
    <3> QED
      BY <2>1, <2>4, <2>5, <3>1 DEF Loops, InSearch, PartStates, SearchStates
  <2>7. Boundary(reader)' /\ Boundary(end)'
    BY <2>1, <2>3, <2>4, <2>5 DEF Boundary
  <2>8. Boundaries'
    BY <2>1, <2>7 DEF Boundaries, PartStates, SearchStates
  <2> QED
    BY <2>4, <2>6, <2>8 DEF Inv
<1>9. CASE RestDiffers
  <2>1. CASE Places = {}
    BY <1>9, <2>1, Returning DEF RestDiffers
  <2>2. CASE Places # {}
    <3>1. /\ pc = "rest" /\ pc' = "again" /\ begin' = BeginAgain
          /\ UNCHANGED constant
          /\ UNCHANGED <<end, sums, index, iter, reader, steps, needle, at, lastPtr>>
      BY <1>9, <2>2 DEF RestDiffers, InRest, loop, call
    <3>2. pc \in PartStates /\ pc' \in PartStates
      BY <3>1 DEF PartStates, SearchStates
    <3>3. /\ Middle.buffer # << >> /\ needle = Middle.buffer /\ program.underscores
          /\ begin < end
      BY <3>1, <3>2 DEF Inv, Loops, SearchStates
    <3>4. begin' \in begin .. end
      <4>1. Least(Places) \in reader .. end - 1
        <5>1. Places \in SUBSET Nat
          BY <1>n DEF Places
        <5>2. Least(Places) \in Places
          BY <2>2, <5>1, LeastIsIn
        <5> QED
          BY <5>2 DEF Places
      <4>2. Length \in Nat
        BY <3>2, <3>3, <1>p DEF Length, PartFits
      <4> DEFINE back == Least(Places) - steps - Length
      <4>3. back \in Int /\ back <= end
        BY <4>1, <4>2, <1>n
      <4>4. begin' = Larger(begin + 1, back)
        BY <3>1 DEF BeginAgain
      <4> HIDE DEF back
      <4> QED
        BY <3>3, <4>3, <4>4, <1>n DEF Larger
    <3>5. /\ Programs' /\ Types' /\ Inside' /\ Sums'
          /\ program' = program /\ text' = text /\ Middle' = Middle
          /\ \A i : Boundary(i)' = Boundary(i)
          /\ program.underscores => Boundary(end)
      BY <3>1, <3>2, <3>4, <1>n, <1>p, Looping
    <3>6. Loops' /\ InSearch'
      BY <3>1, <3>3, <3>5 DEF Loops, InSearch, PartStates, SearchStates
    <3>7. Boundary(end)'
      BY <3>1, <3>3, <3>5
    <3>8. Boundaries'
      BY <3>1, <3>7 DEF Boundaries, PartStates, SearchStates
    <3> QED
      BY <3>5, <3>6, <3>8 DEF Inv
  <2> QED
    BY <2>1, <2>2
<1>10. CASE RestMatched
  <2>1. pc \in PartStates /\ Advance(reader) /\ reader \in begin .. end /\ Boundary(reader)
    BY <1>10 DEF RestMatched, PartStates, SearchStates, Inv, Loops, Boundaries
  <2> QED
    BY <2>1, Advancing
<1> QED
  BY <1>1, <1>2, <1>3, <1>4, <1>5, <1>6, <1>7, <1>8, <1>9, <1>10 DEF Middles

\* The search keeps what the matcher relies on, and its own invariant.
LEMMA SearchingStep ==
    ASSUME Inv, Searching
    PROVE  Inv'
<1>1. /\ Search /\ UNCHANGED arguments /\ UNCHANGED constant
      /\ UNCHANGED <<begin, end, sums, index, iter, reader, steps, needle>>
  BY DEF Searching, arguments, constant, loop
<1>2. pc \in SearchStates
  BY <1>1 DEF Search, StartBlocks, FindByte, FindPair, ShiftToMismatch, ShiftByPeriod, WindowMatches,
              WindowsEnd, BlockMatches, NextBlock, LastBlock, BlocksEnd, InWindows, BlockFits, SearchStates
<1>3. IInv'
  BY <1>1, <1>2, StepInv DEF Inv, InSearch
<1>4. pc' \in SearchStates /\ at' \in Int /\ lastPtr' \in Int
  BY <1>3 DEF IInv, TypeOK, SearchStates
<1>5. /\ Programs' /\ program' = program /\ text' = text /\ sse' = sse
      /\ \A k : Left(k)' = Left(k)
      /\ \A i : Boundary(i)' = Boundary(i)
  BY <1>1, Constants
<1>6. Types' /\ Inside'
  BY <1>1, <1>4, <1>5 DEF Inv, Types, Inside, PartStates
<1>7. Sums'
  <2>1. sums' = Left(index)' /\ index' < Len(program'.middle)
    BY <1>1, <1>2, <1>5 DEF Inv, Sums, PartStates
  <2> QED
    BY <1>4, <2>1 DEF Sums, PartStates, SearchStates
<1>8. Loops' /\ InSearch'
  <2>1. Middle' = Middle
    BY <1>1, <1>5 DEF Middle
  <2>2. Middle.buffer # << >> /\ needle = Middle.buffer
    BY <1>2 DEF Inv, Loops
  <2> QED
    BY <1>1, <1>3, <1>4, <2>1, <2>2 DEF Loops, InSearch, SearchStates
<1>9. program.underscores => Boundary(end)'
  BY <1>1, <1>2, <1>5 DEF Inv, Boundaries, PartStates
<1>10. Boundaries'
  BY <1>4, <1>5, <1>9 DEF Boundaries, PartStates, SearchStates
<1> QED
  BY <1>5, <1>6, <1>7, <1>8, <1>10 DEF Inv

\* A step that changes nothing.
LEMMA Stutters ==
    ASSUME Inv, UNCHANGED vars
    PROVE  Inv'
<1>1. UNCHANGED <<program, text, sse, pc, begin, end, sums, index, iter, reader, steps,
                  needle, prepared, limit, at, lastPtr>>
  BY DEF vars
<1>2. IInv => IInv'
  BY <1>1, StepInv DEF searchVars, arguments
<1>3. /\ Programs' /\ program' = program /\ text' = text
      /\ \A k : Left(k)' = Left(k)
      /\ \A i : Boundary(i)' = Boundary(i)
  BY <1>1, Constants DEF constant
<1>4. Types' /\ Inside'
  BY <1>1 DEF Inv, Types, Inside
<1>5. Sums'
  BY <1>1, <1>3 DEF Inv, Sums
<1>6. Loops' /\ InSearch'
  BY <1>1, <1>2 DEF Inv, Loops, Middle, InSearch
<1>7. Boundaries'
  BY <1>1 DEF Inv, Boundaries, Boundary
<1> QED
  BY <1>3, <1>4, <1>5, <1>6, <1>7 DEF Inv

-----------------------------------------------------------------------------
(* The invariant.                                                          *)

\* What BuildMatcher makes and the texts it is used for fit.
LEMMA InitInvariant ==
    ASSUME Init
    PROVE  Inv
<1>1. PICK n \in 1 .. Len(Patterns) : program = BuildMatcher(Patterns[n]) /\ text \in Texts[n]
  BY DEF Init
<1>2. Programs
  BY <1>1, PatternsAssumption DEF Programs
<1>3. /\ sse \in BOOLEAN /\ pc = "begin" /\ begin = 0 /\ end = Len(text) /\ sums = program.sums
      /\ index = 0 /\ iter = 0 /\ reader = 0 /\ steps = 0 /\ at = 0 /\ lastPtr = -1
  BY DEF Init
<1>4. /\ Len(program.prefix) \in Nat /\ Len(program.suffix) \in Nat
      /\ Len(program.middle) \in Nat /\ Left(0) \in Nat /\ Len(text) \in Nat
      /\ sums = Len(program.prefix) + Len(program.suffix) + Left(0)
  <2>1. Fits(program) /\ text \in Seq(Byte)
    BY <1>2 DEF Programs
  <2>2. Len(program.middle) \in Nat
    BY <2>1 DEF Fits
  <2>3. Left(0) \in Nat
    BY <2>1, <2>2, LeftIsNat
  <2> QED
    BY <1>3, <2>1, <2>3 DEF Fits, Left
<1>5. sums \in Nat
  <2>1. \A a, b, c \in Nat : a + b + c \in Nat
    OBVIOUS
  <2> QED
    BY <1>4, <2>1, Zenon
<1>6. Types /\ Inside
  <2>1. index \in 0 .. Len(program.middle) /\ at \in Int /\ lastPtr \in Int
    BY <1>3, <1>4
  <2>2. begin \in Int /\ end \in Int /\ 0 <= begin /\ begin <= end /\ end <= Len(text)
    BY <1>3, <1>4
  <2>3. iter \in Nat /\ reader \in Nat /\ steps \in Nat
    BY <1>3
  <2> QED
    BY <1>3, <1>5, <2>1, <2>2, <2>3 DEF Types, Inside
<1>7. Sums
  BY <1>3, <1>4, Zenon DEF Sums, PartStates, SearchStates
<1>8. Loops /\ Boundaries /\ InSearch
  BY <1>3 DEF Loops, Boundaries, InSearch, PartStates, SearchStates
<1> QED
  BY <1>2, <1>6, <1>7, <1>8 DEF Inv

\* Every step of the matcher keeps the invariant.
LEMMA StepInvariant ==
    ASSUME Inv, [Next]_vars
    PROVE  Inv'
BY EndsStep, MiddlesStep, SearchingStep, Stutters DEF Next

\* The invariant holds in every state of the matcher.
THEOREM ProgramInvariant == Spec => []Inv
<1>1. Init => Inv
  BY InitInvariant
<1>2. Inv /\ [Next]_vars => Inv'
  BY StepInvariant
<1> QED
  BY <1>1, <1>2, PTL DEF Spec

-----------------------------------------------------------------------------
(***************************************************************************)
(* No loop over bytes, neither of the matcher without underscores nor of   *)
(* likeProgramWithUnderscore, reads a byte outside the text, and what is   *)
(* left of the text, and what the parts still need, are never negative.    *)
(***************************************************************************)
THEOREM ReadsText == Spec => []StaysInside
<1>1. Inv => StaysInside
  BY DEF Inv, Types, Inside, Loops, StaysInside
<1> QED
  BY <1>1, ProgramInvariant, PTL

(***************************************************************************)
(* The matcher calls hybridStringSearch only with a needle for which there *)
(* is room at each of the positions it may be found at, and which has been *)
(* prepared.                                                               *)
(***************************************************************************)
THEOREM CallsRight == Spec => []CallsAsGiven
<1>1. Inv => CallsAsGiven
  BY DEF Inv, InSearch, SearchStates, IInv, CallsAsGiven
<1> QED
  BY <1>1, ProgramInvariant, PTL

(***************************************************************************)
(* Called by the matcher, the search finds the first place where the       *)
(* needle lies in what is left of the text.                                *)
(***************************************************************************)
THEOREM PartsFoundFirst == Spec => []FirstOccurrence
<1>1. Inv => FirstOccurrence
  <2>1. pc \notin SearchStates => FirstOccurrence
    BY DEF FirstOccurrence, SearchStates
  <2>2. Inv /\ pc \in SearchStates => FirstOccurrence
    BY DEF Inv, InSearch, IInv
  <2> QED
    BY <2>1, <2>2
<1> QED
  BY <1>1, ProgramInvariant, PTL

(***************************************************************************)
(* Called by the matcher, the search compares no byte and loads no block   *)
(* that is not in what is left of the text.                                *)
(***************************************************************************)
THEOREM SearchReadsText == Spec => []ReadsInside
<1>1. Inv => ReadsInside
  <2>1. pc \notin SearchStates => ReadsInside
    BY DEF ReadsInside, InWindows, BlockFits, SearchStates
  <2>2. Inv /\ pc \in SearchStates => ReadsInside
    BY InvariantReads DEF Inv, InSearch
  <2> QED
    BY <2>1, <2>2
<1> QED
  BY <1>1, ProgramInvariant, PTL
=============================================================================
