---------------------------- MODULE LikeProgram ----------------------------
(***************************************************************************)
(* LIKE over decompressed text (include/hybrid_string_search.hpp): a       *)
(* pattern is compiled to a program, the lengths and the prepared needles  *)
(* of its parts, and the matcher runs the program over a text.  There are  *)
(* two matchers: for patterns without underscores and for the others,      *)
(* where an underscore stands for a code point of one to four bytes.       *)
(*                                                                         *)
(* One action is one iteration of a loop, or one branch around the loops;  *)
(* the search for a needle is HybridSearch.  The pointers s1 and s2 of the *)
(* code are begin and end, counted from the beginning of the text.         *)
(***************************************************************************)
EXTENDS HybridSearch, MatcherProgram

CONSTANTS
    Patterns,  \* a sequence of LIKE patterns
    Texts      \* for each of them, the texts it is compared with

-----------------------------------------------------------------------------
\* program is the compiled pattern; it and text never change.  sums is the
\* number of bytes that the parts not yet found need at least, index the number
\* of middle parts found; iter, reader and steps are the local variables of the
\* loops over bytes.
VARIABLES program, sums, index, iter, reader, steps, result

vars == <<program, text, sse, pc, begin, end, sums, index, iter, reader, steps,
          needle, prepared, limit, at, lastPtr, result>>

Middle == program.middle[index + 1]

Init ==
    /\ \E n \in 1 .. Len(Patterns) :
          /\ program = BuildMatcher(Patterns[n])
          /\ text \in Texts[n]
    /\ sse \in BOOLEAN
    /\ pc = "begin"
    /\ begin = 0
    /\ end = Len(text)
    /\ sums = program.sums
    /\ index = 0
    /\ iter = 0
    /\ reader = 0
    /\ steps = 0
    /\ needle = << >>
    /\ prepared = [ms |-> 0, period |-> 0, equal |-> FALSE]
    /\ limit = 0
    /\ at = 0
    /\ lastPtr = -1
    /\ result = FALSE

constant == <<program, text, sse>>
call == <<needle, prepared, limit, at, lastPtr>>
loop == <<iter, reader, steps>>

Return(answer) ==
    /\ pc' = "done"
    /\ result' = answer
    /\ UNCHANGED <<constant, begin, end, sums, index, loop, call>>

\* multiByteSequenceLength: the leading ones of the first byte of a code point.
MultiByteSequenceLength(b) ==
    IF b < 192 THEN 1 ELSE IF b < 224 THEN 2 ELSE IF b < 240 THEN 3 ELSE 4

\* A byte of the pattern that is read as a char, which is signed.
AsChar(b) == IF b < 128 THEN b ELSE b - 256

Continues(b) == b \in 128 .. 191

NoRoomFor(bytes) == end - begin < bytes

-----------------------------------------------------------------------------
(* The length, the prefix and the suffix.                                  *)

TooShort ==
    /\ pc = "begin"
    /\ NoRoomFor(sums)
    /\ Return(FALSE)

LongEnough ==
    /\ pc = "begin"
    /\ ~NoRoomFor(sums)
    /\ pc' = "prefix"
    /\ iter' = 0
    /\ UNCHANGED <<constant, begin, end, sums, index, reader, steps, call, result>>

EqualAt(i, part) == \A k \in 1 .. Len(part) : text[i + k] = part[k]

PrefixDiffers ==
    /\ pc = "prefix"
    /\ ~program.underscores
    /\ ~EqualAt(begin, program.prefix)
    /\ Return(FALSE)

PrefixEqual ==
    /\ pc = "prefix"
    /\ ~program.underscores
    /\ EqualAt(begin, program.prefix)
    /\ pc' = "suffix"
    /\ begin' = begin + Len(program.prefix)
    /\ sums' = sums - Len(program.prefix)
    /\ UNCHANGED <<constant, end, index, loop, call, result>>

\* A byte of a prefix with underscores.
PrefixStuck(c) == begin = end \/ (c # Underscore /\ AsChar(c) # text[begin + 1])

WalkPrefix ==
    /\ pc = "prefix"
    /\ program.underscores
    /\ iter < Len(program.prefix)
    /\ LET c == program.prefix[iter + 1]
       IN  IF PrefixStuck(c) THEN Return(FALSE)
           ELSE /\ begin' = begin + IF c = Underscore THEN MultiByteSequenceLength(text[begin + 1]) ELSE 1
                /\ iter' = iter + 1
                /\ UNCHANGED <<constant, pc, end, sums, index, reader, steps, call, result>>

PrefixWalked ==
    /\ pc = "prefix"
    /\ program.underscores
    /\ iter = Len(program.prefix)
    /\ pc' = "suffix"
    /\ sums' = sums - Len(program.prefix)
    /\ iter' = Len(program.suffix)
    /\ UNCHANGED <<constant, begin, end, index, reader, steps, call, result>>

SuffixDiffers ==
    /\ pc = "suffix"
    /\ ~program.underscores
    /\ ~EqualAt(end - Len(program.suffix), program.suffix)
    /\ Return(FALSE)

SuffixEqual ==
    /\ pc = "suffix"
    /\ ~program.underscores
    /\ EqualAt(end - Len(program.suffix), program.suffix)
    /\ pc' = "next"
    /\ end' = end - Len(program.suffix)
    /\ sums' = sums - Len(program.suffix)
    /\ UNCHANGED <<constant, begin, index, loop, call, result>>

\* The beginning of the code point in front of position i.
CodePointBefore(i) ==
    CHOOSE j \in 0 .. i - 1 :
        ~Continues(text[j + 1]) /\ \A k \in j + 1 .. i - 1 : Continues(text[k + 1])

\* A byte of a suffix with underscores, from its end.  The code only assigns
\* s2 when all of them matched; until then it returns if one does not.
SuffixShort == iter = Len(program.suffix) /\ NoRoomFor(sums)

\* A deliberate mistake: the prefix and the suffix may overlap.
SuffixStuckNeverEmpty(c) == SuffixShort \/ (c # Underscore /\ c # text[end])

SuffixStuck(c) == SuffixShort \/ end <= begin \/ (c # Underscore /\ c # text[end])

WalkSuffix ==
    /\ pc = "suffix"
    /\ program.underscores
    /\ iter > 0
    /\ LET c == program.suffix[iter]
       IN  IF SuffixStuck(c) THEN Return(FALSE)
           ELSE /\ end' = IF c = Underscore THEN CodePointBefore(end) ELSE end - 1
                /\ iter' = iter - 1
                /\ UNCHANGED <<constant, pc, begin, sums, index, reader, steps, call, result>>

SuffixWalked ==
    /\ pc = "suffix"
    /\ program.underscores
    /\ iter = 0
    /\ pc' = "next"
    /\ sums' = sums - Len(program.suffix)
    /\ UNCHANGED <<constant, begin, end, index, loop, call, result>>

-----------------------------------------------------------------------------
(* The middle parts.                                                       *)

AllFound ==
    /\ pc = "next"
    /\ index = Len(program.middle)
    /\ Return(TRUE)

NoRoomForRest ==
    /\ pc = "next"
    /\ index < Len(program.middle)
    /\ NoRoomFor(sums)
    /\ Return(FALSE)

NextMiddle ==
    /\ pc = "next"
    /\ index < Len(program.middle)
    /\ ~NoRoomFor(sums)
    /\ pc' = "skip"
    /\ iter' = Middle.skip
    /\ UNCHANGED <<constant, begin, end, sums, index, reader, steps, call, result>>

\* One underscore that the part begins with.
SkipUnderscore ==
    /\ pc = "skip"
    /\ iter > 0
    /\ IF begin = end THEN Return(FALSE)
       ELSE /\ begin' = begin + MultiByteSequenceLength(text[begin + 1])
            /\ iter' = iter - 1
            /\ UNCHANGED <<constant, pc, end, sums, index, reader, steps, call, result>>

\* The middle part ends at i.
Advance(i) ==
    /\ pc' = "next"
    /\ begin' = i
    /\ sums' = sums - Len(Middle.part)
    /\ index' = index + 1
    /\ UNCHANGED <<constant, end, loop, call, result>>

OnlyUnderscores ==
    /\ pc = "skip"
    /\ iter = 0
    /\ Middle.buffer = << >>
    /\ Advance(begin)

\* The bytes that the middle part sought and what follows it need at least.
Needed == sums - Middle.skip

HasNeedle == pc = "again" \/ (pc = "skip" /\ iter = 0 /\ Middle.buffer # << >>)

NoRoomForNeedle ==
    /\ HasNeedle
    /\ NoRoomFor(Needed)
    /\ Return(FALSE)

\* A deliberate mistake: there is one position more than there is.
CallSearchTooFar ==
    /\ HasNeedle
    /\ ~NoRoomFor(Needed)
    /\ pc' = "search"
    /\ needle' = Middle.buffer
    /\ prepared' = Middle.prepared
    /\ limit' = end - begin - Needed + 2
    /\ UNCHANGED <<constant, begin, end, sums, index, loop, at, lastPtr, result>>

CallSearch ==
    /\ HasNeedle
    /\ ~NoRoomFor(Needed)
    /\ pc' = "search"
    /\ needle' = Middle.buffer
    /\ prepared' = Middle.prepared
    /\ limit' = end - begin - Needed + 1
    /\ UNCHANGED <<constant, begin, end, sums, index, loop, at, lastPtr, result>>

Searching ==
    /\ Search
    /\ UNCHANGED <<constant, begin, end, sums, index, loop, needle, prepared, limit, result>>

NeedleMissing ==
    /\ pc = "missing"
    /\ Return(FALSE)

PartFound ==
    /\ pc = "found"
    /\ Middle.buffer = Middle.part
    /\ Advance(at + Length)

-----------------------------------------------------------------------------
(* likeProgramWithUnderscoreStep: behind the needle found, the rest of the *)
(* part, with underscores.                                                 *)

NoRoomBehindNeedle ==
    /\ pc = "found"
    /\ Middle.buffer # Middle.part
    /\ end - at < Needed
    /\ Return(FALSE)

NeedleFound ==
    /\ pc = "found"
    /\ Middle.buffer # Middle.part
    /\ end - at >= Needed
    /\ pc' = "rest"
    /\ begin' = at
    /\ iter' = Middle.skip + Length
    /\ reader' = at + Length
    /\ steps' = 0
    /\ UNCHANGED <<constant, end, sums, index, call, result>>

InRest == pc = "rest" /\ iter < Len(Middle.part)
Char == Middle.part[iter + 1]

\* The longest code point has six bytes.
MaxCodePoint == 6

RestMatches ==
    /\ InRest
    /\ reader # end
    /\ Char = Underscore \/ AsChar(Char) = text[reader + 1]
    /\ reader' = reader + IF Char = Underscore THEN MultiByteSequenceLength(text[reader + 1]) ELSE 1
    /\ steps' = steps + IF Char = Underscore THEN MaxCodePoint ELSE 1
    /\ iter' = iter + 1
    /\ UNCHANGED <<constant, pc, begin, end, sums, index, call, result>>

TextEnds ==
    /\ InRest
    /\ reader = end
    /\ Return(FALSE)

\* memchr for the byte that differs; the needle may begin at the earliest so
\* far in front of the place found that every underscore has the longest code
\* point.
Places == {i \in reader .. end - 1 : text[i + 1] = Char}
\* Deliberate mistakes: every underscore has one byte; the place where the
\* needle was found is tried again.
BeginAgainByBytes == Larger(begin + 1, Least(Places) - (iter - Middle.skip))
BeginAgainThere == Larger(begin, Least(Places) - steps - Length)

BeginAgain == Larger(begin + 1, Least(Places) - steps - Length)

RestDiffers ==
    /\ InRest
    /\ reader # end
    /\ Char # Underscore /\ AsChar(Char) # text[reader + 1]
    /\ IF Places = {} THEN Return(FALSE)
       ELSE /\ pc' = "again"
            /\ begin' = BeginAgain
            /\ UNCHANGED <<constant, end, sums, index, loop, call, result>>

RestMatched ==
    /\ pc = "rest"
    /\ iter = Len(Middle.part)
    /\ Advance(reader)

-----------------------------------------------------------------------------
Ends == TooShort \/ LongEnough \/ PrefixDiffers \/ PrefixEqual \/ WalkPrefix \/ PrefixWalked
        \/ SuffixDiffers \/ SuffixEqual \/ WalkSuffix \/ SuffixWalked

Middles == AllFound \/ NoRoomForRest \/ NextMiddle \/ SkipUnderscore \/ OnlyUnderscores
           \/ NoRoomForNeedle \/ CallSearch \/ NeedleMissing \/ PartFound
           \/ NoRoomBehindNeedle \/ NeedleFound \/ RestMatches \/ TextEnds
           \/ RestDiffers \/ RestMatched

Next == Ends \/ Middles \/ Searching

\* A call runs to its return without waiting for anything.
Spec == Init /\ [][Next]_vars /\ WF_vars(Next)

-----------------------------------------------------------------------------
(***************************************************************************)
(* What the matcher relies on: the program is as BuildMatcher must make    *)
(* it, and where underscores are counted, parts and texts are UTF-8.       *)
(***************************************************************************)
Byte == 0 .. 255

\* Every code point has the bytes behind its first, at most three, that this
\* announces.
WellEncoded(s) ==
    /\ s # << >> => ~Continues(s[1])
    /\ \A i \in 1 .. Len(s) : s[i] < 248
    /\ \A i \in 0 .. Len(s) - 1 : ~Continues(s[i + 1]) =>
          LET next == i + MultiByteSequenceLength(s[i + 1])
          IN  /\ next <= Len(s)
              /\ \A k \in i + 1 .. next - 1 : Continues(s[k + 1])
              /\ next < Len(s) => ~Continues(s[next + 1])

\* What lies between two underscores are whole code points.
WholeCodePoints(s) ==
    /\ ~Continues(s[1])
    /\ \E i \in 0 .. Len(s) - 1 :
          ~Continues(s[i + 1]) /\ i + MultiByteSequenceLength(s[i + 1]) = Len(s)

\* A needle is what a part holds behind the underscores it begins with, up to
\* the next one, and prepared for the search; without underscores it is the
\* whole part.
PartFits(m, underscores) ==
    /\ m.part \in Seq(Byte) /\ m.buffer \in Seq(Byte) /\ m.skip \in Nat
    /\ m.skip + Len(m.buffer) <= Len(m.part)
    /\ \A i \in 1 .. m.skip : m.part[i] = Underscore
    /\ \A i \in 1 .. Len(m.buffer) : m.buffer[i] = m.part[m.skip + i]
    /\ underscores => \A i \in 1 .. Len(m.buffer) : m.buffer[i] # Underscore
    /\ m.buffer = << >> => m.skip = Len(m.part)
    /\ m.buffer # << >> =>
          /\ m.prepared \in [ms : Int, period : Int, equal : BOOLEAN]
          /\ Prepared(m.buffer, m.prepared)
    /\ IF underscores THEN m.buffer # << >> => WholeCodePoints(m.buffer)
       ELSE m.skip = 0 /\ m.buffer = m.part /\ m.buffer # << >>

\* The bytes of the middle parts behind the k-th.
Rest(p, k) == UNION {{m} \X (1 .. Len(p.middle[m].part)) : m \in k + 1 .. Len(p.middle)}

Fits(p) ==
    /\ p.underscores \in BOOLEAN
    /\ p.prefix \in Seq(Byte) /\ p.suffix \in Seq(Byte)
    /\ Len(p.middle) \in Nat
    /\ \A m \in 1 .. Len(p.middle) : PartFits(p.middle[m], p.underscores)
    /\ p.sums = Len(p.prefix) + Len(p.suffix) + Cardinality(Rest(p, 0))
    /\ p.underscores => WellEncoded(p.suffix)

ASSUME PatternsAssumption ==
    \A n \in 1 .. Len(Patterns) :
        LET p == BuildMatcher(Patterns[n])
        IN  /\ Fits(p)
            /\ \A s \in Texts[n] : s \in Seq(Byte) /\ (p.underscores => WellEncoded(s))

-----------------------------------------------------------------------------
(***************************************************************************)
(* What a program p asks of a text s: the prefix and the suffix lie at its *)
(* ends, the other parts between them, one behind the other.               *)
(***************************************************************************)

\* Where c, which begins at i, ends: an underscore is a code point.
StepTo(p, s, c, i) ==
    IF i >= Len(s) THEN Len(s) + 1
    ELSE IF p.underscores /\ c = Underscore THEN i + MultiByteSequenceLength(s[i + 1])
    ELSE IF s[i + 1] = c THEN i + 1
    ELSE Len(s) + 1

\* Where the bytes of w behind the t-th end, if the first of them begins at i;
\* behind the text, if they do not lie there.
Way(p, s, w, t, i) ==
    LET way[k \in t .. Len(w)] == IF k = t THEN i ELSE StepTo(p, s, w[k], way[k - 1])
    IN  way
EndFrom(p, s, w, t, i) == Way(p, s, w, t, i)[Len(w)]

IsBetween(p, s, i) == p.underscores /\ i < Len(s) => ~Continues(s[i + 1])

\* The middle parts behind the k-th lie in i .. e, in their order.
PartsLie(p, s, k, i, e) ==
    LET n == Len(p.middle)
        behind(m, j) == EndFrom(p, s, p.middle[m].part, 0, j)
    IN  \E place \in [k + 1 .. n -> i .. e] :
           \A m \in k + 1 .. n :
              /\ IsBetween(p, s, place[m])
              /\ behind(m, place[m]) <= e
              /\ \A l \in m + 1 .. n : behind(m, place[m]) <= place[l]

Lies(p, s) ==
    LET b == EndFrom(p, s, p.prefix, 0, 0)
    IN  \E e \in b .. Len(s) :
           /\ IsBetween(p, s, e)
           /\ EndFrom(p, s, p.suffix, 0, e) = Len(s)
           /\ PartsLie(p, s, 0, b, e)

\* With underscores, the prefix, and what follows the needle of a part, are
\* read as chars; these bytes are ASCII.
ReadsAscii(p) ==
    p.underscores =>
        /\ \A i \in 1 .. Len(p.prefix) : p.prefix[i] < 128
        /\ \A m \in 1 .. Len(p.middle) :
              LET part == p.middle[m].part
                  needleEnds == p.middle[m].skip + Len(p.middle[m].buffer)
              IN  \A i \in needleEnds + 1 .. Len(part) : part[i] < 128

\* The code points of a sequence of bytes.
CodePoints(s) ==
    LET of[i \in 0 .. Len(s)] ==
          IF i = 0 THEN << >>
          ELSE IF Continues(s[i])
               THEN [of[i - 1] EXCEPT ![Len(of[i - 1])] = 256 * @ + s[i]]
               ELSE Append(of[i - 1], s[i])
    IN  of[Len(s)]

\* That is what LIKE says of their code points.
ASSUME MeaningAssumption ==
    \A n \in 1 .. Len(Patterns) :
        LET p == BuildMatcher(Patterns[n])
            asked == CodePoints(Patterns[n])
        IN  \A s \in Texts[n] : Lies(p, s) = Like(asked, CodePoints(s))

-----------------------------------------------------------------------------
(***************************************************************************)
(* Properties.                                                             *)
(***************************************************************************)

\* The matcher returns what LIKE says of the code points of the text.
MatchesLike == pc = "done" => result = Like(CodePoints(program.pattern), CodePoints(text))

\* No byte outside the text is read by the loops over bytes, and what is left
\* of the text never gets less than empty.
StaysInside ==
    /\ 0 <= begin /\ begin <= end /\ end <= Len(text)
    /\ pc = "rest" => reader \in begin .. end
    /\ sums >= 0

\* The matcher always returns.
Returns == <>(pc = "done")
=============================================================================
