----------------------------- MODULE LikePattern -----------------------------
(***************************************************************************)
(* How a LIKE pattern is cut at its wildcards (src/pattern.cpp), and what  *)
(* LIKE means.  A pattern is a sequence of bytes; three of them are        *)
(* special.  Positions count from 1: the half-open range [i, j) of the     *)
(* code is Part(p, i, j).                                                  *)
(***************************************************************************)
EXTENDS Integers, Sequences, FiniteSets

Percent    == 37
Underscore == 95
Backslash  == 92
Wildcards  == {Percent, Underscore}

Part(p, i, j) == SubSeq(p, i, j - 1)

\* The result of Pattern::createPattern: a null pointer, a StringPattern, or
\* an UnderscorePattern, whose automata are not implemented (they throw).
Null            == [kind |-> "null", text |-> << >>]
StringPattern(s) == [kind |-> "string", text |-> s]
UnderscorePattern == [kind |-> "underscore", text |-> << >>]

-----------------------------------------------------------------------------
\* First position from i on (or Len(p) + 1) outside the set given.
SkipForward(p, i, S) ==
    LET outside == {j \in i .. Len(p) : p[j] \notin S}
    IN  IF outside = {} THEN Len(p) + 1 ELSE CHOOSE j \in outside : \A k \in outside : j <= k

\* Walk from i over escaped and plain bytes to the first one in the set stop.
SkipToUnescaped(p, i, stop) ==
    LET walk[j \in 1 .. Len(p) + 2] ==
          IF j > Len(p) \/ p[j] \in stop THEN j
          ELSE walk[j + IF p[j] = Backslash THEN 2 ELSE 1]
    IN  walk[i]

\* The literal bytes of p[i .. j]: a backslash is dropped, its successor kept.
Unescape(p, i, j) ==
    LET text[k \in 1 .. Len(p) + 2] ==
          IF k > j THEN << >>
          ELSE IF p[k] = Backslash THEN <<p[k + 1]>> \o text[k + 2]
          ELSE <<p[k]>> \o text[k + 1]
    IN  text[i]

\* A deliberate mistake: an underscore is taken for a literal.
CreatePatternOfLiterals(p) ==
    LET first == SkipForward(p, 1, Wildcards)
    IN  IF first > Len(p) THEN Null ELSE StringPattern(Unescape(p, first, Len(p)))

\* Underscores are counted in 8 bits.
CountRange == 256

\* Pattern::createPattern: the text behind the last underscore, if every run
\* of underscores is counted as none.  A run is put on record by the literal
\* byte that follows it, so that one at the last byte, where only a backslash
\* in front keeps it from the trailing wildcards, is not.
CreatePattern(p) ==
    LET first == SkipForward(p, 1, Wildcards)
        trailing(i) == p[i] \in Wildcards /\ (i = 1 \/ p[i - 1] # Backslash)
        last == CHOOSE i \in 1 .. Len(p) :
                   /\ ~trailing(i)
                   /\ \A j \in i + 1 .. Len(p) : trailing(j)
        counted(i, j) == Cardinality({k \in i .. j : p[k] = Underscore}) % CountRange # 0
        read[j \in first .. last] == j = first \/ ~(read[j - 1] /\ p[j - 1] = Backslash)
        inner == {j \in first .. last : read[j] /\ p[j] = Underscore}
        run(i, j) == i .. j \subseteq inner /\ i - 1 \notin inner /\ j + 1 \notin inner
        text == CHOOSE i \in {j + 1 : j \in inner} \cup {first} : \A j \in inner : i > j
    IN  CASE first > Len(p) -> IF counted(1, Len(p)) THEN UnderscorePattern ELSE Null
          [] first <= Len(p) /\ (\/ counted(1, first - 1) \/ counted(last + 1, Len(p))
                                 \/ \E i \in inner, j \in inner \ {last} : run(i, j) /\ counted(i, j)) -> UnderscorePattern
          [] OTHER -> StringPattern(Unescape(p, text, last))

-----------------------------------------------------------------------------
(***************************************************************************)
(* Pattern::splitIntoSubpatterns: the part before the first wildcard, the  *)
(* part after the last, and the parts between.                             *)
(***************************************************************************)

\* The position after the front part and the wildcards behind it.
FrontEnd(p) ==
    IF p[1] = Percent THEN 1
    ELSE SkipForward(p, SkipToUnescaped(p, 1, {Percent}), Wildcards)

\* A deliberate mistake: the backslash in front is overlooked.
SeenAsPercentAlways(p, i) == p[i] = Percent

\* Does the code take the byte at i for an unescaped percent sign?
SeenAsPercent(p, i) == p[i] = Percent /\ (i = 1 \/ p[i - 1] # Backslash)

\* The position of the back part: behind the last percent sign and the
\* underscores that follow it.
BackStart(p) ==
    LET percents == {i \in 1 .. Len(p) : SeenAsPercent(p, i)}
        lastPercent == IF percents = {} THEN 0
                       ELSE CHOOSE i \in percents : \A j \in percents : j <= i
    IN  IF SeenAsPercent(p, Len(p)) THEN Len(p) + 1
        ELSE SkipForward(p, lastPercent + 1, {Underscore})

\* The starts of the parts in [i, end): one at i, and one at every byte that
\* follows a wildcard run (stage 2) after some literal (stage 1).
MiddleStarts(p, i, end) ==
    LET walk[j \in 1 .. Len(p) + 2] == [stage \in 0 .. 2 |->
          LET next == j + IF p[j] = Backslash THEN 2 ELSE 1
              literal == p[j] \notin Wildcards
          IN  CASE j >= end -> << >>
                [] j < end /\ stage = 0 -> walk[next][IF literal THEN 1 ELSE 0]
                [] j < end /\ stage = 1 -> walk[next][IF p[j] = Percent THEN 2 ELSE 1]
                [] OTHER -> IF literal THEN <<j>> \o walk[next][1] ELSE walk[next][2]]
    IN  IF i < end THEN <<i>> \o walk[i][0] ELSE << >>

SplitIntoSubpatterns(p) ==
    LET i == FrontEnd(p)
        end == BackStart(p)
        starts == MiddleStarts(p, i, end)
        stop(n) == IF n = Len(starts) THEN end ELSE starts[n + 1]
        parts == [n \in 1 .. Len(starts) |-> CreatePattern(Part(p, starts[n], stop(n)))]
        kept[n \in 0 .. Len(parts)] ==
            CASE n = 0 -> << >>
              [] n > 0 /\ parts[n] = Null -> kept[n - 1]
              [] OTHER -> Append(kept[n - 1], parts[n])
    IN  [start  |-> IF p[1] = Percent THEN Null ELSE CreatePattern(Part(p, 1, i)),
         middle |-> kept[Len(parts)],
         end    |-> IF SeenAsPercent(p, Len(p)) THEN Null
                    ELSE IF end > Len(p) THEN Null ELSE CreatePattern(Part(p, end, Len(p) + 1))]

\* The subpatterns whose automata the code cannot build.
Implemented(parts) ==
    /\ parts.start.kind # "underscore" /\ parts.end.kind # "underscore"
    /\ \A n \in 1 .. Len(parts.middle) : parts.middle[n].kind # "underscore"

-----------------------------------------------------------------------------
(***************************************************************************)
(* The reference: a backslash makes the next byte literal, % stands for    *)
(* any text and _ for any byte.                                            *)
(***************************************************************************)

\* No escape is cut off by the end of the pattern.
WellFormedPattern(p) == SkipToUnescaped(p, 1, {}) = Len(p) + 1

Like(p, s) ==
    LET match[i \in 1 .. Len(p) + 2] == [j \in 1 .. Len(s) + 1 |->
          CASE i > Len(p) -> j > Len(s)
            [] i <= Len(p) /\ p[i] = Percent -> \E k \in j .. Len(s) + 1 : match[i + 1][k]
            [] i <= Len(p) /\ p[i] = Underscore -> j <= Len(s) /\ match[i + 1][j + 1]
            [] i <= Len(p) /\ p[i] = Backslash ->
                 j <= Len(s) /\ p[i + 1] = s[j] /\ match[i + 2][j + 1]
            [] OTHER -> j <= Len(s) /\ p[i] = s[j] /\ match[i + 1][j + 1]]
    IN  match[1][1]

\* What the parts ask of a text.
PartsMatch(parts, s) ==
    LET at(i, w) == i + Len(w) - 1 <= Len(s) /\ \A k \in 1 .. Len(w) : s[i + k - 1] = w[k]
        inner(n) == parts.middle[n].text
        order[n \in 0 .. Len(parts.middle)] == [i \in 1 .. Len(s) + 1 |->
          IF n = Len(parts.middle)
          THEN /\ i + Len(parts.end.text) <= Len(s) + 1
               /\ at(Len(s) + 1 - Len(parts.end.text), parts.end.text)
          ELSE \E j \in i .. Len(s) : at(j, inner(n + 1)) /\ order[n + 1][j + Len(inner(n + 1))]]
    IN  at(1, parts.start.text) /\ order[0][Len(parts.start.text) + 1]
=============================================================================
