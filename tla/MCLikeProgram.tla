--------------------------- MODULE MCLikeProgram ---------------------------
(***************************************************************************)
(* LikeProgram over short texts of two bytes and two longer code points.   *)
(* The vector register has four bytes, and short needles at most three.    *)
(***************************************************************************)
EXTENDS LikeProgram, SequencesExt

A == 97
B == 98
Lead == 195
Follow == 169
E == <<Lead, Follow>>       \* one code point
Euro == <<226, 130, 172>>   \* another

SeqsOf(S, min, max) == UNION {[1 .. n -> S] : n \in min .. max}
List(S) == FoldSet(LAMBDA p, s : Append(s, p), << >>, S)
Pct == <<Percent>>
One == <<Underscore>>

\* One part that is searched for: every needle of up to four bytes.
Needles == List({Pct \o w \o Pct : w \in SeqsOf({A, B}, 1, 4)})

\* What is remembered is forgotten at a mismatch: the shortest needles that
\* repeat, in texts that leave room for a window, a shift and another window.
Triples == List({Pct \o w \o Pct : w \in SeqsOf({A, B}, 3, 3)})

\* Longer needles, in texts that begin with a part of them.
Words(length) ==
    [n \in 1 .. 2 ^ length |-> [i \in 1 .. length |-> IF (n \div 2 ^ (i - 1)) % 2 = 0 THEN A ELSE B]]
LongNeedles == Words(5) \o Words(6) \o Words(7) \o Words(8)
LongTexts(w) == {SubSeq(w, 1, n) \o w : n \in 0 .. Len(w)}

\* Several parts, which leave room for each other, and code points.
Plain ==
    << Pct, <<A>> \o Pct, Pct \o <<A, B>>, <<A, B>> \o Pct \o <<B, A>>,
       Pct \o <<A>> \o Pct \o Pct \o <<B, B>> \o Pct, <<B>> \o Pct \o <<A, B, A>> \o Pct \o <<A>>,
       Pct \o <<A, B>> \o Pct \o <<A, A, B>>, E \o Pct \o <<A>> \o Pct, Pct \o E \o Pct \o <<A>> >>

WithUnderscores ==
    << One \o Pct, Pct \o One, One \o <<A>> \o Pct, <<A>> \o One \o One \o Pct \o One \o <<B>>,
       Pct \o One \o Pct, Pct \o One \o One \o Pct \o <<A>> \o Pct, Pct \o One \o <<A>> \o Pct,
       Pct \o <<A>> \o One \o <<B>> \o Pct, Pct \o <<A, A>> \o One \o <<B>> \o One \o <<A>> \o Pct,
       Pct \o One \o <<A>> \o One \o One \o <<B>> \o Pct \o One,
       Pct \o <<A>> \o One \o Pct \o <<B>> \o Pct,
       One \o Pct \o One \o One, Pct \o <<A>> \o One \o <<B>> \o Pct \o E,
       One \o Pct \o E \o One \o Pct, Pct \o <<B, A>> \o One \o Pct \o <<A>> \o One >>

TextsOf(units, max) == {FlattenSeq(s) : s \in SeqsOf(units, 0, max)}

MCPatterns ==
    Needles \o Triples \o Plain \o WithUnderscores
    \o [n \in DOMAIN LongNeedles |-> Pct \o LongNeedles[n] \o Pct]
MCTexts ==
    LET long == SeqsOf({A, B}, 0, 7)
        longer == SeqsOf({A, B}, 9, 9)
        short == TextsOf({<<A>>, <<B>>, E, Euro}, 4) \cup TextsOf({<<A>>, <<B>>, E}, 5) \cup SeqsOf({A, B}, 6, 6)
        some == Len(Plain) + Len(WithUnderscores)
    IN  [n \in DOMAIN Needles |-> long] \o [n \in DOMAIN Triples |-> longer]
        \o [n \in 1 .. some |-> short]
        \o [n \in DOMAIN LongNeedles |-> LongTexts(LongNeedles[n])]

\* What the theorem about the matcher's answer asks of the patterns: where
\* bytes are read as chars, these patterns are ASCII.
ASSUME PatternsAreAscii == \A n \in DOMAIN MCPatterns : ReadsAscii(BuildMatcher(MCPatterns[n]))

\* A code point in front of the percent sign of a pattern with an underscore.
SignedPatterns == << E \o Pct \o One >>
SignedTexts == << TextsOf({<<A>>, E}, 2) >>
=============================================================================
