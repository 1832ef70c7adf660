--------------------------- MODULE LikeInstances ---------------------------
(***************************************************************************)
(* Values for the constants of LikeInstance.  The bytes of the texts are   *)
(* X, which is also the code of a symbol, and Y, which is not; Z is in     *)
(* patterns only.                                                          *)
(***************************************************************************)
EXTENDS LikeInstance

X == 1
Y == 9
Z == 7

SeqsOf(S, min, max) == UNION {[1 .. n -> S] : n \in min .. max}

\* Nothing but literals; overlapping symbols of one to four bytes, with and
\* without literals, so that a code can hold, start, end or straddle a part.
MCTables ==
    << [sym |-> << >>,                                      esc |-> {X, Y}],
       [sym |-> << <<X, Y>>, <<Y>>, <<X, X, Y>> >>,         esc |-> {X}],
       [sym |-> << <<X>>, <<Y>>, <<X, Y, X, Y>>, <<Y, X>> >>, esc |-> {}],
       [sym |-> << <<Y, Y, X, X>>, <<X, Y, Y>>, <<Y>> >>,   esc |-> {X}] >>

Pct == <<Percent>>
One == SeqsOf({X, Y}, 1, 3)
Two == SeqsOf({X, Y}, 1, 2)
List(S) == FoldSet(LAMBDA p, s : Append(s, p), << >>, S)
OnePart == List({Pct \o w : w \in One}) \o List({w \o Pct : w \in One}) \o List({Pct \o w \o Pct : w \in One})
TwoParts == List({u \o Pct \o v : u, v \in Two}) \o List({Pct \o u \o Pct \o v \o Pct : u, v \in Two})
ThreeParts == List({u \o Pct \o v \o Pct \o u : u, v \in Two})
              \o List({Pct \o u \o Pct \o <<X, Y>> \o Pct \o u \o Pct : u \in Two})
MCPatterns == OnePart \o TwoParts \o ThreeParts
              \o <<Pct, Pct \o <<X>> \o Pct \o <<Z>> \o Pct, <<Z>> \o Pct, Pct \o <<X, Z>> >>

\* All tables of two symbols of up to three bytes, with every byte escapable
\* that has no symbol of its own.
TableOf(v, w) == [sym |-> <<v, w>>, esc |-> {b \in {X, Y} : <<b>> \notin {v, w}}]
AllTables ==
    LET with(v) == {t \in {TableOf(v, w) : w \in One} : WellFormedTable(t) /\ LiteralsAreApart(t)}
    IN  FoldLeft(LAMBDA s, v : s \o List(with(v)), << >>, List(One))
FewPatterns ==
    << Pct \o <<X>>, Pct \o <<X, Y, X>>, Pct \o <<Y, X, X, Y>>,
       Pct \o <<X>> \o Pct, Pct \o <<X, Y, X>> \o Pct, Pct \o <<X, X, X, Y>> \o Pct,
       <<X, Y, X, X>> \o Pct, <<X, Y>> \o Pct \o <<X>>, Pct \o <<X, X>> \o Pct \o <<Y, X>> \o Pct >>

\* For the generated matchers: the same, several parts with gaps between them,
\* parts that no code can spell, and nothing to compile.
CompiledPatterns ==
    FewPatterns \o
    << <<Y>> \o Pct \o <<Y, X>>, <<X, Y>> \o Pct \o <<Y, Y>> \o Pct \o <<X, Y>>,
       Pct \o <<X, Y>> \o Pct \o <<Y, X>> \o Pct, Pct \o <<Y>> \o Pct \o <<X, X>> \o Pct \o <<Y>>,
       <<Z>> \o Pct, Pct \o <<Z, X>>, <<X, Y>> \o Pct \o <<Z, X, X>>,
       <<Z>> \o Pct \o <<Y, X>>, Pct \o <<X>> \o Pct \o <<Z>> \o Pct, Pct >>

\* The groups of the two runs.  Every table of two symbols is tried with texts
\* of up to four bytes.
MatchGroups ==
    << [tables |-> MCTables,  patterns |-> MCPatterns,  max |-> 6],
       [tables |-> AllTables, patterns |-> FewPatterns, max |-> 4] >>
CompiledGroups == << [tables |-> MCTables, patterns |-> CompiledPatterns, max |-> 6] >>

\* ParserOf, with the functions it consists of tabulated by the comparison, so
\* that TLC builds the automata once; MCParsers and MCInput look them up.
Tabulated == CHOOSE built \in {ParserOf} : built = built
MCParsers == LET built == Tabulated IN built
MCInput == LET encoded == InputOf IN encoded

MCNoEnd == -1
MCOrders == <<FALSE, TRUE>>
MCTextBytes == {X, Y}
MCBytes == CodeBytes
MCOutside == {0, X, Y}
=============================================================================
