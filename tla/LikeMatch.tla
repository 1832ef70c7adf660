------------------------------ MODULE LikeMatch ------------------------------
(***************************************************************************)
(* LIKE over compressed strings from end to end: the automata that         *)
(* LikeAutomaton builds for a pattern and a symbol table, walked by        *)
(* TableParse over every compressed string of the instance.                *)
(***************************************************************************)
EXTENDS LikeInstance, TableParse

-----------------------------------------------------------------------------
Table == Parsers[parser].table
Pattern == Parsers[parser].pattern
Parts == Parsers[parser].parts

Text == DecodeFirst(Table, str, Len(str))
Answer == Like(Pattern, Text)

\* The indices at which a code, not a literal byte, is: those that an even
\* number of escapes in a row precedes.
CodeAt(i) ==
    LET atCode[j \in 0 .. Len(str)] ==
          j = 0 \/ (j > 0 /\ ~(atCode[j - 1] /\ str[j] = FSST_ESC))
    IN  atCode[i]

-----------------------------------------------------------------------------
\* Whatever lies around the string, parse returns what LIKE says of the
\* decompressed text.
MatchesDecompressed == pc = "done" => result = Answer

\* When the backward table has matched, <<backIdx, backSym>> is where the end
\* of the pattern begins in the text: backSym bytes into the code at backIdx,
\* and never in the middle of an escape sequence.
SuffixBegins ==
    (pc \in {"between", "forward"} /\ Parsers[parser].backward) =>
        /\ CodeAt(backIdx)
        /\ Len(DecodeFirst(Table, str, backIdx)) + backSym = Len(Text) - Len(Parts.end.text)

\* The bytes of text in front of the first place where the start and then the
\* middle parts in turn have all been found; 0 if there is none.
EarliestEnd(parts, text) ==
    LET found(from, w) == {q \in from .. Len(text) : HoldsAt(text, q, w)}
        after(from, part) ==
            IF from = 0 \/ found(from, part.text) = {} THEN 0
            ELSE Min(found(from, part.text)) + Len(part.text)
        first == IF parts.start = Null THEN 1
                 ELSE IF HoldsAt(text, 1, parts.start.text) THEN 1 + Len(parts.start.text) ELSE 0
    IN  FoldLeft(after, first, parts.middle) - 1

\* A forward match that reaches an accept state ends where the start and the
\* middle parts first end in the text, to the byte: the automata find first
\* occurrences, also across the borders of symbols.
AcceptsAtEarliestEnd ==
    \A k \in 0 .. 8 :
        (pc = "forward" /\ state = Accept(k)) =>
            /\ strIdx <= Len(str)
            /\ EarliestEnd(Parts, Text) = IF k = 0 THEN Len(DecodeFirst(Table, str, strIdx))
                                            ELSE Len(DecodeFirst(Table, str, strIdx - 1)) + k

\* A middle automaton is only ever in its start state in front of a code: the
\* skipping loop never takes a literal byte for a code.
SkipsAtCodes ==
    (pc = "forward" /\ state \in Parsers[parser].skipping /\ strIdx \in 0 .. Len(str)) => CodeAt(strIdx)

\* The constructors never give a state a second transition on a byte: the
\* assertion of State::addTransition holds.
AddsEachTransitionOnce == ~Parsers[parser].clash

\* The texts of the parts; a part can be spelled if the symbol table encodes it.
PartTexts ==
    {Parts.middle[n].text : n \in DOMAIN Parts.middle}
    \cup {p.text : p \in {Parts.start, Parts.end} \ {Null}}
CanBeSpelled(w) == IsEncodingValid(Table, Encode(Table, w))

\* The tables are as the matcher relies on: closed (the assertion of
\* AutomatonTable's constructor), so that in particular no row leads to a
\* temporary start of the automaton behind; and the look-ahead for an escape
\* is one byte long.  The levels promise no less than the rows keep.  No level
\* wraps if every part can be spelled.  As this is about the parser, it is
\* enough to look at it with the shortest strings.
TablesAreSound ==
    (pc = "begin" /\ Len(str) <= 2) =>
        /\ Sound(parser) /\ LevelsAreHonest(Parsers[parser])
        /\ (\A w \in PartTexts : CanBeSpelled(w)) => LevelsAreFinite(parser)
=============================================================================
