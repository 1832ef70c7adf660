---------------------------- MODULE CompiledMatch ----------------------------
(***************************************************************************)
(* LIKE over compressed strings with the generated matchers: CompiledParse *)
(* over the automata that LikeAutomaton builds for a pattern and a symbol  *)
(* table.                                                                  *)
(***************************************************************************)
EXTENDS LikeInstance, CompiledParse

ASSUME EscapeAssumption == Escape = FSST_ESC

-----------------------------------------------------------------------------
\* Every part of the n-th pattern can be spelled with its symbol table.
PartTexts(parts) ==
    {parts.middle[m].text : m \in DOMAIN parts.middle}
    \cup {part.text : part \in {parts.start, parts.end} \ {Null}}
Spelled(n) ==
    \A w \in PartTexts(Parsers[n].parts) :
        IsEncodingValid(Parsers[n].table, Encode(Parsers[n].table, w))

\* The automata are as the generated code relies on.  A part that cannot be
\* spelled has the level 2^64 - 1, which wraps; the code still returns what
\* LIKE says, but reads where it should not.
ASSUME TablesAssumption ==
    \A n \in DOMAIN Parsers :
        /\ Sound(n)
        /\ StopsForEscapes(Parsers[n])
        /\ Spelled(n) => n \in FaithfulParsers

-----------------------------------------------------------------------------
Pattern == Parsers[parser].pattern
Text == DecodeFirst(Parsers[parser].table, str, Len(str))

\* Both compilers, with and without vector instructions, generate a matcher
\* that returns what LIKE says of the decompressed text, whatever lies around
\* the string.
MatchesDecompressed == pc = "done" => result = Like(Pattern, Text)

\* parse always returns, unless there was nothing to compile.
Returns == <>(pc \in {"done", "thrown"})
=============================================================================
