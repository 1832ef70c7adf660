---------------------------- MODULE LikeInstance ----------------------------
(***************************************************************************)
(* An instance of LIKE over compressed strings: the automata that          *)
(* LikeAutomaton builds for some patterns and symbol tables, and the       *)
(* compressed strings that the matchers are given.                         *)
(***************************************************************************)
EXTENDS LikeAutomaton, ParserTables

CONSTANTS
    Groups,    \* a sequence of groups of instances: symbol tables, patterns
               \* (sequences, too) and the length max of the longest text
    Orders,    \* the orders in which hash maps are walked: TRUE is descending
    TextBytes  \* the bytes of texts

\* No literal is the number of a code whose symbol ends with it.  The code
\* does not ask for this; the constructor of the end automaton needs it.
LiteralsAreApart(t) ==
    \A b \in t.esc \cap Codes(t) : Sym(t, b)[Len(Sym(t, b))] # b

Tables == UNION {ToSet(Groups[g].tables) : g \in DOMAIN Groups}
Texts(max) == UNION {[1 .. n -> TextBytes] : n \in 1 .. max}
CodeBytes == TextBytes \cup Outside \cup {FSST_ESC} \cup UNION {Codes(t) : t \in Tables}

\* One parser per table, pattern and order of a group; the variable parser
\* holds its index in this sequence.
CasesOf(group) ==
    LET tables == group.tables
        patterns == group.patterns
        case(n, q) == [table   |-> tables[(q \div Len(patterns)) + 1],
                       pattern |-> patterns[(q % Len(patterns)) + 1],
                       parts   |-> SplitIntoSubpatterns(patterns[(q % Len(patterns)) + 1]),
                       desc    |-> Orders[(n % Len(Orders)) + 1],
                       max     |-> group.max]
        number == Len(tables) * Len(patterns) * Len(Orders)
    IN  << >> \o [n \in 1 .. number |-> case(n - 1, (n - 1) \div Len(Orders))]
Cases == FoldLeft(LAMBDA cases, group : cases \o CasesOf(group), << >>, Groups)
ParserOf ==
    LET cases == Cases
        codeBytes == CodeBytes
        record(c, b) == Parser(b, codeBytes) @@ MinLengths(b)
                        @@ [table |-> c.table, pattern |-> c.pattern, parts |-> c.parts]
        built(c) == record(c, Build(c.table, c.parts, c.desc))
    IN  << >> \o [n \in DOMAIN cases |-> built(cases[n])]

\* A data set only holds strings whose literals its table marks escapable.
InputOf ==
    LET cases == Cases
        maxima == {Groups[g].max : g \in DOMAIN Groups}
        encoded(t, max) == {out \in {Encode(t, s) : s \in Texts(max)} : IsEncodingValid(t, out)}
        strings == [t \in Tables, max \in maxima |-> encoded(t, max)]
    IN  << >> \o [n \in DOMAIN cases |-> strings[cases[n].table, cases[n].max]]

\* The constants of ParserTables are these: as constants they are built once.
ASSUME ConstantsAssumption ==
    /\ \A t \in Tables : WellFormedTable(t)
    /\ \A n \in DOMAIN Cases : Implemented(Cases[n].parts)
    /\ Bytes = CodeBytes
    /\ Parsers = ParserOf
    /\ Input = InputOf
=============================================================================
