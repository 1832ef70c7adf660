-------------------------------- MODULE Fsst --------------------------------
(***************************************************************************)
(* The symbol table of an FSST-compressed data set and the wrapper the     *)
(* matcher reads it through (include/encoder.hpp, src/encoder.cpp).        *)
(*                                                                         *)
(* A byte is a natural number and a text a sequence of bytes.  A symbol    *)
(* table is a record: sym is the sequence of its symbols, each a nonempty  *)
(* text, the symbol of code c being sym[c + 1]; esc is the set of bytes    *)
(* that the table marks as escapable.  A compressed string is a sequence   *)
(* of codes in which FSST_ESC is followed by one literal byte.  Codes and  *)
(* bytes are the same numbers, as in the code, so that a literal read as a *)
(* code (or the converse) is a mistake the models can make.                *)
(***************************************************************************)
EXTENDS Integers, Sequences, FiniteSets

FSST_ESC == 255

\* The codes of table t and the symbol of code c.
Codes(t) == 0 .. Len(t.sym) - 1
Sym(t, c) == t.sym[c + 1]

IsEscapable(t, b) == b \in t.esc

\* Does text s hold symbol w at position i?
HoldsAt(s, i, w) ==
    /\ i + Len(w) - 1 <= Len(s)
    /\ \A k \in 1 .. Len(w) : s[i + k - 1] = w[k]

-----------------------------------------------------------------------------
(***************************************************************************)
(* The compressor.  libfsst is an external library; this is the greedy     *)
(* choice its fsst_compress makes at each position: the symbol of three or *)
(* more bytes that matches (a table holds at most one per first three      *)
(* bytes), else the two-byte symbol, else the one-byte symbol, else an     *)
(* escape.                                                                 *)
(***************************************************************************)
WellFormedTable(t) ==
    /\ \A c \in Codes(t) : Len(Sym(t, c)) \in 1 .. 8
    /\ \A c, d \in Codes(t) :
          c # d => /\ Sym(t, c) # Sym(t, d)
                   /\ (Len(Sym(t, c)) > 2 /\ Len(Sym(t, d)) > 2) =>
                         SubSeq(Sym(t, c), 1, 3) # SubSeq(Sym(t, d), 1, 3)
    /\ \A c \in Codes(t) : Len(Sym(t, c)) = 1 => Sym(t, c)[1] \notin t.esc

MatchingCodes(t, s, i) == {c \in Codes(t) : HoldsAt(s, i, Sym(t, c))}

GreedyCode(t, s, i) ==
    LET fit == MatchingCodes(t, s, i)
        longest == {c \in fit : \A d \in fit : Len(Sym(t, d)) <= Len(Sym(t, c))}
    IN  IF fit = {} THEN FSST_ESC ELSE CHOOSE c \in longest : TRUE

Encode(t, s) ==
    LET enc[i \in 1 .. Len(s) + 1] ==
          IF i > Len(s) THEN << >>
          ELSE LET c == GreedyCode(t, s, i)
               IN  IF c = FSST_ESC THEN <<FSST_ESC, s[i]>> \o enc[i + 1]
                   ELSE <<c>> \o enc[i + Len(Sym(t, c))]
    IN  enc[1]

\* The decoder of libfsst: the text that the first n bytes of a compressed
\* string stand for; an escape without its literal stands for nothing.
DecodeFirst(t, out, n) ==
    LET text[i \in 1 .. n + 2] ==
          CASE i > n -> << >>
            [] i <= n /\ out[i] = FSST_ESC -> IF i = n THEN << >> ELSE <<out[i + 1]>> \o text[i + 2]
            [] OTHER -> Sym(t, out[i]) \o text[i + 1]
    IN  text[1]

\* Encoder::isEncodingValid: every literal of the encoding is escapable.
IsEncodingValid(t, out) ==
    LET ok[i \in 1 .. Len(out) + 2] ==
          CASE i > Len(out)          -> TRUE
            [] i <= Len(out) /\ out[i] # FSST_ESC -> ok[i + 1]
            [] OTHER                 -> IsEscapable(t, out[i + 1]) /\ ok[i + 2]
    IN  ok[1]

-----------------------------------------------------------------------------
(***************************************************************************)
(* What the automaton constructors ask of the table.                       *)
(***************************************************************************)

\* Encoder::createPrefixBitmap and createAnywhereBitmap.
CreatePrefixBitmap(t, b) == {c \in Codes(t) : Sym(t, c)[1] = b}
CreateAnywhereBitmap(t, b) ==
    {c \in Codes(t) : \E k \in 1 .. Len(Sym(t, c)) : Sym(t, c)[k] = b}

\* Bitmap::getExactPrefixMatches: the codes of the one-byte symbol, of the
\* two-byte symbol and of the longer symbol whose first one, two or three
\* bytes are those of p from position i on (sets of at most one code).
GetExactPrefixMatches(t, p, i) ==
    LET bitmap == CreatePrefixBitmap(t, p[i])
        agree(c, n) == i + n - 1 <= Len(p)
                       /\ \A k \in 1 .. n : Sym(t, c)[k] = p[i + k - 1]
    IN  << {c \in bitmap : Len(Sym(t, c)) = 1},
           {c \in bitmap : Len(Sym(t, c)) = 2 /\ agree(c, 2)},
           {c \in bitmap : Len(Sym(t, c)) > 2 /\ agree(c, 3)} >>

\* Encoder::findAllSymbolsWithSuffix: entry k holds the codes whose symbol
\* properly ends with the first k bytes of p, k up to maxN.
FindAllSymbolsWithSuffix(t, p, maxN) ==
    [k \in 1 .. maxN |->
        {c \in CreateAnywhereBitmap(t, p[1]) :
            LET w == Sym(t, c)
            IN  /\ k <= Len(w) - 1
                /\ \A j \in 1 .. k : w[Len(w) - k + j] = p[j]}]
=============================================================================
