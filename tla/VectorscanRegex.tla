--------------------------- MODULE VectorscanRegex ---------------------------
(***************************************************************************)
(* The regular expression that stands for a LIKE pattern in the matcher    *)
(* the benchmarks compare with (src/vectorscan.cpp).  An expression is the *)
(* sequence of its items, with an anchor or without one at either end.     *)
(* The engine is an external library: what it finds is what the expression *)
(* means.                                                                  *)
(***************************************************************************)
EXTENDS LikePattern

Item(kind, b) == [kind |-> kind, byte |-> b]
Refused == [kind |-> "exception"]

\* A backslash in front of a letter or a digit names a class or a control
\* character of the language of expressions.
IsAlphanumeric(b) == b \in 48 .. 57 \cup 65 .. 90 \cup 97 .. 122
Escaped(b) == IF IsAlphanumeric(b) THEN Item("class", b) ELSE Item("byte", b)
Plainly(b) == CASE b = Percent -> Item("run", 0)
                [] b = Underscore -> Item("any", 0)
                [] OTHER -> Item("byte", b)

\* A deliberate mistake: the backslash in front is overlooked.
LastIndexBlind(p) == CHOOSE i \in 1 .. Len(p) : p[i] # Percent /\ \A j \in i + 1 .. Len(p) : p[j] = Percent

\* The percent signs at the end are dropped, up to an escaped one.
LastIndex(p) ==
    LET dropped(i) == p[i] = Percent /\ (i = 1 \/ p[i - 1] # Backslash)
    IN  CHOOSE i \in 1 .. Len(p) : ~dropped(i) /\ \A j \in i + 1 .. Len(p) : dropped(j)

\* likePatternToRegex
LikePatternToRegex(p) ==
    LET first == SkipForward(p, 1, {Percent})
        last == LastIndex(p)
        dangling == SkipToUnescaped(Part(p, first, last + 1), 1, {}) # last - first + 2
        items[i \in 1 .. last + 2] ==
          CASE i > last -> << >>
            [] i <= last /\ p[i] = Backslash -> <<Escaped(p[i + 1])>> \o items[i + 2]
            [] OTHER -> <<Plainly(p[i])>> \o items[i + 1]
    IN  IF first > Len(p) \/ dangling THEN Refused
        ELSE [kind |-> "regex", items |-> items[first],
              begins |-> p[1] # Percent, ends |-> p[Len(p)] # Percent]

\* matches: hs_scan calls match_handler if the expression is found in the text.
RegexMatches(r, s) ==
    LET found[n \in 1 .. Len(r.items) + 1] == [j \in 1 .. Len(s) + 1 |->
          CASE n > Len(r.items) -> r.ends => j > Len(s)
            [] n <= Len(r.items) /\ r.items[n].kind = "run" -> \E k \in j .. Len(s) + 1 : found[n + 1][k]
            [] n <= Len(r.items) /\ r.items[n].kind = "any" -> j <= Len(s) /\ found[n + 1][j + 1]
            [] OTHER -> j <= Len(s) /\ r.items[n] = Item("byte", s[j]) /\ found[n + 1][j + 1]]
    IN  \E j \in 1 .. (IF r.begins THEN 1 ELSE Len(s) + 1) : found[1][j]
=============================================================================
