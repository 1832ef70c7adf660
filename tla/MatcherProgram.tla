--------------------------- MODULE MatcherProgram ---------------------------
(***************************************************************************)
(* The program to which a LIKE pattern is compiled for decompressed text   *)
(* (include/hybrid_string_search.hpp): the lengths and the prepared        *)
(* needles of its parts.  The header and the packed bytes of the code are  *)
(* a record here.                                                          *)
(***************************************************************************)
EXTENDS TwoWay, LikePattern

\* The parts between the percent signs.  Empty ones are dropped, but not the
\* first and the last, which may be empty.
Parts(p) ==
    LET upTo(i) == {j \in 0 .. i : j = 0 \/ p[j] = Percent}
        from(i) == CHOOSE j \in upTo(i - 1) : \A k \in upTo(i - 1) : k <= j
        segment(i) == SubSeq(p, from(i) + 1, i - 1)
        kept(i) == from(i) = 0 \/ i = Len(p) + 1 \/ segment(i) # << >>
        parts[i \in 0 .. Len(p) + 1] ==
          IF i = 0 THEN << >>
          ELSE parts[i - 1] \o
               IF (i = Len(p) + 1 \/ p[i] = Percent) /\ kept(i) THEN <<segment(i)>> ELSE << >>
    IN  parts[Len(p) + 1]

\* A middle part: how many underscores it begins with, the bytes from there to
\* the next underscore, and how to look for them.
Lookup(part) ==
    LET skip == SkipForward(part, 1, {Underscore}) - 1
        stops == {j \in skip + 1 .. Len(part) : part[j] = Underscore} \cup {Len(part) + 1}
        buffer == SubSeq(part, skip + 1, Least(stops) - 1)
    IN  [part |-> part, skip |-> skip, buffer |-> buffer,
         prepared |-> IF buffer = << >> THEN [ms |-> 0, period |-> 0, equal |-> FALSE]
                      ELSE PreparePattern(buffer)]

BuildMatcher(p) ==
    LET parts == Parts(p)
        middle == SubSeq(parts, 2, Len(parts) - 1)
        lookup(n) == Lookup(middle[n])
    IN  [pattern     |-> p,
         underscores |-> \E i \in 1 .. Len(p) : p[i] = Underscore,
         prefix      |-> parts[1],
         suffix      |-> parts[Len(parts)],
         middle      |-> << >> \o [n \in 1 .. Len(middle) |-> lookup(n)],
         sums        |-> Len(p) - Cardinality({i \in 1 .. Len(p) : p[i] = Percent})]
=============================================================================
