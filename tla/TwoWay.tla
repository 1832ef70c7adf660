------------------------------- MODULE TwoWay -------------------------------
(***************************************************************************)
(* The preparation of a needle for the two-way search                      *)
(* (include/hybrid_string_search.hpp): where to cut it in two, and how far *)
(* to shift it when its right half matched and its left half did not.      *)
(* Positions count from 0, as in the code.                                 *)
(***************************************************************************)
EXTENDS Integers, Sequences

At(w, i) == w[i + 1]
Larger(a, b) == IF a > b THEN a ELSE b
IsLeast(i, S) == \A j \in S : i <= j
Least(S) == CHOOSE i \in S : IsLeast(i, S)

\* One iteration of computeMaxSuffix: ms is the position in front of the
\* largest suffix so far, ptr the one in front of the suffix compared with it,
\* of which cand - 1 bytes were equal.  Descending is the order of bytes in
\* which it is the smallest.
MaxSuffixStep(w, descending, s) ==
    LET c1 == At(w, s.ptr + s.cand)
        c2 == At(w, s.ms + s.cand)
        smaller == IF descending THEN c1 > c2 ELSE c1 < c2
    IN  CASE s.ptr + s.cand >= Len(w) -> s
          [] s.ptr + s.cand < Len(w) /\ smaller ->
               [s EXCEPT !.ptr = @ + s.cand, !.cand = 1, !.period = s.ptr + s.cand - s.ms]
          [] s.ptr + s.cand < Len(w) /\ c1 = c2 /\ s.cand = s.period ->
               [s EXCEPT !.ptr = @ + s.period, !.cand = 1]
          [] s.ptr + s.cand < Len(w) /\ c1 = c2 /\ s.cand # s.period ->
               [s EXCEPT !.cand = @ + 1]
          [] OTHER -> [ms |-> s.ptr, ptr |-> s.ptr + 1, cand |-> 1, period |-> 1]

\* The loop takes at most twice as many iterations as there are bytes.
ComputeMaxSuffix(w, descending) ==
    LET after[n \in 0 .. 2 * Len(w)] ==
          IF n = 0 THEN [ms |-> -1, ptr |-> 0, cand |-> 1, period |-> 1]
          ELSE MaxSuffixStep(w, descending, after[n - 1])
    IN  after[2 * Len(w)]

\* equal: the left half repeats after period bytes, so that the needle does;
\* the search then remembers how much of it has been seen.
PreparePattern(w) ==
    LET up == ComputeMaxSuffix(w, FALSE)
        down == ComputeMaxSuffix(w, TRUE)
        s == IF up.ms > down.ms THEN up ELSE down
        equal == \A k \in 0 .. s.ms : At(w, k) = At(w, k + s.period)
    IN  CASE Len(w) = 1 -> [ms |-> 0, period |-> 0, equal |-> FALSE]
          [] Len(w) = 2 /\ At(w, 0) = At(w, 1) -> [ms |-> -1, period |-> 3, equal |-> TRUE]
          [] Len(w) = 2 /\ At(w, 0) # At(w, 1) -> [ms |-> 0, period |-> 1, equal |-> FALSE]
          [] OTHER ->
               [ms |-> s.ms, equal |-> equal,
                period |-> IF equal THEN s.period ELSE Larger(s.ms + 1, Len(w) - s.ms - 1) + 1]

-----------------------------------------------------------------------------
(***************************************************************************)
(* What the search needs of the result p of PreparePattern(w).             *)
(***************************************************************************)

\* If the right half matches up to position pos, where it differs, then the
\* needle does not begin k bytes later: shifted by k it would agree with the
\* bytes that matched, and with a byte at pos that is not the needle's.
CutIsCritical(w, p) ==
    \A pos \in p.ms + 1 .. Len(w) - 1 : \A k \in 1 .. pos - p.ms - 1 :
        (\A j \in Larger(p.ms + 1, k) .. pos - 1 : At(w, j - k) = At(w, j))
            => At(w, pos - k) = At(w, pos)

\* If all of the right half matches, the needle does not begin before one
\* period later.  (Without a left half nothing is shifted by the period.)
PeriodIsLeast(w, p) ==
    p.ms >= 0 =>
        \A k \in 1 .. p.period - 1 :
            \E j \in Larger(p.ms + 1, k) .. Len(w) - 1 : At(w, j - k) # At(w, j)

\* If the left half repeats, the needle has the period, and what has been
\* compared when it is shifted by the period is all that is remembered.
PeriodRepeats(w, p) ==
    p.equal =>
        /\ p.period > p.ms
        /\ \A j \in p.period .. Len(w) - 1 : At(w, j - p.period) = At(w, j)

InBounds(w, p) ==
    /\ p.ms \in -1 .. Len(w) - 2
    /\ p.period \in 1 .. Len(w) + 1
    /\ p.ms >= 0 => p.period <= Len(w)

Prepared(w, p) ==
    Len(w) >= 2 =>
        InBounds(w, p) /\ CutIsCritical(w, p) /\ PeriodIsLeast(w, p) /\ PeriodRepeats(w, p)
=============================================================================
