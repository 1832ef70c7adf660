---------------------------- MODULE ParserTables ----------------------------
(***************************************************************************)
(* The automata of a pattern as both matchers read them: the tables that   *)
(* LikePatternAutomatonParser is built with and TableParse walks, and the  *)
(* states that CppCompiler and LLVMCompiler turn into the code that        *)
(* CompiledParse models.  A parser is a record:                            *)
(*   forward, backward  whether it has a table in that direction           *)
(*   fwd, bwd           the states of the two tables                       *)
(*   fwdStart, bwdStart the states in which the walks begin                *)
(*   fwdFix, bwdFix     the bytes that come before and behind the walks    *)
(*   fwdMin, bwdMin     the lengths that the generated matchers ask for    *)
(*   skipping           the states that skip bytes without a transition    *)
(*   next               the successor of a state on a byte                 *)
(*   bits               the bytes for which a state has a transition       *)
(*   level              how many codes a state needs to lead to a match    *)
(*   pseudo             the bytes used if a state itself counts as a match *)
(***************************************************************************)
EXTENDS Outcomes, Integers, Sequences

CONSTANTS
    Bytes,      \* all bytes that a string holds or that lie around it
    Outside,    \* the bytes that may lie in front of a string and behind it
    Parsers,    \* a function, or a sequence: the parsers that may be used
    Input       \* for each parser, the compressed strings it may be given

-----------------------------------------------------------------------------
(***************************************************************************)
(* What the matchers rely on.  Parsers and Input are constants here; that  *)
(* the constructors deliver such tables is checked where they are built.   *)
(***************************************************************************)
\* The rows of each of the two tables lead to its own states, to the error or
\* to an accept state; so do the states where the walks begin.
Closed(p) ==
    /\ DOMAIN p.next = p.fwd \cup p.bwd
    /\ DOMAIN p.next \cap Outcomes = {}
    /\ p.fwdFix \in Seq(Bytes) /\ p.bwdFix \in Seq(Bytes)
    /\ \A s \in p.fwd, c \in Bytes : p.next[s][c] \in p.fwd \cup Outcomes
    /\ \A s \in p.bwd, c \in Bytes : p.next[s][c] \in p.bwd \cup Outcomes
    /\ p.forward => p.fwdStart \in p.fwd \cup Outcomes
    /\ p.backward => p.bwdStart \in p.bwd
    /\ \A s \in DOMAIN p.next : p.level[s] \in 0 .. LevelRange - 1
    /\ \A s \in DOMAIN p.next : p.pseudo[s] \in 0 .. 8 \cup {NoEnd}

\* A state of the backward table that may be in with no code left leaves the
\* table with the next byte; no single byte is a match of the end; and a
\* state that counts as a match goes on in any case.
LooksOneByteAhead(p) ==
    p.backward =>
        /\ \A s \in p.bwd, c \in Bytes : p.level[s] = 0 => p.next[s][c] \notin p.bwd
        /\ \A c \in Bytes : p.bwdFix = << >> => p.next[p.bwdStart][c] \notin Accepts
        /\ \A s \in p.bwd : p.pseudo[s] # NoEnd => p.level[s] = 0

\* A string is not empty (asserted by parse) and far shorter than 2^64.
Strings == {s \in Seq(Bytes) : Len(s) > 0 /\ Len(s) < LevelRange}

Sound(n) ==
    /\ Closed(Parsers[n])
    /\ LooksOneByteAhead(Parsers[n])
    /\ \A s \in Input[n] : s \in Strings

\* No level of the forward table is so close to the largest number that
\* adding it to an index of a string wraps around, and none is 0.
LevelsAreFinite(n) ==
    \A q \in Parsers[n].fwd, s \in Input[n] :
        Parsers[n].level[q] >= 1 /\ Parsers[n].level[q] + Len(s) < LevelRange
-----------------------------------------------------------------------------
(***************************************************************************)
(* What the automata of a parser say of a string, levels, skipping and the *)
(* order of the steps aside: the end is matched backwards, and the part in *)
(* front of the match, with the code it begins in, is matched forwards.    *)
(***************************************************************************)
\* The states after 0, 1, .. n bytes of word; a walk that has left the table
\* is in the error state one byte later.
Walk(next, start, word, n) ==
    LET walk[i \in 0 .. n] ==
          IF i = 0 THEN start
          ELSE IF walk[i - 1] \in DOMAIN next THEN next[walk[i - 1]][word[i]]
          ELSE Error
    IN  walk

\* Indices count from 0: w[i + 1] is the byte at i.
ForwardWalk(p, w) ==
    LET fixed == Len(p.fwdFix)
        left == Len(w) - fixed
    IN  Walk(p.next, p.fwdStart, [i \in 1 .. left |-> w[fixed + i]], left)

BackwardWalk(p, w) ==
    LET left == Len(w) - Len(p.bwdFix)
    IN  Walk(p.next, p.bwdStart, [i \in 1 .. left |-> w[left + 1 - i]], left)

Begins(w, fix) == Len(fix) <= Len(w) /\ \A i \in 1 .. Len(fix) : w[i] = fix[i]
Ends(w, fix) ==
    Len(fix) <= Len(w) /\ \A i \in 1 .. Len(fix) : w[Len(w) - Len(fix) + i] = fix[i]

\* The beginning of the pattern uses the first n bytes, k bytes of text of the
\* last one.
BeginMatches(p, w, n, k) ==
    /\ Begins(w, p.fwdFix)
    /\ n - Len(p.fwdFix) \in DOMAIN ForwardWalk(p, w)
    /\ ForwardWalk(p, w)[n - Len(p.fwdFix)] = Accept(k)

\* The end of the pattern begins in the code at b, k bytes of text into it: the
\* backward walk has read one byte more, or the state it is in counts as a
\* match in front of the first.
EndMatches(p, w, b, k) ==
    LET left == Len(w) - Len(p.bwdFix)
        walk == BackwardWalk(p, w)
    IN  /\ Ends(w, p.bwdFix)
        /\ \/ left + 1 - b \in DOMAIN walk /\ walk[left + 1 - b] = Accept(k)
           \/ b = 0 /\ walk[left] \in DOMAIN p.next /\ p.pseudo[walk[left]] = k

Verdict(p, w) ==
    \E b \in 0 .. Len(w) - 1, k \in 0 .. 8 :
        /\ IF p.backward THEN EndMatches(p, w, b, k) ELSE b = Len(w) - 1 /\ k = 8
        /\ p.forward => \E n \in 0 .. b + 1, m \in 0 .. 8 :
                           BeginMatches(p, w, n, m) /\ (n <= b \/ m <= k)

\* A level is no larger than the number of codes that lead from the state to a
\* match; backwards the look-ahead is not counted, and the byte in front of
\* the string ends the match in any state of level 0.  A state that skips a
\* byte stays what it is.
LevelsAreHonest(p) ==
    /\ \A s \in p.fwd, c \in Bytes :
          /\ p.next[s][c] \in p.fwd => p.level[s] <= p.level[p.next[s][c]] + 1
          /\ p.next[s][c] \in Accepts => p.level[s] <= 1
    /\ \A s \in p.bwd, c \in Bytes :
          /\ p.next[s][c] \in p.bwd => p.level[s] <= p.level[p.next[s][c]] + 1
          /\ p.next[s][c] \in Accepts => p.level[s] = 0
    /\ \A s \in p.bwd :
          /\ (p.pseudo[s] # NoEnd) <=> (p.level[s] = 0)
          /\ p.level[s] = 0 => (\A c \in Outside : p.next[s][c] = Accept(p.pseudo[s]))
    /\ \A s \in p.skipping : \A c \in Bytes \ p.bits[s] : p.next[s][c] = s
=============================================================================
