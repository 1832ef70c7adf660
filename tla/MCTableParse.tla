---------------------------- MODULE MCTableParse ----------------------------
(***************************************************************************)
(* TableParse over all sound tables of two rows each way, whether a pattern *)
(* has such tables or not: two backward rows with and without a forward    *)
(* table, and two forward rows with and without a match of the end.        *)
(***************************************************************************)
EXTENDS TableParse, TLC

MCBytes == {1, 2}
MCError == 0
MCNoEnd == 99
MCAcceptBase == 100
Wide == 8

B == <<10, 11>>
F == <<20, 21>>

\* The digits of n choose a table of the two rows S: four successors among
\* them, the error and a match; two levels; and no fixed byte or the byte 1.
Chosen(S, n, least) ==
    LET base == 3 - least
        digit(place, values) == (n \div place) % values
        successor(place) == <<S[1], S[2], MCError, MCAcceptBase + 1>>[digit(place, 4) + 1]
    IN  [rows  |-> (S[1] :> <<successor(1), successor(4)>>) @@ (S[2] :> <<successor(16), successor(64)>>),
         level |-> (S[1] :> least + digit(256, base)) @@ (S[2] :> least + digit(256 * base, base)),
         fix   |-> IF digit(256 * base * base, 2) = 0 THEN << >> ELSE <<1>>]
NoTable == [rows |-> << >>, level |-> << >>, fix |-> << >>]

\* A match of the end of the string: the byte 1, with a look-ahead.
EndOfOne ==
    [rows  |-> (B[1] :> <<B[2], MCError>>) @@ (B[2] :> <<MCAcceptBase + 1, MCAcceptBase + 1>>),
     level |-> (B[1] :> 1) @@ (B[2] :> 0),
     fix   |-> << >>]

\* A row with level 0 counts as a match when the string is used up.  A forward
\* row that skips keeps the bytes that lead out of it.
Table(bwd, fwd, skip) ==
    LET rows == bwd.rows @@ fwd.rows
        level == bwd.level @@ fwd.level
    IN  [forward |-> fwd # NoTable, backward |-> bwd # NoTable,
         fwd |-> DOMAIN fwd.rows, bwd |-> DOMAIN bwd.rows,
         fwdStart |-> F[1], fwdFix |-> fwd.fix, bwdStart |-> B[1], bwdFix |-> bwd.fix,
         skipping |-> skip, next |-> rows, level |-> level,
         bits |-> [s \in DOMAIN rows |-> {c \in MCBytes : rows[s][c] # s}],
         pseudo |-> [s \in DOMAIN rows |-> IF level[s] = 0 THEN 1 ELSE MCNoEnd]]

Backwards == [n \in 1 .. 4608 |-> Table(Chosen(B, n - 1, 0), NoTable, {})]
Forwards(bwd, skip) == [n \in 1 .. 2048 |-> Table(bwd, Chosen(F, n - 1, 1), skip)]
SoundTables ==
    SelectSeq(Backwards \o Forwards(NoTable, {F[1]}) \o Forwards(NoTable, {F[2]})
                        \o Forwards(EndOfOne, {F[1]}) \o Forwards(EndOfOne, {F[2]}),
              LAMBDA p : Closed(p) /\ LooksOneByteAhead(p))
MCParsers == LET built == SoundTables IN built
MCInput == [n \in DOMAIN SoundTables |-> UNION {[1 .. k -> MCBytes] : k \in 1 .. 3}]

ASSUME \A n \in DOMAIN Parsers : Sound(n) /\ LevelsAreFinite(n)
=============================================================================
