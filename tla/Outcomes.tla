------------------------------ MODULE Outcomes ------------------------------
(***************************************************************************)
(* What the construction of the automata and all matchers agree on: the    *)
(* states that end a walk, which stand for the error and the accept states *)
(* of the code (include/automata.hpp), and numbers as the code stores them.*)
(***************************************************************************)
EXTENDS Integers

CONSTANTS
    Error,      \* the error state
    AcceptBase, \* the accept state for 0 used bytes; those for 1..8 follow
    NoEnd,      \* the endIdx of a state that has none
    LevelRange  \* levels and lengths are computed modulo this number: 2^64

Accept(k) == AcceptBase + k
Accepts == {Accept(k) : k \in 0 .. 8}
Outcomes == {Error} \cup Accepts

\* A number as the code stores it, without a sign and with one.
Wrapped(n) == n % LevelRange
Signed(n) == IF 2 * n >= LevelRange THEN n - LevelRange ELSE n
=============================================================================
