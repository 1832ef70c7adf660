---------------------------- MODULE CountMatches ----------------------------
(***************************************************************************)
(* What a scan of a column promises: one number, that of the elements that *)
(* match, given once.                                                      *)
(***************************************************************************)
EXTENDS Integers

CONSTANT Total  \* the number of elements that match

VARIABLE answer

None == -1

Init == answer = None

Count ==
    /\ answer = None
    /\ answer' = Total

Safety == Init /\ [][Count]_answer
Spec == Safety /\ WF_answer(Count)
=============================================================================
