----------------------------- MODULE TableParse -----------------------------
(***************************************************************************)
(* The matcher: LikePatternAutomatonParser::parse and the two instances of *)
(* AutomatonTable::parse it calls (include/like_pattern_automaton.hpp,     *)
(* src/like_pattern_automaton.cpp).  The end of the string is matched      *)
(* backwards first; then the string up to where that match begins is       *)
(* matched forwards; a forward match is good if it ends before.            *)
(*                                                                         *)
(* One action is one iteration of a loop, or one branch around the loops.  *)
(* String indices count from 0 as in the code.  str[i] outside the string  *)
(* is an undefined read: it yields any byte of Outside.                    *)
(***************************************************************************)
EXTENDS ParserTables

\* parser and str never change; pc says where the control is; strIdx and
\* state belong to the table being walked; backIdx and backSym are
\* backwardsStrIdx and backwardsSymbolIdx, where the match of the end begins.
VARIABLES parser, str, pc, strIdx, state, backIdx, backSym, symIdx, result

vars == <<parser, str, pc, strIdx, state, backIdx, backSym, symIdx, result>>

P == Parsers[parser]
Real(s) == s \in DOMAIN P.next

\* The bytes that reading str[i] may yield.
Read(i) == IF i \in 0 .. Len(str) - 1 THEN {str[i + 1]} ELSE Outside

\* The length of the part that the forward table sees.
ForwardLen == backIdx + 1

StartsWith(fix) ==
    /\ Len(fix) <= ForwardLen
    /\ \A k \in 1 .. Len(fix) : str[k] = fix[k]

EndsWith(fix) ==
    /\ Len(fix) <= Len(str)
    /\ \A k \in 1 .. Len(fix) : str[Len(str) - Len(fix) + k] = fix[k]

Init ==
    /\ parser \in DOMAIN Parsers
    /\ str \in Input[parser]
    /\ pc = "begin"
    /\ strIdx = 0
    /\ state = Error
    /\ backIdx = Len(str) - 1
    /\ backSym = 8
    /\ symIdx = 0
    /\ result = FALSE

Return(answer) ==
    /\ pc' = "done"
    /\ result' = answer
    /\ UNCHANGED <<parser, str, strIdx, state, backIdx, backSym, symIdx>>

-----------------------------------------------------------------------------
(* Backwards: AutomatonTable::parse<false>.                                *)

\* Deliberate mistakes in what follows: the walk begins one code too late,
\* goes on with one code too few, and takes the code in front of the match
\* for the one where it begins.
BackwardBeginLate ==
    /\ pc = "begin"
    /\ P.backward
    /\ EndsWith(P.bwdFix)
    /\ pc' = "backward"
    /\ strIdx' = Len(str) - Len(P.bwdFix)
    /\ state' = P.bwdStart
    /\ UNCHANGED <<parser, str, backIdx, backSym, symIdx, result>>

BackwardGoesTooFar == Real(state) /\ Wrapped(strIdx + 2) >= P.level[state]

BackwardAcceptInFront ==
    /\ pc = "backward"
    /\ \E k \in 0 .. 8 : state = Accept(k) /\ backSym' = k
    /\ backIdx' = strIdx + 1
    /\ pc' = "between"
    /\ UNCHANGED <<parser, str, strIdx, state, symIdx, result>>

BackwardBegin ==
    /\ pc = "begin"
    /\ P.backward
    /\ EndsWith(P.bwdFix)
    /\ pc' = "backward"
    /\ strIdx' = Len(str) - Len(P.bwdFix) - 1
    /\ state' = P.bwdStart
    /\ UNCHANGED <<parser, str, backIdx, backSym, symIdx, result>>

BackwardNoSuffix ==
    /\ pc = "begin"
    /\ P.backward
    /\ ~EndsWith(P.bwdFix)
    /\ Return(FALSE)

\* The loop condition: a state of the table, and as many codes left as its
\* level asks for.
BackwardGoesOn == Real(state) /\ Wrapped(strIdx + 1) >= P.level[state]

BackwardStep ==
    /\ pc = "backward"
    /\ BackwardGoesOn
    /\ \E c \in Read(strIdx) : state' = P.next[state][c]
    /\ strIdx' = strIdx - 1
    /\ UNCHANGED <<parser, str, pc, backIdx, backSym, symIdx, result>>

BackwardAccept ==
    /\ pc = "backward"
    /\ \E k \in 0 .. 8 : state = Accept(k) /\ backSym' = k
    /\ backIdx' = strIdx + 2
    /\ pc' = "between"
    /\ UNCHANGED <<parser, str, strIdx, state, symIdx, result>>

\* The loop stopped short of an accept state: a state with an endIdx still
\* counts as a match.
BackwardStop ==
    /\ pc = "backward"
    /\ Real(state)
    /\ ~BackwardGoesOn
    /\ IF P.pseudo[state] # NoEnd
       THEN /\ backSym' = P.pseudo[state]
            /\ backIdx' = strIdx + 1
            /\ pc' = "between"
            /\ UNCHANGED <<parser, str, strIdx, state, symIdx, result>>
       ELSE Return(FALSE)

BackwardError ==
    /\ pc = "backward"
    /\ state = Error
    /\ Return(FALSE)

-----------------------------------------------------------------------------
(* Forwards: AutomatonTable::parse<true>.                                  *)

AtForward == pc = "between" \/ (pc = "begin" /\ ~P.backward)

NoForwardTable ==
    /\ AtForward
    /\ ~P.forward
    /\ Return(TRUE)

ForwardBegin ==
    /\ AtForward
    /\ P.forward
    /\ StartsWith(P.fwdFix)
    /\ pc' = "forward"
    /\ strIdx' = Len(P.fwdFix)
    /\ state' = P.fwdStart
    /\ UNCHANGED <<parser, str, backIdx, backSym, symIdx, result>>

ForwardNoPrefix ==
    /\ AtForward
    /\ P.forward
    /\ ~StartsWith(P.fwdFix)
    /\ Return(FALSE)

\* Deliberate mistakes: the walk goes on with one code too few; a byte that
\* has no transition is looked at for ever.
ForwardGoesTooFar == Real(state) /\ Wrapped(strIdx + P.level[state]) <= ForwardLen + 1

ForwardGoesOn == Real(state) /\ Wrapped(strIdx + P.level[state]) <= ForwardLen

ForwardSkipNothing ==
    /\ pc = "forward"
    /\ ForwardGoesOn
    /\ state \in P.skipping
    /\ \E c \in Read(strIdx) : c \notin P.bits[state]
    /\ UNCHANGED vars

\* A row of the table other than the start of a middle automaton.
ForwardStep ==
    /\ pc = "forward"
    /\ ForwardGoesOn
    /\ state \notin P.skipping
    /\ \E c \in Read(strIdx) : state' = P.next[state][c]
    /\ strIdx' = strIdx + 1
    /\ UNCHANGED <<parser, str, pc, backIdx, backSym, symIdx, result>>

\* In the start of a middle automaton: skip a byte that has no transition...
ForwardSkip ==
    /\ pc = "forward"
    /\ ForwardGoesOn
    /\ state \in P.skipping
    /\ \E c \in Read(strIdx) : c \notin P.bits[state]
    /\ strIdx' = strIdx + 1
    /\ UNCHANGED <<parser, str, pc, state, backIdx, backSym, symIdx, result>>

\* ... and take the transition of the first byte that has one.
ForwardLeave ==
    /\ pc = "forward"
    /\ ForwardGoesOn
    /\ state \in P.skipping
    /\ \E c \in Read(strIdx) : c \in P.bits[state] /\ state' = P.next[state][c]
    /\ strIdx' = strIdx + 1
    /\ UNCHANGED <<parser, str, pc, backIdx, backSym, symIdx, result>>

\* The last code used must not reach past where the match of the end begins.
ForwardAccept ==
    /\ pc = "forward"
    /\ \E k \in 0 .. 8 :
          /\ state = Accept(k)
          /\ symIdx' = k
          /\ result' = (strIdx - 1 < backIdx \/ k <= backSym)
    /\ strIdx' = strIdx - 1
    /\ pc' = "done"
    /\ UNCHANGED <<parser, str, state, backIdx, backSym>>

ForwardStop ==
    /\ pc = "forward"
    /\ Real(state)
    /\ ~ForwardGoesOn
    /\ Return(FALSE)

ForwardError ==
    /\ pc = "forward"
    /\ state = Error
    /\ Return(FALSE)

-----------------------------------------------------------------------------
Backward == BackwardBegin \/ BackwardNoSuffix \/ BackwardStep \/ BackwardAccept
            \/ BackwardStop \/ BackwardError

Forward == NoForwardTable \/ ForwardBegin \/ ForwardNoPrefix \/ ForwardStep
           \/ ForwardSkip \/ ForwardLeave \/ ForwardAccept \/ ForwardStop \/ ForwardError

Next == Backward \/ Forward

\* parse runs to its return without waiting for anything.
Spec == Init /\ [][Next]_vars /\ WF_vars(Next)

-----------------------------------------------------------------------------
TypeOK ==
    /\ parser \in DOMAIN Parsers
    /\ str \in Input[parser]
    /\ pc \in {"begin", "backward", "between", "forward", "done"}
    /\ strIdx \in Int
    /\ state \in P.fwd \cup P.bwd \cup Outcomes
    /\ backIdx \in Int
    /\ backSym \in 0 .. 8
    /\ symIdx \in 0 .. 8
    /\ result \in BOOLEAN

\* The forward table is given a part of the string that is not empty and lies
\* inside it.
ForwardPartInside == pc \in {"between", "forward"} => ForwardLen \in 1 .. Len(str)

\* Backwards, at most the byte in front of the string is read: that is the
\* look-ahead for an escape.
ReadsOneByteInFront == (pc = "backward" /\ BackwardGoesOn) => strIdx \in -1 .. Len(str) - 1

\* Forwards, no byte behind the part given is read.
ReadsNothingBehind == (pc = "forward" /\ ForwardGoesOn) => strIdx \in 0 .. ForwardLen - 1

\* No other byte is read, although both loops compare an index that may be
\* negative with unsigned levels, which may be as large as 2^64 - 1.
ReadsNearby == ReadsOneByteInFront /\ ReadsNothingBehind

\* Whatever lies around the string, parse returns what the tables say of it:
\* stopping where the levels allow it, skipping, the look-ahead in front of the
\* string and leaving out what has been matched cost no match and find none.
ReturnsVerdict ==
    (pc = "done" /\ LevelsAreFinite(parser) /\ LevelsAreHonest(P)) => result = Verdict(P, str)

\* parse always returns: each walk comes to the end of the string or leaves
\* its table.
Returns == <>(pc = "done")
=============================================================================
