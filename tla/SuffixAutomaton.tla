--------------------------- MODULE SuffixAutomaton ---------------------------
(***************************************************************************)
(* The automaton that reads, from the last code backwards, the codes of a  *)
(* text ending with a pattern (src/percentage.cpp, constructSuffixAutomaton *)
(* and initialisePseudoEnds).                                              *)
(***************************************************************************)
EXTENDS Automaton

\* A deliberate mistake: the code in front of the match is not looked at.
InitialisePseudoEndsBlind(h, ends) ==
    LET pseudoEnd(i) == [tr |-> NoTransitions, def |-> ends[i], lvl |-> 0, end |-> i]
    IN  [h    |-> [h EXCEPT !.st = @ \o [n \in 1 .. 8 |-> pseudoEnd(n - 1)]],
         ends |-> [i \in 0 .. 7 |-> Newest(h) + 1 + i]]

\* initialisePseudoEnds: eight states reached once the whole pattern was read
\* i bytes into a symbol.  One more code decides: an escape in front means
\* that the symbol was in truth a literal byte.
InitialisePseudoEnds(h, ends) ==
    LET pseudoEnd(i) == [tr |-> FSST_ESC :> Error, def |-> ends[i], lvl |-> 0, end |-> i]
    IN  [h    |-> [h EXCEPT !.st = @ \o [n \in 1 .. 8 |-> pseudoEnd(n - 1)]],
         ends |-> [i \in 0 .. 7 |-> Newest(h) + 1 + i]]

\* The chain of states for the codes of the whole pattern, last code first.
ChainOfPattern(h, start, out, pseudoEnds) ==
    LET link(acc, idx) ==
          LET next == CreateState(acc.h, Error)
          IN  [h   |-> SetLevel(AddTransition(next, acc.cur, out[idx], Newest(next)), acc.cur, idx),
               cur |-> Newest(next)]
        top == FoldLeft(link, [h |-> h, cur |-> start], [k \in 1 .. Len(out) - 1 |-> Len(out) + 1 - k])
    IN  AddTransition(SetLevel(top.h, top.cur, 1), top.cur, out[1], pseudoEnds[0])

\* A deliberate mistake: branches do not share their states.
BranchOfSuffixAlone(h, start, t, out, n, symbols, pseudoEnds) ==
    LET link(acc, idx) ==
          LET next == CreateState(acc.h, Error)
              h1 == AddTransition(next, acc.cur, out[idx], Newest(next))
          IN  [h |-> LowerLevel(h1, acc.cur, idx + 1), cur |-> Transition(h1, acc.cur, out[idx])]
        top == FoldLeft(link, [h |-> h, cur |-> start], [k \in 1 .. Len(out) |-> Len(out) + 1 - k])
    IN  FoldSet(LAMBDA c, g : AddTransition(g, top.cur, c, pseudoEnds[Len(Sym(t, c)) - n]),
                SetLevel(top.h, top.cur, 1), symbols)

\* The branch for the codes of the pattern without its first n bytes, last
\* code first, then one of the symbols that end with those n bytes.
BranchOfSuffix(h, start, t, out, n, symbols, pseudoEnds) ==
    LET link(acc, idx) ==
          LET h1 == IF CanTransition(acc.h, acc.cur, out[idx]) THEN acc.h
                    ELSE LET next == CreateState(acc.h, Error)
                         IN  AddTransition(next, acc.cur, out[idx], Newest(next))
          IN  [h   |-> LowerLevel(h1, acc.cur, idx + 1),
               cur |-> Transition(h1, acc.cur, out[idx])]
        top == FoldLeft(link, [h |-> h, cur |-> start], [k \in 1 .. Len(out) |-> Len(out) + 1 - k])
    IN  FoldSet(LAMBDA c, g : AddTransition(g, top.cur, c, pseudoEnds[Len(Sym(t, c)) - n]),
                SetLevel(top.h, top.cur, 1), symbols)

\* constructSuffixAutomaton
ConstructSuffixAutomaton(h, t, p, pseudoEnds, start) ==
    LET out == Encode(t, p)
        maxN == IF Len(p) >= 8 THEN 7 ELSE Len(p)
        suffixesStarts == FindAllSymbolsWithSuffix(t, p, maxN)
        chain == IF IsEncodingValid(t, out) THEN ChainOfPattern(h, start, out, pseudoEnds) ELSE h
        branch(g, n) ==
          LET rest == Encode(t, SubSeq(p, n + 1, Len(p)))
          IN  IF suffixesStarts[n] = {} \/ ~IsEncodingValid(t, rest) THEN g
              ELSE BranchOfSuffix(g, start, t, rest, n, suffixesStarts[n], pseudoEnds)
    IN  FoldLeft(branch, chain, [n \in 1 .. maxN |-> n])

\* StringPattern::createEndAutomaton
CreateEndAutomaton(h, t, p, ends) ==
    LET withStart == CreateState(h, Error)
        start == Newest(withStart)
        pseudo == InitialisePseudoEnds(withStart, ends)
    IN  SingleStart(ConstructSuffixAutomaton(pseudo.h, t, p, pseudo.ends, start), start)
=============================================================================
