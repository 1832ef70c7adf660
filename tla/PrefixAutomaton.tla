--------------------------- MODULE PrefixAutomaton ---------------------------
(***************************************************************************)
(* The automaton that reads the codes of a text starting with a pattern    *)
(* (src/percentage.cpp, constructPrefixAutomaton and its cached version).  *)
(* Positions in the pattern count from 1; position Len(p) + 1 is its end.  *)
(* ends is the vector precomputedEnds: where the matching goes on after    *)
(* the pattern when 0..8 bytes of the last symbol were used.               *)
(***************************************************************************)
EXTENDS Automaton

NoHop == [code |-> -1, next |-> 0]

\* The switch shared by both constructors: how the bytes of p from position i
\* on can be encoded.  hop is the code (or the escape) that covers some of
\* them, with the position it leads to; ends are the codes whose symbol
\* reaches the end of the pattern, with the number of bytes it uses.
PrefixMoves(t, p, i) ==
    LET remaining == Len(p) - i + 1
        exact == GetExactPrefixMatches(t, p, i)
        escapable == IsEscapable(t, p[i])
        the(S) == CHOOSE c \in S : TRUE
        hop(code, next) == [code |-> code, next |-> next]
        symbol == Sym(t, the(exact[3]))
        fullMatch == /\ exact[3] # {}
                     /\ \A k \in 4 .. Min({Len(symbol), remaining}) : symbol[k] = p[i + k - 1]
        prefixes == {c \in CreatePrefixBitmap(t, p[i]) :
                        Len(Sym(t, c)) >= 2 /\ Sym(t, c)[2] = p[i + 1]}
        shorter == CASE exact[2] # {} -> hop(the(exact[2]), i + 2)
                     [] exact[2] = {} /\ exact[1] # {} -> hop(the(exact[1]), i + 1)
                     [] exact[2] = {} /\ exact[1] = {} /\ escapable -> hop(FSST_ESC, i + 1)
                     [] OTHER -> NoHop
    IN  CASE remaining = 1 ->
               [hop  |-> IF escapable THEN hop(FSST_ESC, i + 1) ELSE NoHop,
                ends |-> {<<c, 1>> : c \in CreatePrefixBitmap(t, p[i])}]
          [] remaining = 2 ->
               [hop  |-> IF exact[2] # {} THEN NoHop
                         ELSE IF escapable THEN hop(FSST_ESC, i + 1)
                         ELSE IF exact[1] # {} THEN hop(the(exact[1]), i + 1) ELSE NoHop,
                ends |-> {<<c, 2>> : c \in prefixes}]
          [] remaining > 2 /\ fullMatch /\ Len(symbol) < remaining ->
               [hop |-> hop(the(exact[3]), i + Len(symbol)), ends |-> {}]
          [] remaining > 2 /\ fullMatch /\ Len(symbol) >= remaining ->
               [hop  |-> IF Len(symbol) = remaining THEN NoHop ELSE shorter,
                ends |-> {<<the(exact[3]), remaining>>}]
          [] OTHER -> [hop |-> shorter, ends |-> {}]

-----------------------------------------------------------------------------
(***************************************************************************)
(* constructPrefixAutomaton: states default to Error and keep their level  *)
(* as they are linked.  Yields the heap and the root, NULL when the text   *)
(* cannot be encoded.                                                      *)
(***************************************************************************)
AddForwardTransition(h, s, c, d) ==
    LowerLevel(AddTransition(h, s, c, d), s, Succ(h.st[d].lvl))

AddForwardEndTransition(h, s, c, k, ends) ==
    LET linked == AddEndTransition(h, s, c, k, ends)
    IN  LowerLevel(linked, s, Succ(linked.st[Transition(linked, s, c)].lvl))

\* The state behind an escape, from which the byte leads on.
EscapeState(h, byte, target) ==
    [h |-> AddForwardTransition(h, Newest(h), byte, target), root |-> Newest(h)]

\* The state in front of sub, which is where the hop leads.
LinkPrefix(sub, moves, byte, ends, start) ==
    LET hopped == IF moves.hop.code = FSST_ESC /\ sub.root # NULL
                  THEN EscapeState(CreateState(sub.h, Error), byte, sub.root) ELSE sub
        h1 == IF start = NULL THEN CreateState(hopped.h, Error) ELSE hopped.h
        root == IF start = NULL THEN Newest(h1) ELSE start
        h2 == IF hopped.root = NULL THEN h1
              ELSE AddForwardTransition(h1, root, moves.hop.code, hopped.root)
    IN  IF hopped.root = NULL /\ moves.ends = {} THEN sub
        ELSE [h |-> FoldSet(LAMBDA e, g : AddForwardEndTransition(g, root, e[1], e[2], ends),
                            h2, moves.ends),
              root |-> root]

RECURSIVE ConstructPrefixAutomaton(_, _, _, _, _, _)
ConstructPrefixAutomaton(h, t, p, i, ends, start) ==
    LET after(hop) == CASE hop = NoHop -> [h |-> h, root |-> NULL]
                        [] hop # NoHop /\ hop.next > Len(p) -> [h |-> h, root |-> ends[0]]
                        [] OTHER -> ConstructPrefixAutomaton(h, t, p, hop.next, ends, NULL)
        construct(moves) == LinkPrefix(after(moves.hop), moves, p[i], ends, start)
    IN  construct(PrefixMoves(t, p, i))

\* StringPattern::createStartAutomaton
CreateStartAutomaton(h, t, p, ends) ==
    LET withStart == CreateState(h, Error)
    IN  SingleStart(ConstructPrefixAutomaton(withStart, t, p, 1, ends, Newest(withStart)).h,
                    Newest(withStart))

-----------------------------------------------------------------------------
(***************************************************************************)
(* The middle automaton under construction: its heap, the states it        *)
(* created (currentStates), the cache of constructCachedPrefixAutomaton    *)
(* (NULL: nothing yet, Error: known impossible) and the default of its     *)
(* states.                                                                 *)
(***************************************************************************)
Create(a) ==
    LET h == CreateState(a.h, a.default)
    IN  [a EXCEPT !.h = h, !.own = @ \cup {Newest(h)}]

\* deepCopyAutomaton: copy the states reachable from source, within those of
\* the automaton, below destination.  pending holds the pairs still to visit.
RECURSIVE DeepCopyAutomaton(_, _, _)
DeepCopyAutomaton(a, pending, mapping) ==
    LET destination == pending[1][1]
        source == pending[1][2]
        copy(acc, c) ==
            LET next == acc.a.h.st[source].tr[c]
                fresh == next \in a.own /\ next \notin DOMAIN acc.mapping
                a1 == IF fresh THEN Create(acc.a) ELSE acc.a
                map1 == IF fresh THEN (next :> Newest(a1.h)) @@ acc.mapping ELSE acc.mapping
                target == IF next \in a.own THEN map1[next] ELSE next
            IN  [a |-> [a1 EXCEPT !.h = AddTransition(@, destination, c, target)],
                 mapping |-> map1,
                 pending |-> IF fresh THEN Append(acc.pending, <<target, next>>) ELSE acc.pending]
        done == FoldLeft(copy, [a |-> a, mapping |-> mapping, pending |-> Tail(pending)],
                         Ordered(DOMAIN a.h.st[source].tr, FALSE))
    IN  IF pending = << >> THEN a
        ELSE DeepCopyAutomaton(done.a, done.pending, done.mapping)

\* A state that is the root of its automaton: a new one unless given.
NewRoot(a) == [a |-> a, root |-> Newest(a.h)]
RootOf(a, start) == IF start = NULL THEN NewRoot(Create(a)) ELSE [a |-> a, root |-> start]

LinkRoot(at, moves, target, ends, i) ==
    LET h == IF target = NULL THEN at.a.h ELSE AddTransition(at.a.h, at.root, moves.hop.code, target)
    IN  [at EXCEPT !.a.h = FoldSet(LAMBDA e, g : AddEndTransition(g, at.root, e[1], e[2], ends), h, moves.ends),
                   !.a.cache[i] = at.root]

\* The automaton in front of sub, which is where the hop leads, through a
\* state of its own behind an escape.
LinkCached(sub, moves, byte, ends, i, start) ==
    LET escape(at) == [at EXCEPT !.a.h = AddTransition(@, at.root, byte, sub.root)]
        hopped == IF moves.hop.code = FSST_ESC /\ sub.root # NULL
                  THEN escape(NewRoot(Create(sub.a))) ELSE sub
    IN  IF sub.root = NULL /\ moves.ends = {} THEN [sub EXCEPT !.a.cache[i] = Error]
        ELSE LinkRoot(RootOf(hopped.a, start), moves, hopped.root, ends, i)

\* constructCachedPrefixAutomaton.  Yields the automaton and the root.
RECURSIVE ConstructCachedPrefixAutomaton(_, _, _, _, _, _, _)
ConstructCachedPrefixAutomaton(a, t, p, i, ends, enableCaching, start) ==
    LET cached == a.cache[i]
        copyInto(at) ==
            [at EXCEPT !.a = [DeepCopyAutomaton(@, << <<at.root, cached>> >>, cached :> at.root)
                              EXCEPT !.cache[i] = at.root]]
        after(hop) ==
            CASE hop = NoHop -> [a |-> a, root |-> NULL]
              [] hop # NoHop /\ hop.next > Len(p) -> [a |-> a, root |-> ends[0]]
              [] OTHER -> ConstructCachedPrefixAutomaton(a, t, p, hop.next, ends, enableCaching, NULL)
        construct(moves) == LinkCached(after(moves.hop), moves, p[i], ends, i, start)
    IN  CASE cached = Error -> [a |-> a, root |-> NULL]
          [] cached \notin {NULL, Error} /\ enableCaching -> [a |-> a, root |-> cached]
          [] cached \notin {NULL, Error} /\ ~enableCaching -> copyInto(RootOf(a, start))
          [] OTHER -> construct(PrefixMoves(t, p, i))
=============================================================================
