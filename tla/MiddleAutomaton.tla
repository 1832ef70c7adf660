--------------------------- MODULE MiddleAutomaton ---------------------------
(***************************************************************************)
(* The automaton that finds the first occurrence of a pattern anywhere in  *)
(* the codes that follow (StringPattern::createMiddleAutomaton with its    *)
(* helpers in src/percentage.cpp and src/common.cpp).  It has up to nine   *)
(* starts: starts[k] is entered when k bytes of a symbol are already       *)
(* consumed, and only lives while the automaton in front of it is built.   *)
(*                                                                         *)
(* An automaton is a record: h, own, cache and default of PrefixAutomaton, *)
(* starts (0..8, NULL once unused), and symTo (transitionStates), the root *)
(* each symbol leads to.                                                   *)
(***************************************************************************)
EXTENDS PrefixAutomaton

\* The preamble of createMiddleAutomaton, with TemporaryStarts::get: buffer b
\* gets its transitions and levels cleared and the new state as default.
OpenMiddleAutomaton(h, p, b) ==
    LET withStart == CreateState(h, NULL)
        start == Newest(withStart)
        clear(s, g) == [g EXCEPT !.st[s] = NewState(start)]
    IN  [h |-> FoldSet(clear, withStart, {start} \cup {TempStart(b, k) : k \in 0 .. 7}),
         own |-> {}, default |-> start,
         cache |-> [i \in 1 .. Len(p) |-> NULL],
         starts |-> [k \in 0 .. 8 |-> IF k = 0 THEN start ELSE TempStart(b, k - 1)],
         symTo |-> NoTransitions]

\* connectStartsToSubautomaton: the symbols that end with the first n bytes
\* of the pattern lead to the automaton for the rest of it, sub.
Connect(sub, t, n, symbols) ==
    LET lead(c, b) ==
          [b EXCEPT !.h = AddTransition(@, b.starts[Len(Sym(t, c)) - n], c, sub.root),
                    !.symTo = (c :> sub.root) @@ @]
    IN  IF sub.root = NULL THEN sub.a ELSE FoldSet(lead, sub.a, symbols)

ConnectStarts(a, t, p, ends, n) ==
    LET symbols == FindAllSymbolsWithSuffix(t, p, Len(p) - 1)[n]
        disableCaching == symbols \cap DOMAIN a.symTo # {}
    IN  IF symbols = {} THEN a
        ELSE Connect(ConstructCachedPrefixAutomaton(a, t, p, n + 1, ends, ~disableCaching, NULL),
                     t, n, symbols)

ConnectAllStarts(a, t, p, ends) ==
    LET maxN == IF Len(p) >= 8 THEN 7 ELSE Len(p) - 1
    IN  FoldLeft(LAMBDA b, n : ConnectStarts(b, t, p, ends, n), a, [n \in 1 .. maxN |-> n])

\* A deliberate mistake: a pattern one byte into a symbol is overlooked.
IntegrateSymbolsLate(a, t, p, ends) ==
    LET held == {<<c, k>> \in Codes(t) \X (2 .. 7) : HoldsAt(Sym(t, c), k + 1, p)}
    IN  IF Len(p) > 7 THEN a
        ELSE [a EXCEPT !.h = FoldSet(LAMBDA m, g : AddEndTransition(g, a.starts[m[2]], m[1], m[2] + Len(p), ends),
                                     @, held)]

\* integrateSymbolsContainingPattern: a symbol that holds the whole pattern
\* k bytes in takes the start for k consumed bytes past the pattern.
IntegrateSymbolsContainingPattern(a, t, p, ends) ==
    LET held == {<<c, k>> \in Codes(t) \X (1 .. 7) : HoldsAt(Sym(t, c), k + 1, p)}
    IN  IF Len(p) > 7 THEN a
        ELSE [a EXCEPT !.h = FoldSet(LAMBDA m, g : AddEndTransition(g, a.starts[m[2]], m[1], m[2] + Len(p), ends),
                                     @, held)]

-----------------------------------------------------------------------------
\* shallowCopyAutomaton.  pairs: the pairs <<destination, source>> reached by
\* the same codes; then every destination gets the transitions it lacks.
RECURSIVE PairsReached(_, _, _)
PairsReached(h, own, pairs) ==
    LET next == UNION {{<<h.st[q[1]].tr[c], h.st[q[2]].tr[c]>> :
                            c \in DOMAIN h.st[q[1]].tr \cap DOMAIN h.st[q[2]].tr} :
                        q \in {r \in pairs : r[1] \in own}}
    IN  IF next \subseteq pairs THEN pairs ELSE PairsReached(h, own, pairs \cup next)

ShallowCopyAutomaton(h, destination, source, own) ==
    LET pairs == PairsReached(h, own, {<<destination, source>>})
        lacking(q) == {<<q[1], c, q[2]>> : c \in DOMAIN h.st[q[2]].tr \ DOMAIN h.st[q[1]].tr}
        added == UNION {lacking(q) : q \in {r \in pairs : r[1] \in own}}
    IN  FoldSet(LAMBDA m, g : AddTransition(g, m[1], m[2], h.st[m[3]].tr[m[2]]), h, added)

\* splitStarts, first loop: walking the starts from 8 down to 1, which states
\* after a start must also follow what a later start does on their symbol.
PostStarts(a, desc) ==
    LET visit(acc, k) ==
          LET tr == a.h.st[a.starts[k]].tr
              shared(found, c) ==
                IF c \in DOMAIN acc.symTo /\ tr[c] \notin {m[1] : m \in ToSet(found)}
                THEN Append(found, <<tr[c], acc.symTo[c]>>) ELSE found
          IN  [order |-> FoldLeft(shared, acc.order, Ordered(DOMAIN tr, desc)),
               symTo |-> tr @@ acc.symTo]
    IN  FoldLeft(visit, [order |-> << >>, symTo |-> NoTransitions],
                 [n \in 1 .. 8 |-> 9 - n])

\* A deliberate mistake: only the longest match so far is followed.
SplitStartsNot(a, desc) == a

SplitStarts(a, desc) ==
    LET post == PostStarts(a, desc)
        copied == FoldLeft(LAMBDA g, m : ShallowCopyAutomaton(g, m[1], m[2], a.own), a.h, post.order)
        first == copied.st[a.starts[0]].tr
        symbols == DOMAIN first \cap DOMAIN post.symTo
    IN  [a EXCEPT !.h = FoldLeft(LAMBDA g, c : ShallowCopyAutomaton(g, first[c], post.symTo[c], a.own),
                                 copied, Ordered(symbols, desc))]

\* A deliberate mistake: an escape is skipped, its literal read as a code.
CreateSinkStateNot(a) == a

\* createSinkState
CreateSinkState(a) ==
    LET sink == Create(a)
    IN  IF CanTransition(a.h, a.starts[0], FSST_ESC) THEN a
        ELSE [sink EXCEPT !.h = AddTransition(@, a.starts[0], FSST_ESC, Newest(@))]

\* eraseUnusedStarts
EraseUnusedStarts(a) ==
    [a EXCEPT !.starts = [k \in 0 .. 8 |-> IF k > 0 /\ a.h.st[@[k]].tr = NoTransitions THEN NULL ELSE @[k]]]

\* linkStarts: a start also takes the transitions of the next later start
\* that has one on the symbol.
LinkStarts(a) ==
    LET used == {k \in 0 .. 8 : a.starts[k] # NULL}
        tr(k) == a.h.st[a.starts[k]].tr
        symbols(k) == UNION {DOMAIN tr(j) : j \in {i \in used : i >= k}}
        linked(k) == [c \in symbols(k) |-> tr(Min({j \in used : j >= k /\ c \in DOMAIN tr(j)}))[c]]
    IN  [a EXCEPT !.h = FoldSet(LAMBDA k, g : [g EXCEPT !.st[a.starts[k]].tr = linked(k)], @, used)]

-----------------------------------------------------------------------------
(***************************************************************************)
(* constructFallbackTransitions.  trailing maps a state to the state of    *)
(* the longest match that starts later in the same text: NULL for none,    *)
(* which is also what reading it for an unmapped state yields.             *)
(***************************************************************************)
Trailing(trailing, s) == IF s \in DOMAIN trailing THEN trailing[s] ELSE NULL

RECURSIVE FollowTrailing(_, _, _, _)
FollowTrailing(h, trailing, s, c) ==
    IF s = NULL THEN NULL
    ELSE IF CanTransition(h, s, c) THEN Transition(h, s, c)
    ELSE FollowTrailing(h, trailing, Trailing(trailing, s), c)

\* transitionTrailingState
TransitionTrailingState(h, trailing, source, c, start) ==
    LET followed == FollowTrailing(h, trailing, source, c)
    IN  CASE source = NULL -> IF c = FSST_ESC THEN NULL ELSE start
          [] source # NULL /\ followed # NULL -> followed
          [] OTHER -> h.st[source].def

\* The breadth-first walk: queue holds the states to visit, sorted those
\* visited.  The successors of a state are met in the order of its map.
Meet(own, fallback(_), succ(_), acc, c) ==
    IF succ(c) \in own /\ succ(c) \notin DOMAIN acc.trailing
    THEN [acc EXCEPT !.trailing = (succ(c) :> fallback(c)) @@ @, !.queue = Append(@, succ(c))]
    ELSE acc

RECURSIVE VisitFallbacks(_, _, _)
VisitFallbacks(a, acc, desc) ==
    LET s == Head(acc.queue)
        tr == a.h.st[s].tr
        meet(b, c) ==
          Meet(a.own,
               LAMBDA x : TransitionTrailingState(a.h, b.trailing, b.trailing[s], x, a.starts[0]),
               LAMBDA x : tr[x], b, c)
    IN  IF acc.queue = << >> THEN acc
        ELSE VisitFallbacks(a, FoldLeft(meet, [acc EXCEPT !.queue = Tail(@), !.sorted = Append(@, s)],
                                        Ordered(DOMAIN tr, desc)), desc)

RECURSIVE CopyChain(_, _, _, _)
CopyChain(h, trailing, s, from) ==
    IF from = NULL THEN h
    ELSE CopyChain(CopyTransitions(h, s, from), trailing, s, Trailing(trailing, from))

ConstructFallbackTransitions(a, desc) ==
    LET enter(acc, k) ==
          LET tr == a.h.st[a.starts[k]].tr
              meet(b, c) == Meet(a.own, LAMBDA x : IF x = FSST_ESC THEN NULL ELSE a.starts[0],
                                 LAMBDA x : tr[x], b, c)
          IN  FoldLeft(meet, acc, Ordered(DOMAIN tr, desc))
        entered == FoldLeft(enter, [trailing |-> NoTransitions, queue |-> << >>, sorted |-> << >>],
                            Ordered({k \in 0 .. 8 : a.starts[k] # NULL}, FALSE))
        walk == VisitFallbacks(a, entered, desc)
    IN  \* copyFallbackTransitions, last state of the walk first
        [a EXCEPT !.h = FoldLeft(LAMBDA g, s : CopyChain(g, walk.trailing, s, walk.trailing[s]),
                                 @, Reverse(walk.sorted))]

-----------------------------------------------------------------------------
(***************************************************************************)
(* reverseBreadthFirstSearch: the level of a state is its distance, in     *)
(* codes, to the states outside the automaton plus their own level.        *)
(* members are the states whose levels are set.                            *)
(***************************************************************************)
RECURSIVE Settle(_, _, _)
Settle(h, parents, frontier) ==
    LET level == Min({m[1] : m \in frontier})
        now == {m[2] : m \in {n \in frontier : n[1] = level}}
        rest == {m \in frontier : m[2] \notin now}
        settled == FoldSet(LAMBDA s, g : SetLevel(g, s, level), h, now)
        unsettled == [s \in DOMAIN parents |-> parents[s] \ now]
    IN  IF frontier = {} THEN h
        ELSE Settle(settled, unsettled,
                    rest \cup UNION {{<<level + 1, q>> : q \in unsettled[s]} : s \in now})

ReverseBreadthFirstSearch(a) ==
    LET starts == {a.starts[k] : k \in 0 .. 8} \ {NULL}
        members == starts \cup a.own
        successors(s) == IF a.h.st[s].tr = NoTransitions THEN {a.h.st[s].def}
                         ELSE {a.h.st[s].tr[c] : c \in DOMAIN a.h.st[s].tr}
        parents == [s \in DOMAIN a.h.st |-> {q \in members : s \in successors(q)}]
        ends == UNION {IF a.h.st[q].tr = NoTransitions THEN {} ELSE successors(q) : q \in members} \ a.own
    IN  [a EXCEPT !.h = Settle(@, parents,
                               UNION {{<<Succ(a.h.st[e].lvl), q>> : q \in parents[e]} : e \in ends})]

\* precomputeStartPositions: an unused start stands for the next used one.
PrecomputeStartPositions(a) ==
    LET used == {k \in 1 .. 8 : a.starts[k] # NULL}
        nearest(k) == IF \E j \in used : j >= k THEN Min({j \in used : j >= k}) ELSE 0
    IN  [a EXCEPT !.starts = [k \in 0 .. 8 |-> IF k = 0 THEN @[0] ELSE @[nearest(k)]]]

-----------------------------------------------------------------------------
\* StringPattern::createMiddleAutomaton
CreateMiddleAutomaton(h, t, p, ends, b, desc) ==
    LET opened == OpenMiddleAutomaton(h, p, b)
        connected == ConnectAllStarts(opened, t, p, ends)
        integrated == IntegrateSymbolsContainingPattern(connected, t, p, ends)
        rooted == ConstructCachedPrefixAutomaton(integrated, t, p, 1, ends, FALSE, opened.default).a
        split == SplitStarts(rooted, desc)
        linked == LinkStarts(EraseUnusedStarts(CreateSinkState(split)))
        levelled == ReverseBreadthFirstSearch(ConstructFallbackTransitions(linked, desc))
    IN  PrecomputeStartPositions(levelled)
=============================================================================
