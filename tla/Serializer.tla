----------------------------- MODULE Serializer -----------------------------
(***************************************************************************)
(* How the server sends an automaton to the browser: src/serializer.cpp,   *)
(* and the automata fa-drawing/server.cpp builds for it.                   *)
(*                                                                         *)
(* A stream is a sequence of fields, each with its width w in bytes, 1 or  *)
(* 8, and its value v.  A pointer is the number of its state.              *)
(***************************************************************************)
EXTENDS LikeAutomaton

NoEndByte == 255

Byte(v) == <<[w |-> 1, v |-> v]>>
Word(v) == <<[w |-> 8, v |-> v]>>
Join(streams) == FlattenSeq(streams)
Ascending(S) == Ordered(S, FALSE)

-----------------------------------------------------------------------------
(***************************************************************************)
(* What the server serialises: an automaton and, of its states, those it   *)
(* keeps in a deque, in the order of their creation.  The nodes that a     *)
(* sub-automaton is drawn with are those of InitialHeap: nine ends of its  *)
(* own, an error node, and the eight starts of the middle.                 *)
(***************************************************************************)

\* serializeSingleStartFiniteAutomata
SingleStartAutomaton(t, p, start) ==
    IF start THEN CreateStartAutomaton(InitialHeap, t, p, AcceptEnds)
    ELSE CreateEndAutomaton(InitialHeap, t, p, AcceptEnds)
SingleStates(a) == Ascending(a.start + 1 .. Newest(a.h))

\* serializeMultipleStartsFiniteAutomaton
MultipleStartsAutomaton(t, p, desc) == CreateMiddleAutomaton(InitialHeap, t, p, AcceptEnds, 0, desc)
MiddleStates(a) == <<a.default>> \o Ascending(a.own)

\* generateFullAutomaton: startMatch and endMatch, here with their start state
\* in front, and middleMatches in the order of emplace_back: the last part first.
FullAutomaton(t, p, desc) == Build(t, SplitIntoSubpatterns(p), desc)
StartMatch(b) == IF b.hasStart THEN <<Ascending(b.start.start .. Newest(b.h))>> ELSE << >>
EndMatch(b) == IF b.hasEnd THEN <<Ascending(b.end.start .. b.boundary)>> ELSE << >>
MiddleMatches(b) ==
    Reverse([n \in 1 .. Len(b.middles) |-> <<b.middles[n].start>> \o Ascending(b.middles[n].own)])

-----------------------------------------------------------------------------
(* Symbol tables and states.                                               *)

\* A symbol that is only zero bytes is written with the length 0.
SerializeSymbolTable(t) ==
    LET text(w) == IF ToSet(w) = {0} THEN << >> ELSE w
        symbol(w) == Byte(Len(w)) \o Join([i \in DOMAIN w |-> Byte(w[i])])
    IN  Byte(Len(t.sym)) \o Join([c \in DOMAIN t.sym |-> symbol(text(t.sym[c]))])

SerializeStateWithoutTransitions(h, s) ==
    Word(s) \o Word(h.st[s].lvl) \o Byte(IF h.st[s].end = NoEnd THEN NoEndByte ELSE h.st[s].end)

SerializeStateWithoutDefaultTransition(h, s, desc) ==
    LET symbols == Ordered(DOMAIN h.st[s].tr, desc)
        transition(c) == Byte(c) \o Word(h.st[s].tr[c])
    IN  SerializeStateWithoutTransitions(h, s) \o Word(Len(symbols))
        \o Join([i \in DOMAIN symbols |-> transition(symbols[i])])

SerializeStateFull(h, s, desc) ==
    SerializeStateWithoutDefaultTransition(h, s, desc) \o Word(h.st[s].def)

SerializeStates(h, states, desc) ==
    Word(Len(states)) \o Join([i \in DOMAIN states |-> SerializeStateFull(h, states[i], desc)])

SerializeErrorAndEnds(h) ==
    SerializeStateWithoutTransitions(h, Error) \o Word(9)
    \o Join([k \in 1 .. 9 |-> SerializeStateWithoutTransitions(h, Accept(k - 1))])

-----------------------------------------------------------------------------
(* Deliberate mistakes, each of which one of the properties must reveal.   *)

\* The starts are counted as if each had a state of its own.
StartsOfEach(a) == <<a.starts[0]>> \o [k \in 1 .. 7 |-> a.starts[k]]

\* The middle automata are taken to be in the order of the pattern.
ForwardMatchesOfPattern(a) == StartMatch(a) \o Reverse(MiddleMatches(a))

-----------------------------------------------------------------------------
(* The three serializers.                                                  *)

\* SingleStartFiniteAutomataSerializer::serialize
SerializeSingle(a, t, desc) ==
    SerializeSymbolTable(t) \o SerializeStateFull(a.h, a.start, desc)
    \o SerializeErrorAndEnds(a.h) \o SerializeStates(a.h, SingleStates(a), desc)

\* A start stands in the array for every number of bytes up to its own: only
\* the last place of each run is written.
Starts(a) ==
    LET last == {k \in 1 .. 7 : a.starts[k] # a.starts[k + 1]}
        places == Ascending(last)
    IN  <<a.starts[0]>> \o [i \in DOMAIN places |-> a.starts[places[i]]]

\* MultipleStartsFiniteAutomataSerializer::serialize
SerializeMultiple(a, t, desc) ==
    LET starts == Starts(a)
        states == SelectSeq(MiddleStates(a), LAMBDA s : s # a.starts[0])
    IN  SerializeSymbolTable(t) \o SerializeStates(a.h, starts, desc)
        \o SerializeErrorAndEnds(a.h) \o SerializeStates(a.h, states, desc)

ForwardMatches(a) == StartMatch(a) \o MiddleMatches(a)

\* LikePatternAutomatonSerializer::serialize
SerializeFull(a, t, desc) ==
    LET matches(sequence) ==
          Word(Len(sequence)) \o Join([n \in DOMAIN sequence |-> SerializeStates(a.h, sequence[n], desc)])
    IN  SerializeSymbolTable(t) \o SerializeStateFull(a.h, Error, desc)
        \o SerializeStates(a.h, [k \in 1 .. 9 |-> Accept(k - 1)], desc)
        \o matches(ForwardMatches(a)) \o matches(EndMatch(a))
=============================================================================
