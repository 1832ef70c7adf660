---------------------------- MODULE LikeAutomaton ----------------------------
(***************************************************************************)
(* The automata of a whole LIKE pattern and the tables that the parser     *)
(* walks (src/like_pattern_automaton.cpp, build and the constructors of    *)
(* LikePatternAutomatonParser and AutomatonTable).                         *)
(***************************************************************************)
EXTENDS MiddleAutomaton, SuffixAutomaton, LikePattern

\* The ends every automaton in front of "match found" is built against.
AcceptEnds == [k \in 0 .. 8 |-> Accept(k)]

\* build: the middle automata, last part first; each is the ends of the one
\* in front of it.  TemporaryStarts hands out its two buffers in turn.
BuildMiddles(h, t, texts, desc) ==
    LET prepend(acc, a) ==
          [h |-> a.h, ends |-> a.starts, middles |-> <<[start |-> a.default, own |-> a.own]>> \o acc.middles]
        add(acc, p) ==
          prepend(acc, CreateMiddleAutomaton(acc.h, t, p, acc.ends, Len(acc.middles) % 2, desc))
    IN  FoldLeft(add, [h |-> h, ends |-> AcceptEnds, middles |-> << >>], Reverse(texts))

NoFix == [start |-> NULL, det |-> [path |-> << >>, actual |-> NULL, skipped |-> {}]]

\* LikePatternAutomaton::build, for a pattern cut into parts: the end first,
\* then the middles, then the start.
BuildEnd(t, parts) ==
    IF parts.end = Null THEN [h |-> InitialHeap] @@ NoFix
    ELSE CreateEndAutomaton(InitialHeap, t, parts.end.text, AcceptEnds)

BuildStart(t, parts, middle) ==
    IF parts.start = Null THEN [h |-> middle.h] @@ NoFix
    ELSE CreateStartAutomaton(middle.h, t, parts.start.text, middle.ends)

\* Accept states end up defaulting to the first of them.
Assemble(parts, end, middle, start) ==
    [h |-> FoldSet(LAMBDA s, g : [g EXCEPT !.st[s].def = Accept(0)], start.h, Accepts),
     hasStart |-> parts.start # Null, hasEnd |-> parts.end # Null,
     start |-> start, end |-> end, middles |-> middle.middles, boundary |-> Newest(end.h)]

Build(t, parts, desc) ==
    LET texts == [n \in 1 .. Len(parts.middle) |-> parts.middle[n].text]
        withMiddle(end, middle) == Assemble(parts, end, middle, BuildStart(t, parts, middle))
        withEnd(end) == withMiddle(end, BuildMiddles(end.h, t, texts, desc))
    IN  withEnd(BuildEnd(t, parts))

-----------------------------------------------------------------------------
(***************************************************************************)
(* The tables.  The states the parser numbers are those the automata own,  *)
(* less the ones the fixed path skips.                                     *)
(***************************************************************************)
ForwardStates(b) ==
    LET prefix == {s \in b.boundary + 1 .. Newest(b.h) : b.hasStart /\ s >= b.start.start}
    IN  (prefix \ b.start.det.skipped)
        \cup UNION {{b.middles[n].start} \cup b.middles[n].own : n \in 1 .. Len(b.middles)}

BackwardStates(b) ==
    IF b.hasEnd THEN (b.end.start .. b.boundary) \ b.end.det.skipped ELSE {}

\* LikePatternAutomatonParser: what parse reads, over the bytes given.  The
\* rows of AutomatonTable keep the successor of a state on each byte; the
\* middle starts also keep the set of bytes they have a transition for.
Parser(b, bytes) ==
    LET forward == b.hasStart \/ b.middles # << >>
        real == ForwardStates(b) \cup BackwardStates(b)
    IN  [forward   |-> forward,
         backward  |-> b.hasEnd,
         fwd       |-> ForwardStates(b),
         bwd       |-> BackwardStates(b),
         fwdStart  |-> IF b.hasStart THEN b.start.det.actual
                       ELSE IF forward THEN b.middles[1].start ELSE NULL,
         fwdFix    |-> b.start.det.path,
         bwdStart  |-> b.end.det.actual,
         bwdFix    |-> Reverse(b.end.det.path),
         skipping  |-> {b.middles[n].start : n \in 1 .. Len(b.middles)},
         next      |-> [s \in real |-> [c \in bytes |-> Transition(b.h, s, c)]],
         bits      |-> [s \in real |-> DOMAIN b.h.st[s].tr],
         level     |-> [s \in real |-> b.h.st[s].lvl],
         pseudo    |-> [s \in real |-> b.h.st[s].end],
         clash     |-> b.h.clash]

\* gatherForwardParams, gatherBackwardsParams: the lengths that the generated
\* matchers ask of a string are the levels of the start states, also of those
\* that the fixed path skips.
MinLengths(b) ==
    LET forward == IF b.hasStart THEN b.start.start ELSE b.middles[1].start
    IN  [fwdMin |-> IF b.hasStart \/ b.middles # << >> THEN b.h.st[forward].lvl ELSE 0,
         bwdMin |-> IF b.hasEnd THEN b.h.st[b.end.start].lvl ELSE 0]
=============================================================================
