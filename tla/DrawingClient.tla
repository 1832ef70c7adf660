---------------------------- MODULE DrawingClient ----------------------------
(***************************************************************************)
(* How the browser reads an automaton and decides what to draw of it:      *)
(* fa-drawing/app.js.                                                      *)
(*                                                                         *)
(* A view is a stream of fields as in Serializer.  An offset is the        *)
(* position of a field, which is that of a byte as long as every field is  *)
(* read in the width that it was written in; what is read otherwise, or    *)
(* behind the end, is Misread.  A state has the name it is drawn with; a   *)
(* destination is a name too, once the pointers are translated.            *)
(***************************************************************************)
EXTENDS Integers, Sequences, SequencesExt, FiniteSets, FiniteSetsExt, TLC

ESC == 255
NotPseudo == 255
Misread == -1

Named(letter, i) == <<letter, i>>
ErrName == Named("ERR", 0)
Null == Named("null", 0)
Undefined == Named("undefined", 0)
Pointer(p) == Named("pointer", p)

-----------------------------------------------------------------------------
(* Reading.                                                                *)

\* getUint8 and readUint64
Read(view, off, w) == IF off \in DOMAIN view /\ view[off].w = w THEN view[off].v ELSE Misread

\* SymbolTable.deserialize: the symbols, and the offset behind them.
ReadSymbolTable(view, off) ==
    LET symbol(acc, i) ==
          LET len == Read(view, acc.off, 1)
          IN  [symbols |-> Append(acc.symbols, [k \in 1 .. len |-> Read(view, acc.off + k, 1)]),
               off |-> acc.off + 1 + len]
    IN  FoldLeft(symbol, [symbols |-> << >>, off |-> off + 1], [i \in 1 .. Read(view, off, 1) |-> i])

\* deserializeWithoutTransitions
ReadStateWithoutTransitions(view, off, name) ==
    [state |-> [name |-> name, ptr |-> Read(view, off, 8), level |-> Read(view, off + 1, 8),
                end |-> Read(view, off + 2, 1), tr |-> << >>, def |-> Null],
     off   |-> off + 3]

\* deserializeWithoutDefaultTransition and deserializeFull
ReadStateFull(view, off, name) ==
    LET head == ReadStateWithoutTransitions(view, off, name)
        n == Read(view, head.off, 8)
        behind == head.off + 1 + 2 * n
        symbol(i) == Read(view, head.off + 2 * i - 1, 1)
        dest(i) == Pointer(Read(view, head.off + 2 * i, 8))
        add(tr, i) == (symbol(i) :> dest(i)) @@ tr
    IN  [state |-> [head.state EXCEPT !.tr = FoldLeft(add, << >>, [i \in 1 .. n |-> i]),
                                      !.def = Pointer(Read(view, behind, 8))],
         off   |-> behind + 1]

\* A list of states behind its length, with their transitions or without; the
\* first is called letter and first.
ReadStates(view, off, letter, first, full) ==
    LET next(acc, i) ==
          LET name == Named(letter, first + i - 1)
              read == IF full THEN ReadStateFull(view, acc.off, name)
                      ELSE ReadStateWithoutTransitions(view, acc.off, name)
          IN  [states |-> Append(acc.states, read.state), off |-> read.off]
    IN  FoldLeft(next, [states |-> << >>, off |-> off + 1], [i \in 1 .. Read(view, off, 8) |-> i])

-----------------------------------------------------------------------------
(* Translating pointers, and what can be reached.                          *)

\* A later state with the same pointer replaces an earlier one.
Translations(states) ==
    FoldLeft(LAMBDA names, s : (s.ptr :> s.name) @@ names, << >>, states)

\* translatePointers: a destination without a name becomes undefined, a
\* default without one stays as it is.
Translate(states, names) ==
    LET destination(d) == IF d[2] \in DOMAIN names THEN names[d[2]] ELSE Undefined
        default(d) == IF d[1] = "pointer" /\ d[2] \in DOMAIN names THEN names[d[2]] ELSE d
    IN  [i \in DOMAIN states |->
            [states[i] EXCEPT !.tr = [c \in DOMAIN @ |-> destination(@[c])], !.def = default(@)]]

\* A deliberate mistake: the default of a state is not followed.
FollowsTransitions(state) == {state.tr[c] : c \in DOMAIN state.tr}

\* bfs: the names that can be reached from some; null pointers are not followed.
Follows(state) ==
    {state.tr[c] : c \in DOMAIN state.tr} \cup ({state.def} \ {Null, Pointer(0)})
RECURSIVE Visit(_, _)
Visit(states, visited) ==
    LET next == UNION {Follows(states[i]) : i \in {j \in DOMAIN states : states[j].name \in visited}}
    IN  IF next \subseteq visited THEN visited ELSE Visit(states, visited \cup next)

\* The names that bfs notes of a state with an escape: forwards its
\* destination, where a literal is read; backwards the state itself, which
\* was entered with what may be a literal.
Escapes(states, visited) ==
    {i \in DOMAIN states : states[i].name \in visited /\ ESC \in DOMAIN states[i].tr}
EscapedForward(states, visited) == {states[i].tr[ESC] : i \in Escapes(states, visited)}
EscapedBackward(states, visited) == {states[i].name : i \in Escapes(states, visited)}

-----------------------------------------------------------------------------
(***************************************************************************)
(* The three deserializers.  all are the states that were read, off the    *)
(* offset behind the last field, and the rest what the drawing consists    *)
(* of: eraseRedundant keeps the states that can be reached, getDrawnStates *)
(* draws destinations and starts with transitions, and a triple border is  *)
(* drawn around the pseudo ends.                                           *)
(***************************************************************************)
Drawing(off, states, accepts, error, names, fwd, bwd) ==
    LET translated == Translate(states, names)
        ends == Translate(accepts, names)
        all == translated \o ends \o <<error>>
        visitedFwd == IF fwd = {} THEN {} ELSE Visit(all, fwd)
        visitedBwd == IF bwd = {} THEN {} ELSE Visit(all, bwd)
        visited == visitedFwd \cup visitedBwd
        kept == SelectSeq(translated, LAMBDA s : s.name \in visited)
        starts == SelectSeq(kept, LAMBDA s : s.name \in fwd \cup bwd /\ s.tr # << >>)
    IN  [off |-> off, states |-> kept, starts |-> fwd \cup bwd,
         accepts |-> SelectSeq(ends, LAMBDA s : s.name \in visited),
         drawn |-> {s.name : s \in ToSet(starts)} \cup UNION {{s.tr[c] : c \in DOMAIN s.tr} : s \in ToSet(kept)},
         escapedForward |-> EscapedForward(all, visitedFwd),
         escapedBackward |-> EscapedBackward(all, visitedBwd),
         pseudoEnds |-> {s.name : s \in ToSet(SelectSeq(kept, LAMBDA s : s.end # NotPseudo))}]

\* deserializeSingleStart
DeserializeSingleStart(view, forward) ==
    LET table == ReadSymbolTable(view, 1)
        start == ReadStateFull(view, table.off, Named("S", 0))
        error == ReadStateWithoutTransitions(view, start.off, ErrName)
        accepts == ReadStates(view, error.off, "E", 0, FALSE)
        inner == ReadStates(view, accepts.off, "q", 0, TRUE)
        states == <<start.state>> \o inner.states
        entry == {Named("S", 0)}
    IN  [symbols |-> table.symbols]
        @@ Drawing(inner.off, states, accepts.states, [error.state EXCEPT !.def = ErrName],
                   Translations(<<start.state, error.state>> \o accepts.states \o inner.states),
                   IF forward THEN entry ELSE {}, IF forward THEN {} ELSE entry)

\* deserializeMultipleStarts: starts without transitions are dropped.
DeserializeMultipleStarts(view) ==
    LET table == ReadSymbolTable(view, 1)
        starts == ReadStates(view, table.off, "S", 0, TRUE)
        error == ReadStateWithoutTransitions(view, starts.off, ErrName)
        accepts == ReadStates(view, error.off, "E", 0, FALSE)
        inner == ReadStates(view, accepts.off, "q", 0, TRUE)
        kept == SelectSeq(starts.states, LAMBDA s : s.tr # << >>)
    IN  [symbols |-> table.symbols, pseudoEnds |-> {}]
        @@ Drawing(inner.off, kept \o inner.states, accepts.states, error.state,
                   Translations(kept \o <<error.state>> \o accepts.states \o inner.states),
                   {s.name : s \in ToSet(kept)}, {})

\* The automata of one direction behind those of the others that were read,
\* their states numbered through; its entry is the first state of the last.
ReadAutomata(view, others) ==
    LET next(acc, i) ==
          LET read == ReadStates(view, acc.off, "q", Len(acc.states), TRUE)
          IN  [states |-> acc.states \o read.states, off |-> read.off,
               entries |-> Append(Front(acc.entries), {s.name : s \in ToSet(SubSeq(read.states, 1, 1))})]
    IN  FoldLeft(next, [others EXCEPT !.off = @ + 1, !.entries = Append(@, {})],
                 [i \in 1 .. Read(view, others.off, 8) |-> i])

\* deserializeFullAutomaton: drawn are what the first states of the last
\* forward automaton and of the backward automaton reach.
DeserializeFullAutomaton(view) ==
    LET table == ReadSymbolTable(view, 1)
        error == ReadStateFull(view, table.off, ErrName)
        accepts == ReadStates(view, error.off, "E", 0, TRUE)
        noDefault == [i \in DOMAIN accepts.states |-> [accepts.states[i] EXCEPT !.def = Null]]
        directions == FoldLeft(LAMBDA read, direction : ReadAutomata(view, read),
                               [states |-> << >>, off |-> accepts.off, entries |-> << >>],
                               <<"forward", "backward">>)
    IN  [symbols |-> table.symbols]
        @@ Drawing(directions.off, directions.states, noDefault, error.state,
                   Translations(<<error.state>> \o accepts.states \o directions.states),
                   directions.entries[1], directions.entries[2])

-----------------------------------------------------------------------------
\* drawAutomaton: what the label of the transition of a state on byte c says:
\* a literal, a code, either of them, or the escape.
Label(d, state, c) ==
    LET dest == state.tr[c]
    IN  CASE dest \in d.escapedBackward /\ dest \in d.pseudoEnds -> "either"
          [] dest \in d.escapedBackward /\ dest \notin d.pseudoEnds -> "literal"
          [] dest \notin d.escapedBackward /\ state.name \in d.escapedForward -> "literal"
          [] OTHER -> IF c = ESC THEN "escape" ELSE "code"
=============================================================================
