------------------------------- MODULE Drawing -------------------------------
(***************************************************************************)
(* A request for a drawing: the server builds the automaton of a pattern   *)
(* and serialises it (Serializer), the browser reads it and decides what   *)
(* of it to draw (DrawingClient).  The connection between them is          *)
(* DrawingServer; here the answer arrives.                                 *)
(***************************************************************************)
EXTENDS Serializer

CONSTANTS
    Drawings,  \* the requests: records of a type, a table, a pattern and
               \* desc, the order in which hash maps are walked
    Automata   \* AutomatonOf: as a constant it is built once

Client == INSTANCE DrawingClient

\* handleGenerateEndpoint: the automaton of the type that the form asks for.
AutomatonOf ==
    [r \in Drawings |->
        CASE r.type = "full" -> FullAutomaton(r.table, r.pattern, r.desc)
          [] r.type = "middle" -> MultipleStartsAutomaton(r.table, r.pattern, r.desc)
          [] OTHER -> SingleStartAutomaton(r.table, r.pattern, r.type = "start")]

ASSUME DrawingsAssumption ==
    /\ Automata = AutomatonOf
    /\ \A r \in Drawings :
          /\ r.type \in {"start", "middle", "end", "full"}
          /\ WellFormedTable(r.table)
          /\ r.type = "full" => Implemented(SplitIntoSubpatterns(r.pattern))

VARIABLES
    request,    \* the form of the page
    pc,         \* "fetch", "built", "sent", "drawn"
    automaton,  \* what the server has built,
    view,       \* the response,
    drawing     \* and what the page has made of it

vars == <<request, pc, automaton, view, drawing>>

Nothing == [none |-> TRUE]

Init ==
    /\ request \in Drawings
    /\ pc = "fetch"
    /\ automaton = Nothing /\ view = << >> /\ drawing = Nothing

\* The server builds it
BuildAutomaton ==
    /\ pc = "fetch"
    /\ automaton' = Automata[request]
    /\ pc' = "built"
    /\ UNCHANGED <<request, view, drawing>>

\* and serialises it.
Serialize ==
    /\ pc = "built"
    /\ view' = CASE request.type = "full" -> SerializeFull(automaton, request.table, request.desc)
                 [] request.type = "middle" -> SerializeMultiple(automaton, request.table, request.desc)
                 [] OTHER -> SerializeSingle(automaton, request.table, request.desc)
    /\ pc' = "sent"
    /\ UNCHANGED <<request, automaton, drawing>>

\* fetchAndDraw
FetchAndDraw ==
    /\ pc = "sent"
    /\ drawing' = CASE request.type = "full" -> Client!DeserializeFullAutomaton(view)
                    [] request.type = "middle" -> Client!DeserializeMultipleStarts(view)
                    [] OTHER -> Client!DeserializeSingleStart(view, request.type = "start")
    /\ pc' = "drawn"
    /\ UNCHANGED <<request, automaton, view>>

Next == BuildAutomaton \/ Serialize \/ FetchAndDraw

Spec == Init /\ [][Next]_vars

-----------------------------------------------------------------------------
(* Properties.                                                             *)

\* Where the matching of the strings begins: the start, or every start that
\* a part in front can enter the middle at; of a full pattern the start part,
\* without one the first part, and the end part.
Entries ==
    CASE request.type = "full" ->
            LET forward == StartMatch(automaton) \o Reverse(MiddleMatches(automaton))
            IN  {forward[n][1] : n \in DOMAIN forward \cap {1}} \cup {m[1] : m \in ToSet(EndMatch(automaton))}
      [] request.type = "middle" ->
            {s \in {automaton.starts[k] : k \in 0 .. 8} : automaton.h.st[s].tr # NoTransitions}
      [] OTHER -> {automaton.start}

Kept == ToSet(drawing.states)
Ends == ToSet(drawing.accepts)
Pointers(names) == {s.ptr : s \in {t \in Kept : t.name \in names}}

\* The states that some states of the server's automaton lead to.
RECURSIVE Reached(_)
Reached(states) ==
    LET node(s) == automaton.h.st[s]
        next == UNION {{node(s).tr[c] : c \in DOMAIN node(s).tr} \cup {node(s).def} : s \in states \ Accepts}
    IN  IF next \ {NULL} \subseteq states THEN states ELSE Reached(states \cup (next \ {NULL}))

\* The name a state of the server is drawn with.
NameOf(s) ==
    IF s = Error THEN Client!ErrName
    ELSE LET named == {t.name : t \in {u \in Kept \cup Ends : u.ptr = s}}
         IN  IF Cardinality(named) = 1 THEN CHOOSE n \in named : TRUE ELSE Client!Undefined

\* Writer and reader are two programs in two languages, which agree on the
\* order and the width of every field and on what a pointer is worth: the
\* browser reads the response to its end, and what it keeps is the automaton
\* that its starts lead to, each state once, with the level, end, transitions
\* and default it has on the server, none of them dangling.
DrawsWhatWasSent ==
    pc = "drawn" =>
        /\ drawing.off = Len(view) + 1
        /\ drawing.symbols = request.table.sym
        /\ {s.ptr : s \in Kept \cup Ends} = Reached(Pointers(drawing.starts)) \ {Error}
        /\ \A s \in Kept :
              LET state == automaton.h.st[s.ptr]
              IN  /\ s.name = NameOf(s.ptr) /\ s.name # Client!Undefined
                  /\ s.level = state.lvl
                  /\ s.end = (IF state.end = NoEnd THEN NoEndByte ELSE state.end)
                  /\ DOMAIN s.tr = DOMAIN state.tr
                  /\ \A c \in DOMAIN s.tr : s.tr[c] = NameOf(state.tr[c]) /\ s.tr[c] # Client!Undefined
                  /\ s.def = NameOf(state.def) /\ s.def # Client!Undefined

StartBesidesMiddles == request.type = "full" /\ automaton.hasStart /\ automaton.middles # << >>

\* Nothing of the automaton is lost: the drawing begins where the matching
\* does.  The serializer recognises the starts of a middle automaton by their
\* neighbours in an array, and the browser drops those without transitions
\* and takes the last forward automaton that it reads for the first one.  A
\* full pattern with a start part and others behind it is the exception below.
EntriesAreDrawn ==
    (pc = "drawn" /\ ~StartBesidesMiddles) => Pointers(drawing.starts) = Entries

\* What the documentation says of the drawing of a full pattern.
FullPatternIsDrawn ==
    (pc = "drawn" /\ request.type = "full") => Pointers(drawing.starts) = Entries

\* What c, read at s, is in truth.  Forwards that depends on what s was entered
\* with: a state entered by escapes and by codes would read either ("mixed").
ReadForward(s, c) ==
    LET entries == UNION {{b \in DOMAIN t.tr : t.tr[b] = s.name} : t \in Kept}
    IN  CASE entries = {FSST_ESC} -> "literal"
          [] FSST_ESC \notin entries -> IF c = FSST_ESC THEN "escape" ELSE "code"
          [] OTHER -> "mixed"

\* Backwards it depends on the code in front, which the next state reads: one
\* that insists on an escape has read a literal; a pseudo end is still to see,
\* and refuses the escape.
ReadBackward(s, c) ==
    LET next == automaton.h.st[CHOOSE q \in DOMAIN automaton.h.st : NameOf(q) = s.tr[c]]
    IN  CASE next.end # NoEnd ->
                IF next.tr = (FSST_ESC :> Error) /\ next.def \in Accepts THEN "either" ELSE "mixed"
          [] next.end = NoEnd /\ FSST_ESC \in DOMAIN next.tr ->
                IF DOMAIN next.tr = {FSST_ESC} /\ next.def = Error THEN "literal" ELSE "mixed"
          [] OTHER -> IF c = FSST_ESC THEN "escape" ELSE "code"

Backward ==
    CASE request.type = "full" -> UNION {ToSet(m) : m \in ToSet(EndMatch(automaton))}
      [] request.type = "end" -> DOMAIN automaton.h.st
      [] OTHER -> {}

\* A byte of a compressed string is a code or, behind an escape, a literal, and
\* the page must print one or the other.  It works that out from the escapes
\* alone that its search happens to pass; the constructors never heard of it.
LabelsMeanTheBytes ==
    pc = "drawn" =>
        \A s \in Kept : \A c \in DOMAIN s.tr :
            Client!Label(drawing, s, c) =
                (IF s.ptr \in Backward THEN ReadBackward(s, c) ELSE ReadForward(s, c))
=============================================================================
