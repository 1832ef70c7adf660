------------------------------ MODULE Automaton ------------------------------
(***************************************************************************)
(* The states of the finite automata and the operations of                 *)
(* src/automata.cpp on them.                                               *)
(*                                                                         *)
(* A State* is a natural number: an index into the sequence h.st of the    *)
(* states that exist, or NULL.  A state has its explicit transitions (tr,  *)
(* a function on the symbols it has one for), its default transition, its  *)
(* level and, in the end automaton, its endIdx.  h.clash records that      *)
(* addTransition met a symbol that had a transition already: the code      *)
(* asserts that this does not happen, and overwrites when assertions are   *)
(* compiled out.                                                           *)
(***************************************************************************)
EXTENDS Outcomes, Fsst, SequencesExt, TLC

NULL == 0

\* Levels are 64-bit unsigned numbers, computed modulo LevelRange.
LevelMax == LevelRange - 1
Succ(level) == Wrapped(level + 1)

\* The states every automaton shares are the first ones: the error state, the
\* nine accept states, and the two buffers of eight temporary starts.
ASSUME NumbersAssumption == Error = 1 /\ AcceptBase = 2 /\ NoEnd = -1 /\ LevelRange \in Nat
TempStart(b, k) == 11 + 8 * b + k
TempStarts == {TempStart(b, k) : b \in {0, 1}, k \in 0 .. 7}

NoTransitions == << >>
NewState(default) == [tr |-> NoTransitions, def |-> default, lvl |-> LevelMax, end |-> NoEnd]

\* LikePatternAutomaton::build before any sub-automaton exists: the error
\* state has no default, an accept or temporary state is its own default,
\* and accept states are at level 0.
InitialHeap ==
    [st    |-> <<NewState(NULL)>>
               \o [n \in 1 .. 9 |-> [NewState(Accept(n - 1)) EXCEPT !.lvl = 0]]
               \o [n \in 1 .. 16 |-> NewState(10 + n)],
     clash |-> FALSE]

-----------------------------------------------------------------------------
CanTransition(h, s, c) == c \in DOMAIN h.st[s].tr

\* State::transition
Transition(h, s, c) == IF CanTransition(h, s, c) THEN h.st[s].tr[c] ELSE h.st[s].def

\* State::addTransition
AddTransition(h, s, c, d) ==
    [st    |-> [h.st EXCEPT ![s].tr = (c :> d) @@ @],
     clash |-> h.clash \/ CanTransition(h, s, c)]

\* A deliberate mistake: the start of the next automaton itself, which only
\* lives until the automaton in front of it is built.
EndTargetItself(h, c, k, ends) == ends[k]

\* State::addEndTransition: after a symbol of which k bytes were used, ends[k]
\* only stands for where the next automaton goes on the same symbol.
EndTarget(h, c, k, ends) ==
    IF ends[k] # ends[0] THEN Transition(h, ends[k], c) ELSE ends[0]

AddEndTransition(h, s, c, k, ends) == AddTransition(h, s, c, EndTarget(h, c, k, ends))

\* State::copyTransitions
CopyTransitions(h, s, source) ==
    [h EXCEPT !.st[s].tr = @ @@ h.st[source].tr]

\* FiniteAutomaton::createState; the new state is the last of h.st.
CreateState(h, default) == [h EXCEPT !.st = Append(@, NewState(default))]
Newest(h) == Len(h.st)

SetLevel(h, s, level) == [h EXCEPT !.st[s].lvl = level]
LowerLevel(h, s, level) == [h EXCEPT !.st[s].lvl = Min({@, level})]

\* SingleStartFiniteAutomaton::findDeterministicPath: from the start state,
\* follow states that have one transition, fail on everything else and are
\* not themselves an end.  Yields the symbols and the state reached.
RECURSIVE FindDeterministicPath(_, _)
FindDeterministicPath(h, s) ==
    LET node == h.st[s]
        forced == node.end = NoEnd /\ node.def = Error /\ Cardinality(DOMAIN node.tr) = 1
        c == CHOOSE x \in DOMAIN node.tr : TRUE
        rest == FindDeterministicPath(h, node.tr[c])
    IN  IF forced THEN [path |-> <<c>> \o rest.path, actual |-> rest.actual, skipped |-> {s} \cup rest.skipped]
        ELSE [path |-> << >>, actual |-> s, skipped |-> {}]

\* An automaton with a single start, and the path all its strings begin with.
SingleStart(h, start) == [h |-> h, start |-> start, det |-> FindDeterministicPath(h, start)]

\* The elements of a finite set of numbers as a sequence, ascending or
\* descending: the order in which an unordered_map or unordered_set is
\* walked is unspecified, and the models try both.
Ordered(S, desc) ==
    MapThenFoldSet(LAMBDA x, done : Append(done, x), << >>, LAMBDA x : x,
                   LAMBDA T : IF desc THEN Min(T) ELSE Max(T), S)
=============================================================================
