------------------------------ MODULE MCDrawing ------------------------------
(***************************************************************************)
(* Drawings of every part of up to five bytes over two letters as a start, *)
(* middle and end, and of full patterns of up to three parts, with tables  *)
(* of which one is empty, one has a symbol of eight bytes and one spells   *)
(* every byte, in both orders of the hash maps.                            *)
(***************************************************************************)
EXTENDS Drawing

X == 1
Y == 9
MCNoEnd == -1

MCTables ==
    { [sym |-> << >>,                                        esc |-> {X, Y}],
      [sym |-> << <<X, Y>>, <<Y>>, <<X, X, Y>> >>,           esc |-> {X}],
      [sym |-> << <<X>>, <<Y>>, <<X, Y, X, Y>>, <<Y, X>> >>, esc |-> {}],
      [sym |-> << <<Y, Y, X, X>>, <<X, Y, Y>>, <<Y>> >>,     esc |-> {X}],
      [sym |-> << <<Y, X, Y, X, Y, X, Y, X>>, <<X, X, Y>> >>, esc |-> {X, Y}] }

Words == UNION {[1 .. n -> {X, Y}] : n \in 1 .. 5}
Short == UNION {[1 .. n -> {X, Y}] : n \in 1 .. 2}
Pct == <<Percent>>
Fulls ==
    {w \o Pct : w \in Short} \cup {Pct \o w : w \in Short} \cup {u \o Pct \o v : u, v \in Short}
    \cup {Pct \o u \o Pct \o v \o Pct : u, v \in Short} \cup {u \o Pct \o <<X, Y>> \o Pct \o v : u, v \in Short}
    \cup {u \o Pct \o v \o Pct : u, v \in Short}

Requests(types, patterns) ==
    {[type |-> type, table |-> t, pattern |-> p, desc |-> desc] :
        type \in types, t \in MCTables, p \in patterns, desc \in BOOLEAN}

MCDrawings == Requests({"start", "middle", "end"}, Words) \cup Requests({"full"}, Fulls)

\* AutomatonOf, tabulated by the comparison, so that TLC builds each automaton
\* once; MCAutomata looks them up.
Tabulated == CHOOSE built \in {AutomatonOf} : built = built
MCAutomata == LET built == Tabulated IN built
=============================================================================
