---------------------------- MODULE MCRouteGraph ----------------------------
(* Small graphs for RouteGraph.  Node 1 is the entry, node 4 is cancelled,   *)
(* node 5 is retained.                                                       *)
EXTENDS RouteGraph, TLC

KindOf(n, inner) == IF n > 3 THEN "terminal" ELSE IF n = 2 THEN inner ELSE "screen"
StateOf(n) == IF n = 4 THEN "cancelled" ELSE IF n = 5 THEN "retained" ELSE None

Document(nodes, inner, from, to, effect, effort) ==
    [entry |-> 1, nodes |-> nodes,
     kind |-> [n \in nodes |-> KindOf(n, inner)], state |-> [n \in nodes |-> StateOf(n)],
     choices |-> DOMAIN from, from |-> from, to |-> to, effect |-> effect, effort |-> effort]

\* Three screens and four choices that advance, listed in different orders:
\* ties, detours, and circles that cost nothing.
Layouts == {<<1, 1, 2, 3>>, <<2, 1, 3, 1>>, <<3, 2, 1, 2>>, <<1, 3, 2, 2>>, <<3, 3, 1, 2>>}
Ways ==
    {to \in [1 .. 4 -> 1 .. 4] : 2 .. 4 \subseteq {to[c] : c \in 1 .. 4}}
Mazes ==
    {Document(1 .. 4, "screen", from, to, [c \in 1 .. 4 |-> "advance"], effort) :
       from \in Layouts, to \in Ways, effort \in [1 .. 4 -> {0, 1}]}

\* Two screens: choice 1 leads from the entry to node 2, choices 2 and 3 have any
\* effect and target, the missing node 3 included.
Drafts ==
    {Document({1, 2, 4, 5}, inner, <<1, 2, 2>>, <<2, to2, to3>>,
              <<"advance", effect2, effect3>>, <<1, 1, 1>>) :
       inner \in {"screen", "handoff"}, to2 \in 1 .. 5, to3 \in 1 .. 5,
       effect2 \in ChoiceEffect, effect3 \in ChoiceEffect}

\* Four choices whose effects fit their targets; the unsafe ones cost nothing.
Edge == {<<"advance", 1>>, <<"advance", 2>>, <<"advance", 4>>, <<"retain", 5>>,
         <<"loop", 1>>, <<"loop", 2>>, <<"handoff", 2>>}
Traps ==
    {Document({1, 2, 4, 5}, inner, <<1, 2, 2, 2>>, [c \in 1 .. 4 |-> edges[c][2]],
              [c \in 1 .. 4 |-> edges[c][1]],
              [c \in 1 .. 4 |-> IF edges[c][1] \in {"retain", "loop"} THEN 0 ELSE 1]) :
       inner \in {"screen", "handoff"},
       edges \in {e \in [1 .. 4 -> Edge] : e[1][2] = 2}}

SmallGraphs == UNION {Mazes, Drafts, Traps}
=============================================================================
