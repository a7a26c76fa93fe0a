----------------------------- MODULE RouteGraph -----------------------------
(***************************************************************************)
(* domain/graph.py: a submitted route graph is validated, and the route    *)
(* that exitroute recommends is searched for with Dijkstra's algorithm.    *)
(* Efforts may be zero, so a graph can have circles that cost nothing, and *)
(* routes of equal effort must be told apart by their choices alone.       *)
(*                                                                         *)
(* Identifiers of choices are numbers, in the order of the slugs.  The     *)
(* heap is the set of its entries: their choice paths differ, so the order *)
(* of the entries is total and what heappop returns is determined.         *)
(***************************************************************************)
EXTENDS Integers, FiniteSets, Sequences

CONSTANTS
    Nodes,    \* identifiers of nodes
    Choices,  \* identifiers of choices
    Graphs,   \* the documents that may be submitted
    None      \* RouteNode.state of a node that is not terminal

NodeKind == {"screen", "os_settings", "handoff", "terminal"}
TerminalState == {"cancelled", "retained", "unavailable"}
ChoiceEffect == {"advance", "loop", "retain", "handoff"}

\* A document with its identifiers indexed; those of a document are unique.  A
\* target that the document does not contain is some other member of Nodes.
IsDocument(g) ==
    /\ g = [entry |-> g.entry, nodes |-> g.nodes, kind |-> g.kind, state |-> g.state,
            choices |-> g.choices, from |-> g.from, to |-> g.to,
            effect |-> g.effect, effort |-> g.effort]
    /\ g.nodes \subseteq Nodes /\ IsFiniteSet(g.nodes) /\ g.entry \in Nodes
    /\ g.kind \in [g.nodes -> NodeKind]
    /\ g.state \in [g.nodes -> TerminalState \cup {None}]
    /\ g.choices \subseteq Choices /\ IsFiniteSet(g.choices)
    /\ g.from \in [g.choices -> g.nodes] /\ g.to \in [g.choices -> Nodes]
    /\ g.effect \in [g.choices -> ChoiceEffect]
    /\ g.effort \in [g.choices -> Nat]

ASSUME ConstantsAssumption ==
    /\ Choices \subseteq Nat
    /\ None \notin TerminalState
    /\ \A g \in Graphs : IsDocument(g)

VARIABLES
    graph,   \* the document
    pc,      \* "validate", "search", then "found" or "refused"
    queue,   \* the heap of _lowest_effort_path
    best,    \* its dictionary of the nodes reached: effort and choices
    result   \* the ComputedRoute

vars == <<graph, pc, queue, best, result>>

-----------------------------------------------------------------------------
(* Validation *)

ChoicesOf(g, n) == {c \in g.choices : g.from[c] = n}
Targets(g, n) == {g.to[c] : c \in ChoicesOf(g, n)}
IsTerminal(g, n) == g.kind[n] = "terminal"

ValidShapes(g) ==
    \A n \in g.nodes :
      /\ IsTerminal(g, n) <=> g.state[n] # None
      /\ IsTerminal(g, n) <=> ChoicesOf(g, n) = {}

\* _can_reach and _validate_reachability: the nodes that following choices, whatever
\* their effect, leads to from n.
Reach(g, n) ==
    LET within[k \in 0 .. Cardinality(g.nodes)] ==
          IF k = 0 THEN {n}
          ELSE LET near == within[k - 1] IN near \cup UNION {Targets(g, m) : m \in near}
    IN  within[Cardinality(g.nodes)]

ValidTargets(g) == \A c \in g.choices : g.to[c] \in g.nodes

ValidEffect(g, c) ==
    LET target == g.to[c] IN
    /\ g.effect[c] = "retain" => g.state[target] = "retained"
    /\ g.effect[c] = "handoff" => g.kind[target] = "handoff"
    /\ g.effect[c] = "advance" => g.state[target] # "retained"
    /\ g.effect[c] = "loop" => g.from[c] \in Reach(g, target)

HasEntry(g) == g.entry \in g.nodes
AllReached(g) == Reach(g, g.entry) = g.nodes

Valid(g) ==
    /\ HasEntry(g)
    /\ ValidShapes(g)
    /\ ValidTargets(g)
    /\ \A c \in g.choices : ValidEffect(g, c)
    /\ AllReached(g)

-----------------------------------------------------------------------------
(* The search *)

\* Python's order of tuples: the first difference decides, and a prefix comes
\* before what it is a prefix of.
PathBefore(p, q) ==
    \E i \in 1 .. Len(q) :
      /\ i <= Len(p) + 1
      /\ \A j \in 1 .. i - 1 : p[j] = q[j]
      /\ i <= Len(p) => p[i] < q[i]

\* Mutant: only the effort is compared.
RankByEffort(a, b) == a.cost < b.cost

RankBefore(a, b) ==
    \/ a.cost < b.cost
    \/ a.cost = b.cost /\ PathBefore(a.path, b.path)

\* heappop takes the entry no other one comes before.
IsFirst(e) == e \in queue /\ \A o \in queue : ~RankBefore(o, e)

Safe(g, c) == g.effect[c] \notin {"retain", "loop"}

Extend(g, e, c) == [cost |-> e.cost + g.effort[c],
                    path |-> Append(e.path, c),
                    node |-> g.to[c],
                    nodes |-> Append(e.nodes, g.to[c])]

Start(g) == [cost |-> 0, path |-> <<>>, node |-> g.entry, nodes |-> <<g.entry>>]

Init ==
    /\ graph \in Graphs
    /\ pc = "validate"
    /\ queue = {}
    /\ best = <<>>
    /\ result = None

Refuse ==
    /\ pc = "validate"
    /\ ~Valid(graph)
    /\ pc' = "refused"
    /\ UNCHANGED <<graph, queue, best, result>>

Accept ==
    /\ pc = "validate"
    /\ Valid(graph)
    /\ pc' = "search"
    /\ queue' = {Start(graph)}
    /\ UNCHANGED <<graph, best, result>>

\* best has a rank for the node of e that is as good.
Known(e) == /\ e.node \in DOMAIN best
            /\ \/ RankBefore(best[e.node], e)
               \/ best[e.node] = [cost |-> e.cost, path |-> e.path]

\* Mutant: the entry is looked at and left in the heap.
SkipByPeeking ==
    /\ pc = "search"
    /\ \E e \in queue : IsFirst(e) /\ Known(e)
    /\ UNCHANGED vars

Skip ==
    /\ pc = "search"
    /\ \E e \in queue :
         /\ IsFirst(e) /\ Known(e)
         /\ queue' = queue \ {e}
    /\ UNCHANGED <<graph, pc, best, result>>

Settled(e) == [n \in DOMAIN best \cup {e.node} |->
                 IF n = e.node THEN [cost |-> e.cost, path |-> e.path] ELSE best[n]]

Edges(e) == {Extend(graph, e, c) : c \in {d \in ChoicesOf(graph, e.node) : Safe(graph, d)}}

\* Mutant: only the neighbours of the last node are kept.
SettleGreedily ==
    /\ pc = "search"
    /\ \E e \in queue :
         /\ IsFirst(e) /\ ~Known(e)
         /\ graph.state[e.node] # "cancelled"
         /\ best' = Settled(e)
         /\ queue' = Edges(e)
    /\ UNCHANGED <<graph, pc, result>>

Settle ==
    /\ pc = "search"
    /\ \E e \in queue :
         /\ IsFirst(e) /\ ~Known(e)
         /\ graph.state[e.node] # "cancelled"
         /\ best' = Settled(e)
         /\ queue' = (queue \ {e}) \cup Edges(e)
    /\ UNCHANGED <<graph, pc, result>>

\* analyze_graph: what is counted of the whole graph and of the route.
Count(g, effect) == Cardinality({c \in g.choices : g.effect[c] = effect})
Visited(e) == {e.nodes[i] : i \in DOMAIN e.nodes}
Taken(e) == {e.path[i] : i \in DOMAIN e.path}

Friction(g, e) ==
    LET offers == Count(g, "retain")
        loops == Count(g, "loop")
        offline == \/ \E n \in Visited(e) : g.kind[n] = "handoff"
                   \/ \E c \in Taken(e) : g.effect[c] = "handoff"
    IN  [screens |-> Cardinality({i \in DOMAIN e.nodes : ~IsTerminal(g, e.nodes[i])}),
         retention_offers |-> offers,
         loops |-> loops,
         offline_handoff |-> offline,
         effort_score |-> e.cost + offers + 2 * loops + (IF offline THEN 5 ELSE 0)]

Find ==
    /\ pc = "search"
    /\ \E e \in queue :
         /\ IsFirst(e) /\ ~Known(e)
         /\ graph.state[e.node] = "cancelled"
         /\ best' = Settled(e)
         /\ queue' = queue \ {e}
         /\ result' = [best_route |-> e.path, visited_nodes |-> e.nodes, effort |-> e.cost,
                       friction |-> Friction(graph, e)]
    /\ pc' = "found"
    /\ UNCHANGED graph

NoRoute ==
    /\ pc = "search"
    /\ queue = {}
    /\ pc' = "refused"
    /\ UNCHANGED <<graph, queue, best, result>>

Next == Refuse \/ Accept \/ Skip \/ Settle \/ Find \/ NoRoute

Spec == Init /\ [][Next]_vars
FairSpec == Spec /\ WF_vars(Next)

-----------------------------------------------------------------------------
(* What the search is measured against *)

\* The effort of a path: the running totals of its choices.
Effort(g, path) ==
    LET total[i \in 0 .. Len(path)] ==
          IF i = 0 THEN 0 ELSE total[i - 1] + g.effort[path[i]]
    IN  total[Len(path)]

\* path is a way through g by safe choices from its entry to node n.
Connected(g, path, n) ==
    /\ \A i \in 1 .. Len(path) : path[i] \in g.choices /\ Safe(g, path[i])
    /\ \A i \in 1 .. Len(path) : g.from[path[i]] = IF i = 1 THEN g.entry ELSE g.to[path[i - 1]]
    /\ n = IF path = <<>> THEN g.entry ELSE g.to[path[Len(path)]]

\* The ways that visit no node twice, longest and shortest, to a cancelled
\* terminal: removing a circle from a way does not raise its effort.
Routes(g) ==
    {path \in UNION {[1 .. k -> g.choices] : k \in 0 .. Cardinality(g.nodes) - 1} :
       /\ \E n \in g.nodes : g.state[n] = "cancelled" /\ Connected(g, path, n)
       /\ \A i, j \in 1 .. Len(path) : i # j => g.to[path[i]] # g.to[path[j]]
       /\ \A i \in 1 .. Len(path) : g.to[path[i]] # g.entry}
-----------------------------------------------------------------------------
(* Properties *)

Rank == [cost : Nat, path : Seq(Choices)]
Entry == [cost : Nat, path : Seq(Choices), node : Nodes, nodes : Seq(Nodes)]
Route == [best_route : Seq(Choices), visited_nodes : Seq(Nodes), effort : Nat,
          friction : [screens : Nat, retention_offers : Nat, loops : Nat,
                      offline_handoff : BOOLEAN, effort_score : Nat]]

\* Types; only a search that has found something has a result.
TypeOK ==
    /\ IsDocument(graph)
    /\ pc \in {"validate", "search", "found", "refused"}
    /\ queue \subseteq Entry
    /\ DOMAIN best \subseteq graph.nodes
    /\ \A n \in DOMAIN best : best[n] \in Rank
    /\ pc = "found" => result \in Route
    /\ pc # "found" => result = None

\* The recommended route leads from the entry to a cancelled terminal by safe
\* choices, its effort is the sum of theirs, and no other way out costs less
\* (_lowest_effort_path; docs/data-model.md, graph invariants 7 and 8).
LowestEffort ==
    pc = "found" =>
      LET route == result.best_route
          last == result.visited_nodes[Len(result.visited_nodes)]
      IN
      /\ graph.state[last] = "cancelled" /\ Connected(graph, route, last)
      /\ result.effort = Effort(graph, route)
      /\ \A path \in Routes(graph) : result.effort <= Effort(graph, path)

\* Among ways of equal effort, the identifiers of the choices decide, so that the
\* recommendation does not depend on the order in which the choices are listed,
\* and circles that cost nothing do not disturb this.
TiesByIdentifier ==
    pc = "found" =>
      \A path \in Routes(graph) :
        Effort(graph, path) = result.effort =>
          path = result.best_route \/ PathBefore(result.best_route, path)

\* A valid graph is refused only if there is no safe way out: that a node is left
\* out of the search once its best rank is known loses none.
RefusedJustly == pc = "refused" /\ Valid(graph) => Routes(graph) = {}

\* The search ends, also in a graph with circles that cost nothing.
Terminates == <>(pc \in {"found", "refused"})
=============================================================================
