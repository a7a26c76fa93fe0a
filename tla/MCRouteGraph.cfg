\* Every graph of the families of MCRouteGraph.
SPECIFICATION FairSpec
CONSTANTS
    Nodes = {1, 2, 3, 4, 5}
    Choices = {1, 2, 3, 4}
    Graphs <- SmallGraphs
    None = None
INVARIANTS
    LowestEffort
    TiesByIdentifier
    RefusedJustly
PROPERTIES
    Terminates
\* A search stops when it has found a route or refused the graph.
CHECK_DEADLOCK FALSE
