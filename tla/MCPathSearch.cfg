SPECIFICATION PathSpec
CONSTANTS
  Types = {"a", "b"}
  MaxWord = 4
  Queries <- AllQueries
  Nodes = {1, 2, 3, 4, 5}
  Graphs <- MCGraphs
  MaxResets = 1
CHECK_DEADLOCK FALSE
INVARIANTS AutomatonExact DistancesAdmissible AnyExact PathsAreShortest AllExact
PROPERTIES ExpandedOnce SearchEnds
