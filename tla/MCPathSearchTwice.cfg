\* One path that may be empty or come back to its start, on one graph.
SPECIFICATION PathSpec
CONSTANTS
  Types = {"a", "b"}
  MaxWord = 4
  Queries <- BackAgain
  Nodes = {1, 2, 3, 4, 5}
  Graphs <- OneGraph
  MaxResets = 0
CHECK_DEADLOCK FALSE
INVARIANT NodeReturnedOnce
