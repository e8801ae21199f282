\* Four statements and two restarts on an empty or an imported graph.
SPECIFICATION Spec
CONSTANTS
  a = a
  b = b
  c = c
  anon = anon
  lab = lab
  prop = prop
  v1 = v1
  v2 = v2
  Objects = {a, b, c, anon}
  Anon = {anon}
  Labels = {lab}
  Keys = {prop}
  Values = {v1, v2}
  Imports <- EmptyOrGraph
  Statements <- Mixed
  MaxStatements = 4
  MaxRestarts = 2
INVARIANTS IndexesAgree EdgeIdsFresh NodesKnown CountsExact
CHECK_DEADLOCK FALSE
