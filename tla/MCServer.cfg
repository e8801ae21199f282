\* Two sessions, one of which may lose its client.
SPECIFICATION FairSpec
CONSTANTS
  s1 = s1
  s2 = s2
  Sessions = {s1, s2}
  Lossy = {s1}
  Duration = 2
  MaxThreads = 2
  Kinds = {"read", "write", "bad"}
INVARIANTS UpdatesRunAlone SlotsExact TimeoutIsHonest
PROPERTIES QueriesEnd ReadersGetIn
CHECK_DEADLOCK FALSE
