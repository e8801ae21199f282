\* Seven strings in buckets of two keys: a directory of two entries doubles twice.
SPECIFICATION Spec
CONSTANTS
  s1 = s1
  s2 = s2
  s3 = s3
  s4 = s4
  s5 = s5
  s6 = s6
  s7 = s7
  Str = {s1, s2, s3, s4, s5, s6, s7}
  Hash <- Hashes
  Length <- Lengths
  BlockSize = 19
  MetadataSize = 1
  MinRemaining = 3
  LenBits = 2
  Imports <- Imported
  NoStr = NoStr
  DefaultDepth = 1
  MaxKeys = 2
  MaxDepth = 3
  MaxCreated = 3
  MaxRestarts = 2
INVARIANTS AllFound PrintsBack DirectoryExact
PROPERTIES InsertEnds
CHECK_DEADLOCK FALSE
