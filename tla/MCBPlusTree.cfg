\* Leaves of three records, directories of two keys, pages written back at any time.
SPECIFICATION Spec
CONSTANTS
  MaxRecord = 13
  LeafMax = 3
  DirMax = 2
  Imports <- SmallAndTall
  MaxLeaves = 6
  MaxDirs = 6
INVARIANTS ScanExact CheckPasses DuplicatesExact
