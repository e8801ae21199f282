\* Blocks of two payload bytes, outputs of up to five bytes.
SPECIFICATION Spec
CONSTANTS
  BUFFER_SIZE = 5
  Byte = 4
  MaxInFlight = 2
  MaxOutput = 5
  QueryLengths = {1, 27, 127, 200}
INVARIANTS PrintsPrefix CompleteOrError LastBlockArrives ShortQueryArrives
