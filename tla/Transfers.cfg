SPECIFICATION TransferSpec
CONSTANTS
  Commands = {"push", "pull", "cut"}
  N = 4
  Pool = 2
  Kinds = {"chunks", "single", "remote"}
  Versions = {1, 2, 3}
  Size <- ThreeSizes
  Threshold = 2
  ChunkLen = 2
  None = None
  Returning = FALSE
  Budget <- Faults
  Jobs = {"push", "pull", "ask", "put", "move", "write"}
  ChunkSizes = {5, 8, 1100, 2500000}
  MaxPieces = 4
  Buffer = 700000
  Missing = {0, 1, 6, 1100}
  Word = 1000000000
INVARIANT TypesOK
INVARIANT MergeAsksAll
 
INVARIANT QuietAfterSuccess
INVARIANT RecordHasFile
INVARIANT PullReturnsRecorded
INVARIANT WholeImage
INVARIANT SlicesServed
PROPERTY TransfersEnd
CHECK_DEADLOCK FALSE
