SPECIFICATION TransferSpec
CONSTANTS
  Commands = {"pull"}
  N = 4
  Pool = 2
  Kinds = {"chunks", "single", "remote"}
  Versions = {1, 2, 3}
  Size <- ThreeSizes
  Threshold = 2
  ChunkLen = 2
  None = None
  Returning = FALSE
  Budget <- Calm
  Jobs = {"push", "pull", "ask", "put", "move", "write"}
  ChunkSizes = {5, 8, 1100, 2500000}
  MaxPieces = 4
  Buffer = 700000
  Missing = {0, 1, 6, 1100}
  Word = 1000000000
INVARIANT PulledIsAnnounced
CHECK_DEADLOCK FALSE
