\* Hex files burnt one after another, calls that raise, a protected block.
CONSTANTS
  BlockSize = 3
  Blocks = 3
  Protected <- MCProtected
  Bytes = {0, 1, 2}
  Blank = 2
  Files <- MCFiles
  Polls = 2
SPECIFICATION FairSpec
INVARIANTS
  TypeOK
  MergeKeeps
  WrittenOnSuccess
  NeighboursSurvive
  BlockFinished
PROPERTY RunEnds
