\* Two requests at a time over a disk that may refuse anything; crashes.
\* Ids are bounded: all workers may wait for one.
CHECK_DEADLOCK FALSE
SPECIFICATION Spec
CONSTANTS
  big = big
  small = small
  Body = {big, small}
  Size <- Sizes
  Buffer = 1
  Worker = {w1, w2}
  NoReply = NoReply
  Directory = Directory
  Unknown = Unknown
  IndexRange = 2
  MaxRound = 1
  MaxItems = 2
  MaxFiles = 2
  Faults = TRUE
SYMMETRY Symmetry
INVARIANTS
  TypeOK
  ToldIsWhole
  OneWriterPerFile
  OnlyBrokenAreForgotten
PROPERTY ImplementsFileStore
