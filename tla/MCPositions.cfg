SPECIFICATION Spec
CONSTANTS
  Unset = Unset
  INCREMENT = 2
  MaxTasks = 2
  MaxEndReads = 2
  Files <- MCFiles
INVARIANTS MemoryFits LinesButForLostEnds StringRead MessageShowsError BufferBounded
PROPERTY ReadsText
CHECK_DEADLOCK FALSE
