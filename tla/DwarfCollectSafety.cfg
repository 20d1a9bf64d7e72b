\* Three units of up to four lines, those of four skipped, a vector that grows two slots at a time.
SPECIFICATION Spec
CONSTANTS
  ReallocStep = 2
  LineLimit = 3
  MaxUnits = 3
  MaxLines = 4
  Null = Null
INVARIANTS
  MemorySafe
  SessionReleased
  EntryUsable
  FailureHidesVector
CHECK_DEADLOCK FALSE
