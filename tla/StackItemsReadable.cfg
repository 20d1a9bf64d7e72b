\* Backtraces of up to two frames, conversions that may fail.
SPECIFICATION ObjectSpec
CONSTANTS
  MaxDepth = 2
  MaxItems = 2
INVARIANTS
  ItemsReadable
CHECK_DEADLOCK FALSE
