\* Room for three frames where the source has 62, stacks of up to nine, and
\* conversions of up to two frames.
SPECIFICATION WindowsSpec
CONSTANTS
  MaxDepth = 2
  MaxItems = 3
  MaxStack = 9
  MaxSkip = 4
  MaxSymbols = 3
  DWord = 32
INVARIANTS
  WindowsTypeOK
  CaptureFitsBuffer
  ItemsAreWhole
CHECK_DEADLOCK FALSE
