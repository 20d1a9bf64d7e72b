\* Conversions of one or two frames with an offset: the finding about i - offset.
SPECIFICATION WindowsSpec
CONSTANTS
  MaxDepth = 2
  MaxItems = 2
  MaxStack = 4
  MaxSkip = 0
  MaxSymbols = 3
  DWord = 32
INVARIANT ItemsAreAfterOffset
CHECK_DEADLOCK FALSE
