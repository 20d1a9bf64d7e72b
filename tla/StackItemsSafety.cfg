\* Up to four frames, every offset, a buffer of up to five items, through the
\* C interface or the class.
SPECIFICATION ObjectSpec
CONSTANTS
  MaxDepth = 4
  MaxItems = 5
INVARIANTS
  TypeOK
  SuccessComplete
  SymbolsReleased
  ReleaseIsComplete
  MisuseOnlyAfterFailure
CHECK_DEADLOCK FALSE
