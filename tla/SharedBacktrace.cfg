\* Two threads and two backtraces, room for three frames.  As 1000 is 8 * 125 in
\* words of 2^64, the multiplier is 4 * 3 in words of 8.
SPECIFICATION Spec
CONSTANTS
  Threads = {t1, t2}
  Backtraces = {b1, b2}
  Stacks <- StackSet
  MinSkip <- OneBack
  MaxSkip = 4
  MaxSymbols = 3
  Word = 8
  Multiplier = 12
  Significant = 2
  Garbage = {7}
  Unused = Unused
SYMMETRY Symmetry
INVARIANTS
  TypeOK
  CaptureIsCallers
  CopyStaysInside
  HashRightUnlessRaced
PROPERTIES
  HashSettles
CHECK_DEADLOCK FALSE
