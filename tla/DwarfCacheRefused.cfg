\* Two threads, one binary, one call each, insertions that may fail.
SPECIFICATION Spec
CONSTANTS
  Threads = {t1, t2}
  Modules = {m1}
  Null = Null
  MaxCalls = 1
  InsertMayFail = TRUE
INVARIANTS
  RefusedFindsWinner
CHECK_DEADLOCK FALSE
