\* Two threads, two binaries, two calls each, a table that never runs out of
\* memory, under the threads' fairness.
SPECIFICATION FairSpec
CONSTANTS
  Threads = {t1, t2}
  Modules = {m1, m2}
  Null = Null
  MaxCalls = 2
  InsertMayFail = FALSE
INVARIANTS
  BuiltOncePerThread
  RefusedFindsWinner
PROPERTIES
  CallsReturn
CHECK_DEADLOCK FALSE
