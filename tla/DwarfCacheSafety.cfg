\* Three threads, two binaries, one call each, insertions that may fail.
SPECIFICATION Spec
CONSTANTS
  Threads = {t1, t2, t3}
  Modules = {m1, m2}
  Null = Null
  MaxCalls = 1
  InsertMayFail = TRUE
SYMMETRY Symmetry
INVARIANTS
  TypeOK
  TableAccessExclusive
  AnswersFromPublished
PROPERTIES
  PublishedForGood
  ImplementsAddrToDetails
CHECK_DEADLOCK FALSE
