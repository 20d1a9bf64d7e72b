\* Units of up to three children of every kind.
SPECIFICATION Spec
CONSTANTS
  MaxChildren = 3
INVARIANTS
  DiesUsedWhileHeld
  OneDieLeft
  FirstMatch
CHECK_DEADLOCK FALSE
