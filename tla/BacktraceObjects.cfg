\* Three objects, memory for three backtraces, two stacks, careful and careless programs.
SPECIFICATION Spec
CONSTANTS
  Objects = {o1, o2, o3}
  Privates = {p1, p2, p3}
  Blocks = {b1, b2, b3}
  Frames = {f1, f2}
  Null = Null
  Unused = Unused
INVARIANTS
  OneOwner
  NothingLeaks
  HashIsOfFrames
  CarefulIsSafe
PROPERTIES
  ImplementsValues
CHECK_DEADLOCK FALSE
