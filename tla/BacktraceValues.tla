--------------------------- MODULE BacktraceValues ---------------------------
(***************************************************************************)
(* What class Backtrace promises a program, without pointers or memory:    *)
(* an object is a value of its own, the frames of one stack.  A copy takes *)
(* the value, a move passes it on, and no operation on one object changes  *)
(* the value of another.  BacktraceObjects implements this specification.  *)
(***************************************************************************)
CONSTANTS
  Objects,  \* variables of class Backtrace
  Frames,   \* contents of a stack
  Null,     \* the value of an object that was moved from
  Empty,    \* the value of an object whose last assignment failed
  Unused    \* not alive

VARIABLES
  value,    \* per object: its frames, Null, Empty or Unused
  ended,    \* has the program ended in undefined behaviour?
  careful   \* does the program keep to the rules of Misuse below?

vars == <<value, ended, careful>>

Init ==
  /\ value = [o \in Objects |-> Unused]
  /\ ended = FALSE
  /\ careful \in BOOLEAN

Construct(o) ==
  /\ value[o] = Unused
  /\ \E f \in Frames : value' = [value EXCEPT ![o] = f]
  /\ UNCHANGED ended

CopyConstruct(o, from) ==
  /\ value[o] = Unused /\ value[from] \in Frames
  /\ value' = [value EXCEPT ![o] = value[from]]
  /\ UNCHANGED ended

MoveConstruct(o, from) ==
  /\ value[o] = Unused /\ value[from] # Unused
  /\ value' = [value EXCEPT ![o] = value[from], ![from] = Null]
  /\ UNCHANGED ended

(* An assignment that fails costs o its value, but no other object.        *)
CopyAssign(o, from) ==
  /\ value[o] \in Frames \cup {Empty}
  /\ \/ o # from /\ value[from] \in Frames
     \/ value[from] = Empty
  /\ value' \in {[value EXCEPT ![o] = value[from]], [value EXCEPT ![o] = Empty]}
  /\ UNCHANGED ended

MoveAssign(o, from) ==
  /\ value[o] # Unused /\ value[from] # Unused
  /\ value' = [value EXCEPT ![o] = value[from], ![from] = value[o]]
  /\ UNCHANGED ended

Destroy(o) ==
  /\ value[o] # Unused
  /\ value' = [value EXCEPT ![o] = Unused]
  /\ UNCHANGED ended

(* An object without frames is read or copied, one that was moved from is  *)
(* assigned to, or one is assigned to itself.                              *)
Misuse(o) ==
  /\ ~careful /\ value[o] # Unused
  /\ ended' = TRUE
  /\ UNCHANGED value

Next ==
  /\ ~ended
  /\ UNCHANGED careful
  /\ \E o \in Objects :
       \/ Construct(o) \/ Destroy(o) \/ Misuse(o)
       \/ \E from \in Objects :
            \/ CopyConstruct(o, from) \/ MoveConstruct(o, from)
            \/ CopyAssign(o, from) \/ MoveAssign(o, from)

Spec == Init /\ [][Next]_vars
=============================================================================
