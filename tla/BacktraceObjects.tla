-------------------------- MODULE BacktraceObjects --------------------------
(***************************************************************************)
(* The C++ class Backtrace of                                              *)
(* src/core/cpp/stack_investigator_cinvestigator.cpp and the backtraces it *)
(* owns (capture, clone, hash and free of the C interface): who points to  *)
(* what through constructions, copies, moves, assignments and              *)
(* destructions, any of which may run out of memory.                       *)
(*                                                                         *)
(* The frames of a stack are one value; the hash a backtrace stores is the *)
(* frames it was computed from.                                            *)
(***************************************************************************)
CONSTANTS
  Objects,   \* variables of class Backtrace in the program
  Privates,  \* addresses of Backtrace_p
  Blocks,    \* addresses of struct StackInvestBacktrace
  Frames,    \* contents of a stack
  Null,      \* the null pointer
  Unused     \* memory that is not allocated; an object that is not alive

VARIABLES
  m_bt_data_ptr,  \* per object: its Backtrace_p, Null once moved from, or Unused
  m_pStack,       \* per Backtrace_p: its backtrace, Null, or Unused
  backtrace,      \* per address: the backtrace there, or Unused
  fault,          \* has freed memory or a null pointer been used?
  known,          \* history, per object: what the program did with it last
  careful         \* does the program keep to the rules below?

heap == <<m_bt_data_ptr, m_pStack, backtrace>>
vars == <<heap, fault, known, careful>>

(* What malloc leaves in a member that is not written.                     *)
Garbage == "garbage"

Backtrace == [frames : Frames, hash : Frames \cup {Garbage}, hashIsNotValid : BOOLEAN]

ASSUME NullAssumption == Null \notin Privates \cup Blocks \cup Backtrace
ASSUME UnusedAssumption == Unused \notin Privates \cup Blocks \cup Backtrace \cup {Null}
ASSUME GarbageAssumption == Garbage \notin Frames

(* The value of an object whose last assignment failed.                    *)
Empty == "empty"

ASSUME ValueAssumption == Empty \notin {Null, Unused} /\ Frames \cap {Null, Empty, Unused} = {}

(* What a program knows without looking at memory: "dead" before its       *)
(* construction and after its destruction, "moved" from, "failed" when the *)
(* last assignment to it threw, and otherwise "whole".                     *)
Knowledge == {"dead", "moved", "failed", "whole"}

Alive(o) == known[o] # "dead"
Stack(o) == m_pStack[m_bt_data_ptr[o]]

(* o can be followed to its Backtrace_p ...                                *)
Pointing(o) == m_bt_data_ptr[o] \in Privates /\ Stack(o) # Unused

(* ... and on to a backtrace, or to a null that an assignment left.        *)
Whole(o) == Pointing(o) /\ Stack(o) # Null /\ backtrace[Stack(o)] # Unused
Bare(o)  == Pointing(o) /\ Stack(o) = Null

(* Nothing that o leads to was freed.                                      *)
Sound(o) == Whole(o) \/ Bare(o)

(* StackInvestInitBacktraceDataForCurrentStack and                         *)
(* StackInvestCloneBackTrace at the address b of the heap h; the hash of a *)
(* capture is not written.                                                 *)
Captured(h, b, f) ==
  [h EXCEPT ![b] = [frames |-> f, hash |-> Garbage, hashIsNotValid |-> TRUE]]

(* Mutant: the flag of the hash is not copied.                             *)
ClonedForgetsFlag(h, b, source) ==
  [h EXCEPT ![b] = [frames |-> h[source].frames, hash |-> h[source].hash,
                    hashIsNotValid |-> FALSE]]

Cloned(h, b, source) ==
  [h EXCEPT ![b] = [frames |-> h[source].frames, hash |-> h[source].hash,
                    hashIsNotValid |-> h[source].hashIsNotValid]]

(* StackInvestFreeBacktraceData, which accepts Null.                       *)
Freed(h, b) == [a \in Blocks |-> IF a = b THEN Unused ELSE h[a]]

(* A null pointer or freed memory is read or freed: the end of the         *)
(* program.                                                                *)
Crash == fault' = TRUE /\ UNCHANGED <<heap, known>>

(* A constructor of o ends with the Backtrace_p p for the backtrace b.     *)
Constructed(o, p, b) ==
  /\ m_pStack[p] = Unused /\ backtrace[b] = Unused
  /\ m_bt_data_ptr' = [m_bt_data_ptr EXCEPT ![o] = p]
  /\ m_pStack' = [m_pStack EXCEPT ![p] = b]
  /\ known' = [known EXCEPT ![o] = "whole"]
  /\ UNCHANGED fault

-----------------------------------------------------------------------------
Init ==
  /\ m_bt_data_ptr = [o \in Objects |-> Unused]
  /\ m_pStack = [p \in Privates |-> Unused]
  /\ backtrace = [b \in Blocks |-> Unused]
  /\ fault = FALSE
  /\ known = [o \in Objects |-> "dead"]
  /\ careful \in BOOLEAN

(* Backtrace(int).  Without memory it throws and leaves nothing.           *)
Construct(o) ==
  /\ ~Alive(o)
  /\ \E p \in Privates, b \in Blocks, f \in Frames :
       /\ Constructed(o, p, b)
       /\ backtrace' = Captured(backtrace, b, f)

(* Mutant: the pointer is copied, as a compiler's own constructor would.   *)
CopyConstructShares(o, from) ==
  /\ ~Alive(o) /\ Alive(from)
  /\ careful => known[from] = "whole"
  /\ m_bt_data_ptr' = [m_bt_data_ptr EXCEPT ![o] = m_bt_data_ptr[from]]
  /\ known' = [known EXCEPT ![o] = "whole"]
  /\ UNCHANGED <<m_pStack, backtrace, fault>>

(* Backtrace(const Backtrace&).  Without memory, or from an object without *)
(* a backtrace, it throws and leaves nothing.                              *)
CopyConstruct(o, from) ==
  /\ ~Alive(o) /\ Alive(from)
  /\ careful => known[from] = "whole"
  /\ \/ ~Sound(from) /\ Crash
     \/ /\ Whole(from)
        /\ \E p \in Privates, b \in Blocks :
             /\ Constructed(o, p, b)
             /\ backtrace' = Cloned(backtrace, b, Stack(from))

(* Mutant: the source keeps its pointer.                                   *)
MoveConstructKeeps(o, from) ==
  /\ ~Alive(o) /\ Alive(from)
  /\ m_bt_data_ptr' = [m_bt_data_ptr EXCEPT ![o] = m_bt_data_ptr[from]]
  /\ known' = [known EXCEPT ![o] = known[from], ![from] = "moved"]
  /\ UNCHANGED <<m_pStack, backtrace, fault>>

(* Backtrace(Backtrace&&)                                                  *)
MoveConstruct(o, from) ==
  /\ ~Alive(o) /\ Alive(from)
  /\ m_bt_data_ptr' = [m_bt_data_ptr EXCEPT ![o] = m_bt_data_ptr[from], ![from] = Null]
  /\ known' = [known EXCEPT ![o] = known[from], ![from] = "moved"]
  /\ UNCHANGED <<m_pStack, backtrace, fault>>

(* Mutant: the pointer to the freed backtrace stays when the clone fails.  *)
CopyAssignDangles(o, from) ==
  /\ Alive(o) /\ Alive(from)
  /\ careful => known[from] = "whole" /\ known[o] # "moved" /\ o # from
  /\ Whole(o) /\ Whole(from) /\ o # from
  /\ backtrace' = Freed(backtrace, Stack(o))
  /\ known' = [known EXCEPT ![o] = "failed"]
  /\ UNCHANGED <<m_bt_data_ptr, m_pStack, fault>>

(* operator=(const Backtrace&) frees the backtrace of o, then clones that  *)
(* of from, which may be the one just freed.  Without memory, or from an   *)
(* object without a backtrace, it leaves o with a null and throws.         *)
CopyAssign(o, from) ==
  /\ Alive(o) /\ Alive(from)
  /\ careful => known[from] = "whole" /\ known[o] # "moved" /\ o # from
  /\ LET left == Freed(backtrace, Stack(o))
         clonesFreed == Whole(from) /\ left[Stack(from)] = Unused
     IN \/ Crash /\ (~Sound(o) \/ ~Sound(from) \/ clonesFreed)
        \/ /\ Sound(o) /\ Sound(from) /\ ~clonesFreed
           /\ \/ /\ m_pStack' = [m_pStack EXCEPT ![m_bt_data_ptr[o]] = Null]
                 /\ backtrace' = left
                 /\ known' = [known EXCEPT ![o] = "failed"]
              \/ \E b \in Blocks :
                   /\ Whole(from) /\ left[b] = Unused
                   /\ m_pStack' = [m_pStack EXCEPT ![m_bt_data_ptr[o]] = b]
                   /\ backtrace' = Cloned(left, b, Stack(from))
                   /\ known' = [known EXCEPT ![o] = "whole"]
           /\ UNCHANGED <<m_bt_data_ptr, fault>>

(* Mutant: o takes over from's pointer and drops its own.                  *)
MoveAssignDrops(o, from) ==
  /\ Alive(o) /\ Alive(from) /\ o # from
  /\ m_bt_data_ptr' = [m_bt_data_ptr EXCEPT ![o] = m_bt_data_ptr[from], ![from] = Null]
  /\ known' = [known EXCEPT ![o] = known[from], ![from] = "moved"]
  /\ UNCHANGED <<m_pStack, backtrace, fault>>

(* operator=(Backtrace&&) swaps the pointers.                              *)
MoveAssign(o, from) ==
  /\ Alive(o) /\ Alive(from)
  /\ m_bt_data_ptr' = [m_bt_data_ptr EXCEPT ![o] = m_bt_data_ptr[from],
                                            ![from] = m_bt_data_ptr[o]]
  /\ known' = [known EXCEPT ![o] = known[from], ![from] = known[o]]
  /\ UNCHANGED <<m_pStack, backtrace, fault>>

(* hash(): computed on first use.                                          *)
Hash(o) ==
  /\ Alive(o)
  /\ careful => known[o] = "whole"
  /\ IF ~Whole(o)
     THEN Crash
     ELSE /\ backtrace[Stack(o)].hashIsNotValid
          /\ backtrace' = [backtrace EXCEPT ![Stack(o)].hash = backtrace[Stack(o)].frames,
                                            ![Stack(o)].hashIsNotValid = FALSE]
          /\ UNCHANGED <<m_bt_data_ptr, m_pStack, fault, known>>

(* frames() or numberOfFrames(), which change nothing.                     *)
Read(o) ==
  /\ Alive(o)
  /\ careful => known[o] = "whole"
  /\ ~Whole(o) /\ Crash

(* ~Backtrace() frees the backtrace and the Backtrace_p, if there is one.  *)
Destroy(o) ==
  /\ Alive(o)
  /\ \/ m_bt_data_ptr[o] # Null /\ ~Sound(o) /\ Crash
     \/ /\ \/ m_bt_data_ptr[o] = Null /\ UNCHANGED <<m_pStack, backtrace>>
           \/ /\ Sound(o)
              /\ m_pStack' = [m_pStack EXCEPT ![m_bt_data_ptr[o]] = Unused]
              /\ backtrace' = Freed(backtrace, Stack(o))
        /\ m_bt_data_ptr' = [m_bt_data_ptr EXCEPT ![o] = Unused]
        /\ known' = [known EXCEPT ![o] = "dead"]
        /\ UNCHANGED fault

-----------------------------------------------------------------------------
Next ==
  /\ ~fault
  /\ UNCHANGED careful
  /\ \E o \in Objects :
       \/ Construct(o) \/ Hash(o) \/ Read(o) \/ Destroy(o)
       \/ \E from \in Objects :
            \/ CopyConstruct(o, from) \/ MoveConstruct(o, from)
            \/ CopyAssign(o, from) \/ MoveAssign(o, from)

Spec == Init /\ [][Next]_vars

-----------------------------------------------------------------------------
Owned == {m_pStack[p] : p \in Privates} \ {Unused, Null}

(* Every variable has its type; in particular a backtrace's frames are     *)
(* always written.                                                         *)
TypeOK ==
  /\ m_bt_data_ptr \in [Objects -> Privates \cup {Null, Unused}]
  /\ m_pStack \in [Privates -> Blocks \cup {Null, Unused}]
  /\ backtrace \in [Blocks -> Backtrace \cup {Unused}]
  /\ known \in [Objects -> Knowledge]
  /\ fault \in BOOLEAN /\ careful \in BOOLEAN

(* Two objects never share a Backtrace_p, nor two Backtrace_p a backtrace: *)
(* no destructor, copy or assignment can free what another object uses.    *)
OneOwner ==
  /\ \A o, x \in Objects :
       o # x /\ m_bt_data_ptr[o] \in Privates => m_bt_data_ptr[o] # m_bt_data_ptr[x]
  /\ \A p, q \in Privates : p # q /\ m_pStack[p] \in Blocks => m_pStack[p] # m_pStack[q]

(* Whatever is allocated belongs to an object that is alive, and whatever  *)
(* an object points to is allocated, after failures and moves too.         *)
NothingLeaks ==
  /\ \A p \in Privates : m_pStack[p] # Unused <=> \E o \in Objects : m_bt_data_ptr[o] = p
  /\ \A b \in Blocks : backtrace[b] # Unused <=> b \in Owned

(* A hash whose flag is down is the hash of the frames it is stored with,  *)
(* on every copy, however often it was cloned and when it was computed.    *)
HashIsOfFrames ==
  \A b \in Blocks :
    backtrace[b] # Unused /\ ~backtrace[b].hashIsNotValid => backtrace[b].hash = backtrace[b].frames

(* A program that knows an object to be whole when it reads or copies it,  *)
(* does not copy into one it moved from and does not copy one into itself  *)
(* never reads or frees a null pointer or freed memory: what it knows from *)
(* its own calls and their exceptions is what memory holds.  It may        *)
(* destroy any object once, move any object, and assign again to one whose *)
(* last assignment failed.                                                 *)
CarefulIsSafe == careful => ~fault

(* What the program sees of an object: its frames, or why it has none.  A  *)
(* pointer to freed memory would be as good as no object.                  *)
ValueOf(o) ==
  IF m_bt_data_ptr[o] \in {Null, Unused}
  THEN m_bt_data_ptr[o]
  ELSE IF Bare(o)
       THEN Empty
       ELSE IF Whole(o) THEN backtrace[Stack(o)].frames ELSE Unused

value == [o \in Objects |-> ValueOf(o)]

Values == INSTANCE BacktraceValues WITH ended <- fault

(* Objects are values: whatever the pointers do, no construction, copy,    *)
(* assignment or destruction of one object is seen through another, and a  *)
(* failure costs at most the object that is assigned to.                   *)
ImplementsValues == Values!Spec
=============================================================================
