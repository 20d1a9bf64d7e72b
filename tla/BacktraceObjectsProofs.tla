----------------------- MODULE BacktraceObjectsProofs -----------------------
(***************************************************************************)
(* Proofs about BacktraceObjects for any number of objects and any memory. *)
(***************************************************************************)
EXTENDS BacktraceObjects, TLAPS

(* What the program should know of o, by what is in memory.                *)
KnownOf(o) ==
  IF m_bt_data_ptr[o] = Unused
  THEN "dead"
  ELSE IF m_bt_data_ptr[o] = Null
       THEN "moved"
       ELSE IF Stack(o) = Null THEN "failed" ELSE "whole"

(* What the program knows from its calls is what is in memory.             *)
Knows == \A o \in Objects : known[o] = KnownOf(o)

IInv == /\ TypeOK /\ OneOwner /\ NothingLeaks /\ HashIsOfFrames
        /\ Knows /\ CarefulIsSafe

-----------------------------------------------------------------------------
(* The step of one object, or of one object and another.                   *)
LEMMA StepCases ==
  ASSUME Next
  PROVE  /\ UNCHANGED careful
         /\ \E o \in Objects :
              \/ Construct(o) \/ Hash(o) \/ Read(o) \/ Destroy(o)
              \/ \E from \in Objects :
                   \/ CopyConstruct(o, from) \/ MoveConstruct(o, from)
                   \/ CopyAssign(o, from) \/ MoveAssign(o, from)
BY DEF Next

(* What o's pointers look like: those that are followed lead to memory     *)
(* that is allocated.                                                      *)
LEMMA Pointers ==
  ASSUME IInv, NEW o \in Objects
  PROVE  /\ m_bt_data_ptr[o] \in Privates \cup {Null, Unused}
         /\ m_bt_data_ptr[o] \in Privates => Sound(o) /\ Stack(o) \in Blocks \cup {Null}
         /\ Whole(o) <=> m_bt_data_ptr[o] \in Privates /\ Stack(o) # Null
         /\ Bare(o) <=> m_bt_data_ptr[o] \in Privates /\ Stack(o) = Null
         /\ Whole(o) => Stack(o) \in Blocks /\ backtrace[Stack(o)] \in Backtrace
<1> USE NullAssumption, UnusedAssumption
<1>1. m_bt_data_ptr[o] \in Privates \cup {Null, Unused}
  BY DEF IInv, TypeOK
<1>2. CASE m_bt_data_ptr[o] \in Privates
  <2>1. Stack(o) \in Blocks \cup {Null} /\ Stack(o) # Unused
    BY <1>2 DEF IInv, TypeOK, NothingLeaks, Stack
  <2>2. Stack(o) # Null => Stack(o) \in Owned
    BY <1>2, <2>1 DEF Owned, Stack
  <2>3. Stack(o) # Null => Stack(o) \in Blocks /\ backtrace[Stack(o)] \in Backtrace
                            /\ backtrace[Stack(o)] # Unused
    BY <2>1, <2>2 DEF IInv, TypeOK, NothingLeaks
  <2>4. QED
    BY <1>2, <2>1, <2>3 DEF Sound, Whole, Bare, Pointing
<1>3. CASE m_bt_data_ptr[o] \notin Privates
  BY <1>1, <1>3 DEF Whole, Bare, Pointing
<1>4. QED
  BY <1>2, <1>3

LEMMA WholeFacts ==
  ASSUME IInv, NEW o \in Objects, Whole(o)
  PROVE  /\ m_bt_data_ptr[o] \in Privates /\ Stack(o) \in Blocks
         /\ backtrace[Stack(o)] \in Backtrace
BY Pointers

(* What the program knows of o tells it what memory holds.                 *)
LEMMA Knowing ==
  ASSUME IInv, NEW o \in Objects
  PROVE  /\ Alive(o) <=> m_bt_data_ptr[o] # Unused
         /\ known[o] = "whole" => Whole(o)
         /\ Alive(o) /\ known[o] # "moved" => Sound(o)
         /\ Alive(o) /\ m_bt_data_ptr[o] # Null => Sound(o)
<1> USE NullAssumption, UnusedAssumption
<1>1. known[o] = KnownOf(o)
  BY DEF IInv, Knows
<1>2. CASE m_bt_data_ptr[o] \in {Null, Unused}
  BY <1>1, <1>2 DEF KnownOf, Alive
<1>3. CASE m_bt_data_ptr[o] \in Privates
  <2>1. known[o] = IF Stack(o) = Null THEN "failed" ELSE "whole"
    BY <1>1, <1>3 DEF KnownOf
  <2>2. QED
    BY <1>3, <2>1, Pointers DEF Alive
<1>4. QED
  BY <1>2, <1>3, Pointers

(* What is known of an object stays right while its pointers stay.         *)
LEMMA StillKnown ==
  ASSUME IInv, NEW x \in Objects, known'[x] = known[x],
         m_bt_data_ptr'[x] = m_bt_data_ptr[x],
         m_bt_data_ptr[x] \in Privates => m_pStack'[m_bt_data_ptr[x]] = m_pStack[m_bt_data_ptr[x]]
  PROVE  known'[x] = KnownOf(x)'
<1>1. known[x] = KnownOf(x)
  BY DEF IInv, Knows
<1>2. CASE m_bt_data_ptr[x] \in {Null, Unused}
  BY <1>1, <1>2 DEF KnownOf
<1>3. CASE m_bt_data_ptr[x] \in Privates
  BY <1>1, <1>3 DEF KnownOf, Stack
<1>4. QED
  BY <1>2, <1>3, Pointers

(* A crash changes nothing else; a program that keeps to the rules is not  *)
(* there.                                                                  *)
LEMMA CrashStep ==
  ASSUME IInv, Crash, ~careful, UNCHANGED careful
  PROVE  IInv'
BY DEF IInv, Crash, heap, TypeOK, OneOwner, NothingLeaks, Owned, HashIsOfFrames, Knows, KnownOf,
       Stack, CarefulIsSafe

(* A new Backtrace_p at p with a backtrace r at b, for o.                  *)
LEMMA ConstructedStep ==
  ASSUME IInv, UNCHANGED careful, NEW o \in Objects, NEW p \in Privates, NEW b \in Blocks,
         NEW r \in Backtrace,
         ~Alive(o), Constructed(o, p, b),
         backtrace' = [backtrace EXCEPT ![b] = r],
         r.hashIsNotValid \/ r.hash = r.frames
  PROVE  IInv'
<1> USE NullAssumption, UnusedAssumption
<1>0. m_bt_data_ptr[o] = Unused
  BY Knowing
<1>1. TypeOK'
  BY DEF IInv, TypeOK, Constructed, Knowledge
<1>2. OneOwner'
  BY <1>0 DEF IInv, TypeOK, OneOwner, NothingLeaks, Owned, Constructed
<1>3. NothingLeaks'
  <2>1. \A q \in Privates : (m_pStack'[q] # Unused <=> \E x \in Objects : m_bt_data_ptr'[x] = q)
    BY <1>0 DEF IInv, TypeOK, NothingLeaks, Constructed
  <2>2. \A c \in Blocks : (backtrace'[c] # Unused <=> c \in Owned')
    BY DEF IInv, TypeOK, NothingLeaks, Owned, Constructed
  <2>3. QED
    BY <2>1, <2>2 DEF NothingLeaks
<1>4. HashIsOfFrames' /\ CarefulIsSafe'
  BY DEF IInv, TypeOK, HashIsOfFrames, CarefulIsSafe, Constructed
<1>5. Knows'
  <2>1. known'[o] = KnownOf(o)'
    BY DEF IInv, TypeOK, Constructed, KnownOf, Stack
  <2>2. ASSUME NEW x \in Objects, x # o PROVE known'[x] = KnownOf(x)'
    <3>1. m_bt_data_ptr[x] \in Privates => m_bt_data_ptr[x] # p
      BY DEF IInv, NothingLeaks, Constructed
    <3>2. QED
      BY <2>2, <3>1, StillKnown DEF IInv, TypeOK, Constructed
  <2>3. QED
    BY <2>1, <2>2 DEF Knows
<1>6. QED
  BY <1>1, <1>2, <1>3, <1>4, <1>5 DEF IInv

(* A clone of a backtrace is a backtrace, with a right hash or none.       *)
LEMMA CloneIsBacktrace ==
  ASSUME IInv, NEW source \in Blocks, backtrace[source] \in Backtrace
  PROVE  LET r == [frames |-> backtrace[source].frames, hash |-> backtrace[source].hash,
                   hashIsNotValid |-> backtrace[source].hashIsNotValid]
         IN r \in Backtrace /\ (r.hashIsNotValid \/ r.hash = r.frames)
BY UnusedAssumption DEF IInv, HashIsOfFrames, Backtrace

LEMMA ConstructStep ==
  ASSUME IInv, UNCHANGED careful, NEW o \in Objects, Construct(o)
  PROVE  IInv'
<1>1. PICK p \in Privates, b \in Blocks, f \in Frames :
        Constructed(o, p, b) /\ backtrace' = Captured(backtrace, b, f)
  BY DEF Construct
<1> DEFINE r == [frames |-> f, hash |-> Garbage, hashIsNotValid |-> TRUE]
<1>2. r \in Backtrace /\ r.hashIsNotValid
  BY DEF Backtrace
<1>3. backtrace' = [backtrace EXCEPT ![b] = r]
  BY <1>1 DEF Captured
<1> HIDE DEF r
<1>4. QED
  BY <1>1, <1>2, <1>3, ConstructedStep DEF Construct

LEMMA CopyConstructStep ==
  ASSUME IInv, UNCHANGED careful, NEW o \in Objects, NEW from \in Objects, CopyConstruct(o, from)
  PROVE  IInv'
<1>1. CASE ~Sound(from) /\ Crash
  BY <1>1, CrashStep, Knowing DEF CopyConstruct, Sound
<1>2. CASE Whole(from)
           /\ \E p \in Privates, b \in Blocks :
                Constructed(o, p, b) /\ backtrace' = Cloned(backtrace, b, Stack(from))
  <2>1. PICK p \in Privates, b \in Blocks :
          Constructed(o, p, b) /\ backtrace' = Cloned(backtrace, b, Stack(from))
    BY <1>2
  <2> DEFINE source == Stack(from)
             r == [frames |-> backtrace[source].frames, hash |-> backtrace[source].hash,
                   hashIsNotValid |-> backtrace[source].hashIsNotValid]
  <2>2. r \in Backtrace /\ (r.hashIsNotValid \/ r.hash = r.frames)
    BY <1>2, WholeFacts, CloneIsBacktrace
  <2>3. backtrace' = [backtrace EXCEPT ![b] = r]
    BY <2>1 DEF Cloned
  <2> HIDE DEF r
  <2>4. QED
    BY <1>2, <2>1, <2>2, <2>3, ConstructedStep DEF CopyConstruct
<1>3. QED
  BY <1>1, <1>2 DEF CopyConstruct

LEMMA MoveConstructStep ==
  ASSUME IInv, UNCHANGED careful, NEW o \in Objects, NEW from \in Objects, MoveConstruct(o, from)
  PROVE  IInv'
<1> USE NullAssumption, UnusedAssumption
<1>0. o # from /\ m_bt_data_ptr[o] = Unused
  BY Knowing DEF MoveConstruct, Alive
<1>1. TypeOK' /\ HashIsOfFrames' /\ CarefulIsSafe'
  BY DEF IInv, TypeOK, HashIsOfFrames, CarefulIsSafe, MoveConstruct, Knowledge
<1>2. OneOwner'
  BY <1>0 DEF IInv, TypeOK, OneOwner, MoveConstruct
<1>3. NothingLeaks'
  <2>1. \A q \in Privates : (\E x \in Objects : m_bt_data_ptr[x] = q)
                             <=> (\E x \in Objects : m_bt_data_ptr'[x] = q)
    BY <1>0 DEF IInv, TypeOK, MoveConstruct
  <2>2. m_pStack' = m_pStack /\ backtrace' = backtrace /\ Owned' = Owned
    BY DEF MoveConstruct, Owned
  <2>3. QED
    BY <2>1, <2>2 DEF IInv, NothingLeaks
<1>4. Knows'
  <2>1. known'[o] = KnownOf(o)' /\ known'[from] = KnownOf(from)'
    BY <1>0 DEF IInv, TypeOK, MoveConstruct, Knows, KnownOf, Stack
  <2>2. \A x \in Objects : x # o /\ x # from => known'[x] = KnownOf(x)'
    BY StillKnown DEF IInv, TypeOK, MoveConstruct
  <2>3. QED
    BY <2>1, <2>2 DEF Knows
<1>5. QED
  BY <1>1, <1>2, <1>3, <1>4 DEF IInv

LEMMA MoveAssignStep ==
  ASSUME IInv, UNCHANGED careful, NEW o \in Objects, NEW from \in Objects, MoveAssign(o, from)
  PROVE  IInv'
<1>0. /\ m_bt_data_ptr'[o] = m_bt_data_ptr[from] /\ m_bt_data_ptr'[from] = m_bt_data_ptr[o]
      /\ \A x \in Objects \ {o, from} : m_bt_data_ptr'[x] = m_bt_data_ptr[x]
  BY DEF IInv, TypeOK, MoveAssign
<1>1. TypeOK' /\ HashIsOfFrames' /\ CarefulIsSafe'
  BY DEF IInv, TypeOK, HashIsOfFrames, CarefulIsSafe, MoveAssign, Knowledge
<1>2. OneOwner'
  BY <1>0 DEF IInv, TypeOK, OneOwner, MoveAssign
<1>3. NothingLeaks'
  <2>1. \A q \in Privates : (\E x \in Objects : m_bt_data_ptr[x] = q)
                             <=> (\E x \in Objects : m_bt_data_ptr'[x] = q)
    BY <1>0
  <2>2. m_pStack' = m_pStack /\ backtrace' = backtrace /\ Owned' = Owned
    BY DEF MoveAssign, Owned
  <2>3. QED
    BY <2>1, <2>2 DEF IInv, NothingLeaks
<1>4. Knows'
  <2>1. known'[o] = KnownOf(o)' /\ known'[from] = KnownOf(from)'
    BY <1>0 DEF IInv, TypeOK, MoveAssign, Knows, KnownOf, Stack
  <2>2. \A x \in Objects : x # o /\ x # from => known'[x] = KnownOf(x)'
    BY StillKnown DEF IInv, TypeOK, MoveAssign
  <2>3. QED
    BY <2>1, <2>2 DEF Knows
<1>5. QED
  BY <1>1, <1>2, <1>3, <1>4 DEF IInv

LEMMA HashStep ==
  ASSUME IInv, UNCHANGED careful, NEW o \in Objects, Hash(o)
  PROVE  IInv'
<1> USE UnusedAssumption
<1>1. CASE ~Whole(o)
  BY <1>1, CrashStep, Knowing DEF Hash
<1>2. CASE Whole(o)
  <2> DEFINE b == Stack(o)
  <2>1. b \in Blocks /\ backtrace[b] \in Backtrace
    BY <1>2, WholeFacts
  <2>2. /\ \A c \in Blocks : c # b => backtrace'[c] = backtrace[c]
        /\ backtrace'[b] \in Backtrace /\ backtrace'[b].hash = backtrace'[b].frames
        /\ backtrace' \in [Blocks -> Backtrace \cup {Unused}]
        /\ UNCHANGED <<m_bt_data_ptr, m_pStack, fault, known>>
    BY <1>2, <2>1 DEF Hash, IInv, TypeOK, Backtrace
  <2>3. \A c \in Blocks : backtrace'[c] # Unused <=> backtrace[c] # Unused
    BY <2>1, <2>2
  <2>4. TypeOK' /\ OneOwner' /\ HashIsOfFrames' /\ CarefulIsSafe'
    BY <2>1, <2>2 DEF IInv, TypeOK, OneOwner, HashIsOfFrames, CarefulIsSafe
  <2>5. NothingLeaks'
    BY <2>2, <2>3 DEF IInv, NothingLeaks, Owned
  <2>6. Knows'
    BY <2>2, StillKnown DEF Knows
  <2>7. QED
    BY <2>4, <2>5, <2>6 DEF IInv
<1>3. QED
  BY <1>1, <1>2

LEMMA DestroyStep ==
  ASSUME IInv, UNCHANGED careful, NEW o \in Objects, Destroy(o)
  PROVE  IInv'
<1> USE NullAssumption, UnusedAssumption
<1>1. ~(m_bt_data_ptr[o] # Null /\ ~Sound(o))
  BY Knowing DEF Destroy
<1>2. /\ m_bt_data_ptr' = [m_bt_data_ptr EXCEPT ![o] = Unused]
      /\ known' = [known EXCEPT ![o] = "dead"]
      /\ UNCHANGED fault
  BY <1>1 DEF Destroy
<1>3. ASSUME \A x \in Objects : x # o /\ m_bt_data_ptr[x] \in Privates
                => m_pStack'[m_bt_data_ptr[x]] = m_pStack[m_bt_data_ptr[x]]
      PROVE  Knows'
  <2>1. known'[o] = KnownOf(o)'
    BY <1>2 DEF IInv, TypeOK, KnownOf
  <2>2. \A x \in Objects : x # o => known'[x] = KnownOf(x)'
    BY <1>2, <1>3, StillKnown DEF IInv, TypeOK
  <2>3. QED
    BY <2>1, <2>2 DEF Knows
<1>4. CASE m_bt_data_ptr[o] = Null
  <2>1. UNCHANGED <<m_pStack, backtrace>>
    BY <1>1, <1>4 DEF Destroy, Sound, Whole, Bare, Pointing
  <2>2. TypeOK' /\ OneOwner' /\ HashIsOfFrames' /\ CarefulIsSafe'
    BY <1>2, <1>4, <2>1 DEF IInv, TypeOK, OneOwner, HashIsOfFrames, CarefulIsSafe, Knowledge
  <2>3. NothingLeaks'
    BY <1>2, <1>4, <2>1 DEF IInv, TypeOK, NothingLeaks, Owned
  <2>4. QED
    BY <1>3, <2>1, <2>2, <2>3 DEF IInv
<1>5. CASE m_bt_data_ptr[o] # Null
  <2> DEFINE p == m_bt_data_ptr[o]
             b == m_pStack[p]
  <2>1. p \in Privates
    BY <1>5, Pointers, Knowing DEF Destroy
  <2>2. /\ m_pStack' = [m_pStack EXCEPT ![p] = Unused]
        /\ \A c \in Blocks : backtrace'[c] = IF c = b THEN Unused ELSE backtrace[c]
        /\ backtrace' \in [Blocks -> Backtrace \cup {Unused}]
    BY <1>1, <1>5 DEF Destroy, Freed, Stack, IInv, TypeOK
  <2>3. \A x \in Objects : x # o => m_bt_data_ptr[x] # p
    BY <2>1 DEF IInv, OneOwner
  <2>4. \A q \in Privates : q # p /\ m_pStack[q] \in Blocks => m_pStack[q] # b
    BY <2>1 DEF IInv, OneOwner
  <2>5. TypeOK' /\ OneOwner' /\ HashIsOfFrames' /\ CarefulIsSafe'
    BY <1>2, <2>2 DEF IInv, TypeOK, OneOwner, HashIsOfFrames, CarefulIsSafe, Knowledge
  <2>6. \A q \in Privates : m_pStack'[q] # Unused <=> \E x \in Objects : m_bt_data_ptr'[x] = q
    BY <1>2, <2>1, <2>2, <2>3 DEF IInv, TypeOK, NothingLeaks
  <2>7. \A c \in Blocks : backtrace'[c] # Unused <=> c \in Owned'
    BY <2>1, <2>2, <2>4 DEF IInv, TypeOK, NothingLeaks, Owned
  <2>8. Knows'
    BY <1>3, <2>2, <2>3 DEF IInv, TypeOK
  <2>9. QED
    BY <2>5, <2>6, <2>7, <2>8 DEF IInv, NothingLeaks
<1>6. QED
  BY <1>4, <1>5

(* Freeing the backtrace of one object leaves that of another.             *)
LEMMA FreedOther ==
  ASSUME IInv, NEW o \in Objects, NEW from \in Objects, Sound(o), Whole(from), o # from
  PROVE  Freed(backtrace, m_pStack[m_bt_data_ptr[o]])[Stack(from)] # Unused
<1> USE NullAssumption, UnusedAssumption
<1>1. m_bt_data_ptr[o] \in Privates
  BY Pointers DEF Sound, Whole, Bare, Pointing
<1>2. /\ m_bt_data_ptr[from] \in Privates /\ Stack(from) \in Blocks
      /\ backtrace[Stack(from)] \in Backtrace
  BY WholeFacts
<1>3. m_bt_data_ptr[o] # m_bt_data_ptr[from]
  BY <1>1 DEF IInv, OneOwner
<1>4. Stack(from) # m_pStack[m_bt_data_ptr[o]]
  BY <1>1, <1>2, <1>3 DEF Stack, IInv, OneOwner
<1>5. QED
  BY <1>2, <1>4 DEF Freed

(* A program that keeps to the rules assigns what is there.                *)
LEMMA CarefulAssigns ==
  ASSUME IInv, NEW o \in Objects, NEW from \in Objects, CopyAssign(o, from), careful
  PROVE  /\ Sound(o) /\ Sound(from)
         /\ Freed(backtrace, m_pStack[m_bt_data_ptr[o]])[Stack(from)] # Unused
<1>1. Sound(o) /\ Whole(from) /\ o # from
  BY Knowing DEF CopyAssign
<1>2. QED
  BY <1>1, FreedOther DEF Sound

(* A step at o's own Backtrace_p leaves what is known of the others right. *)
LEMMA OwnKnown ==
  ASSUME IInv, NEW o \in Objects, m_bt_data_ptr[o] \in Privates, UNCHANGED m_bt_data_ptr,
         \A q \in Privates : q # m_bt_data_ptr[o] => m_pStack'[q] = m_pStack[q],
         \A x \in Objects : x # o => known'[x] = known[x],
         known'[o] = KnownOf(o)'
  PROVE  Knows'
<1>1. ASSUME NEW x \in Objects, x # o PROVE known'[x] = KnownOf(x)'
  <2>1. m_bt_data_ptr[x] # m_bt_data_ptr[o]
    BY <1>1 DEF IInv, OneOwner
  <2>2. QED
    BY <1>1, <2>1, StillKnown
<1>2. QED
  BY <1>1 DEF Knows

LEMMA CopyAssignStep ==
  ASSUME IInv, UNCHANGED careful, NEW o \in Objects, NEW from \in Objects, CopyAssign(o, from)
  PROVE  IInv'
<1> USE NullAssumption, UnusedAssumption
<1> DEFINE p == m_bt_data_ptr[o]
           old == m_pStack[p]
           left == Freed(backtrace, old)
           crashes == \/ ~Sound(o) \/ ~Sound(from)
                      \/ Whole(from) /\ left[Stack(from)] = Unused
<1>1. CASE crashes /\ Crash
  BY <1>1, CrashStep, CarefulAssigns
<1>2. CASE ~crashes
  <2>1. p \in Privates /\ UNCHANGED <<m_bt_data_ptr, fault>>
    BY <1>2, Pointers DEF CopyAssign, Crash, Stack, Sound, Whole, Bare, Pointing
  <2>2. \A q \in Privates : q # p /\ m_pStack[q] \in Blocks => m_pStack[q] # old
    BY <2>1 DEF IInv, OneOwner
  <2>3. m_pStack[p] # Unused
    BY <2>1 DEF IInv, NothingLeaks
  <2>4. /\ left \in [Blocks -> Backtrace \cup {Unused}]
        /\ \A c \in Blocks : left[c] = IF c = old THEN Unused ELSE backtrace[c]
    BY DEF Freed, IInv, TypeOK
  <2>5. CASE /\ m_pStack' = [m_pStack EXCEPT ![p] = Null] /\ backtrace' = left
            /\ known' = [known EXCEPT ![o] = "failed"]
    <3>1. TypeOK' /\ OneOwner' /\ HashIsOfFrames' /\ CarefulIsSafe'
      BY <2>1, <2>4, <2>5 DEF IInv, TypeOK, OneOwner, HashIsOfFrames, CarefulIsSafe, Knowledge
    <3>2. \A q \in Privates : m_pStack'[q] # Unused <=> \E x \in Objects : m_bt_data_ptr'[x] = q
      BY <2>1, <2>3, <2>5 DEF IInv, TypeOK, NothingLeaks
    <3>3. \A c \in Blocks : backtrace'[c] # Unused <=> c \in Owned'
      BY <2>1, <2>2, <2>4, <2>5 DEF IInv, TypeOK, NothingLeaks, Owned
    <3>4. known'[o] = KnownOf(o)'
      BY <2>1, <2>5 DEF IInv, TypeOK, KnownOf, Stack
    <3>5. QED
      BY <2>1, <2>5, <3>1, <3>2, <3>3, <3>4, OwnKnown DEF IInv, NothingLeaks
  <2>6. CASE \E b \in Blocks : /\ Whole(from) /\ left[b] = Unused
                               /\ m_pStack' = [m_pStack EXCEPT ![p] = b]
                               /\ backtrace' = Cloned(left, b, Stack(from))
                               /\ known' = [known EXCEPT ![o] = "whole"]
    <3>1. PICK b \in Blocks : /\ Whole(from) /\ left[b] = Unused
                              /\ m_pStack' = [m_pStack EXCEPT ![p] = b]
                              /\ backtrace' = Cloned(left, b, Stack(from))
                              /\ known' = [known EXCEPT ![o] = "whole"]
      BY <2>6
    <3> DEFINE source == Stack(from)
               r == [frames |-> backtrace[source].frames, hash |-> backtrace[source].hash,
                     hashIsNotValid |-> backtrace[source].hashIsNotValid]
    <3>2. source \in Blocks /\ backtrace[source] \in Backtrace
      BY <3>1, WholeFacts
    <3>3. source # old
      <4>1. m_bt_data_ptr[from] \in Privates /\ m_bt_data_ptr[from] # p
        <5>1. m_bt_data_ptr[from] \in Privates /\ left[Stack(from)] # Unused
          BY <1>2, <3>1, WholeFacts
        <5>2. o # from
          BY <2>4, <3>2, <5>1 DEF Stack
        <5>3. QED
          BY <5>1, <5>2 DEF IInv, OneOwner
      <4>2. QED
        BY <2>2, <3>2, <4>1 DEF Stack
    <3>4. r \in Backtrace /\ (r.hashIsNotValid \/ r.hash = r.frames)
      BY <3>2, CloneIsBacktrace
    <3>5. backtrace' = [left EXCEPT ![b] = r]
      BY <2>4, <3>1, <3>2, <3>3 DEF Cloned
    <3> HIDE DEF r, source, crashes, left, old, p
    <3>6. /\ backtrace'[b] = r
          /\ \A c \in Blocks : c # b => backtrace'[c] = left[c]
          /\ backtrace' \in [Blocks -> Backtrace \cup {Unused}]
      BY <2>4, <3>4, <3>5
    <3>7. \A q \in Privates : q # p => m_pStack[q] # b
      BY <2>2, <2>4, <3>1 DEF IInv, TypeOK, NothingLeaks, Owned
    <3>8. TypeOK' /\ CarefulIsSafe'
      BY <2>1, <3>1, <3>6 DEF IInv, TypeOK, CarefulIsSafe, Knowledge
    <3>9. OneOwner'
      BY <2>1, <3>1, <3>7 DEF IInv, TypeOK, OneOwner
    <3>10. HashIsOfFrames'
      BY <2>4, <3>4, <3>6 DEF IInv, HashIsOfFrames
    <3>11. \A q \in Privates : m_pStack'[q] # Unused <=> \E x \in Objects : m_bt_data_ptr'[x] = q
      BY <2>1, <2>3, <3>1 DEF IInv, TypeOK, NothingLeaks, p
    <3>12. \A c \in Blocks : backtrace'[c] # Unused <=> c \in Owned'
      <4>1. backtrace'[b] # Unused /\ b \in Owned'
        BY <2>1, <3>1, <3>4, <3>6 DEF IInv, TypeOK, Owned
      <4>2. \A c \in Blocks : c # b => (c \in Owned' <=> c \in Owned /\ c # old)
        BY <2>1, <2>2, <3>1 DEF IInv, TypeOK, Owned, old
      <4>3. QED
        BY <2>4, <3>6, <4>1, <4>2 DEF IInv, NothingLeaks
    <3>13. Knows'
      <4>1. known'[o] = KnownOf(o)'
        BY <2>1, <3>1 DEF IInv, TypeOK, KnownOf, Stack, p
      <4>2. QED
        BY <2>1, <3>1, <4>1, OwnKnown DEF IInv, TypeOK, p
    <3>14. QED
      BY <3>8, <3>9, <3>10, <3>11, <3>12, <3>13 DEF IInv, NothingLeaks
  <2>7. QED
    BY <1>2, <2>5, <2>6 DEF CopyAssign, Stack
<1>3. QED
  BY <1>1, <1>2 DEF CopyAssign, Stack

LEMMA InvStep ==
  ASSUME IInv, [Next]_vars
  PROVE  IInv'
<1>1. CASE Next
  <2>1. PICK o \in Objects :
           \/ Construct(o) \/ Hash(o) \/ Read(o) \/ Destroy(o)
           \/ \E from \in Objects :
                \/ CopyConstruct(o, from) \/ MoveConstruct(o, from)
                \/ CopyAssign(o, from) \/ MoveAssign(o, from)
    BY <1>1, StepCases
  <2>2. CASE Construct(o)
    BY <1>1, <2>2, StepCases, ConstructStep
  <2>3. CASE Hash(o)
    BY <1>1, <2>3, StepCases, HashStep
  <2>4. CASE Read(o)
    BY <1>1, <2>4, StepCases, CrashStep, Knowing DEF Read
  <2>5. CASE Destroy(o)
    BY <1>1, <2>5, StepCases, DestroyStep
  <2>6. CASE \E from \in Objects :
               \/ CopyConstruct(o, from) \/ MoveConstruct(o, from)
               \/ CopyAssign(o, from) \/ MoveAssign(o, from)
    BY <1>1, <2>6, StepCases, CopyConstructStep, MoveConstructStep, CopyAssignStep, MoveAssignStep
  <2>7. QED
    BY <2>1, <2>2, <2>3, <2>4, <2>5, <2>6
<1>2. CASE UNCHANGED vars
  BY <1>2 DEF vars, heap, IInv, TypeOK, OneOwner, NothingLeaks, Owned, HashIsOfFrames, Knows,
              KnownOf, Stack, CarefulIsSafe
<1>3. QED
  BY <1>1, <1>2

LEMMA InvInit ==
  ASSUME Init
  PROVE  IInv
BY UnusedAssumption
   DEF Init, IInv, TypeOK, OneOwner, NothingLeaks, Owned, HashIsOfFrames, Knows, KnownOf,
       Knowledge, CarefulIsSafe

THEOREM Invariance == Spec => []IInv
<1>1. Init => IInv
  BY InvInit
<1>2. IInv /\ [Next]_vars => IInv'
  BY InvStep
<1>3. QED
  BY <1>1, <1>2, PTL DEF Spec

-----------------------------------------------------------------------------
(* No two objects come to own one backtrace, whatever is copied, moved,    *)
(* assigned or fails.                                                      *)
THEOREM BacktracesHaveOneOwner == Spec => []OneOwner
<1>1. IInv => OneOwner
  BY DEF IInv
<1>2. QED
  BY <1>1, Invariance, PTL

(* No backtrace is lost, and none is freed that an object points to.       *)
THEOREM NoBacktraceLeaks == Spec => []NothingLeaks
<1>1. IInv => NothingLeaks
  BY DEF IInv
<1>2. QED
  BY <1>1, Invariance, PTL

(* Every hash that is used is the hash of the frames it is stored with.    *)
THEOREM HashesAreRight == Spec => []HashIsOfFrames
<1>1. IInv => HashIsOfFrames
  BY DEF IInv
<1>2. QED
  BY <1>1, Invariance, PTL

(* Programs that keep to the rules never dereference a null pointer or     *)
(* freed memory through the class.                                         *)
THEOREM CarefulProgramsAreSafe == Spec => []CarefulIsSafe
<1>1. IInv => CarefulIsSafe
  BY DEF IInv
<1>2. QED
  BY <1>1, Invariance, PTL

(* Every variable keeps its type: whatever is allocated as a backtrace has *)
(* its frames and its hash, for any number of objects.                     *)
THEOREM TypeCorrect == Spec => []TypeOK
<1>1. IInv => TypeOK
  BY DEF IInv
<1>2. QED
  BY <1>1, Invariance, PTL

-----------------------------------------------------------------------------
(* What the program sees of o, by what o points to.                        *)
LEMMA ValueFacts ==
  ASSUME IInv, NEW o \in Objects
  PROVE  /\ ValueOf(o) = Unused <=> m_bt_data_ptr[o] = Unused
         /\ ValueOf(o) = Null <=> m_bt_data_ptr[o] = Null
         /\ Whole(o) => /\ ValueOf(o) = backtrace[Stack(o)].frames /\ ValueOf(o) \in Frames
                        /\ m_bt_data_ptr[o] \in Privates /\ backtrace[Stack(o)] # Unused
         /\ m_bt_data_ptr[o] \in Privates /\ ~Whole(o) => Stack(o) = Null /\ ValueOf(o) = Empty
         /\ m_bt_data_ptr[o] \in Privates \cup {Null, Unused}
<1> USE NullAssumption, UnusedAssumption, ValueAssumption
<1>1. m_bt_data_ptr[o] \in Privates \cup {Null, Unused}
  BY DEF IInv, TypeOK
<1>2. CASE m_bt_data_ptr[o] \in {Null, Unused}
  BY <1>2, Pointers DEF ValueOf
<1>3. CASE m_bt_data_ptr[o] \in Privates
  <2>1. CASE Whole(o)
    <3>1. backtrace[Stack(o)].frames \in Frames /\ backtrace[Stack(o)] # Unused
      BY <2>1, WholeFacts DEF Backtrace
    <3>2. ~Bare(o)
      BY <2>1, Pointers
    <3>3. ValueOf(o) = backtrace[Stack(o)].frames
      BY <1>3, <2>1, <3>2 DEF ValueOf
    <3>4. QED
      BY <1>3, <2>1, <3>1, <3>3
  <2>2. CASE ~Whole(o)
    <3>1. Stack(o) = Null /\ Bare(o)
      BY <1>3, <2>2, Pointers
    <3>2. QED
      BY <1>3, <2>2, <3>1 DEF ValueOf
  <2>3. QED
    BY <2>1, <2>2
<1>4. QED
  BY <1>1, <1>2, <1>3

(* An object is seen unchanged when its pointers and its frames are.       *)
LEMMA ValueKept ==
  ASSUME IInv, NEW x \in Objects, m_bt_data_ptr'[x] = m_bt_data_ptr[x],
         m_bt_data_ptr[x] \in Privates => m_pStack'[m_bt_data_ptr[x]] = m_pStack[m_bt_data_ptr[x]],
         Whole(x) => /\ backtrace'[Stack(x)] # Unused
                     /\ backtrace'[Stack(x)].frames = backtrace[Stack(x)].frames
  PROVE  ValueOf(x)' = ValueOf(x)
<1> USE NullAssumption, UnusedAssumption
<1>1. CASE m_bt_data_ptr[x] \in {Null, Unused}
  BY <1>1 DEF ValueOf
<1>2. CASE m_bt_data_ptr[x] \in Privates
  <2>1. Stack(x)' = Stack(x) /\ (Bare(x)' <=> Bare(x))
    BY <1>2 DEF Stack, Bare, Pointing
  <2>2. CASE Whole(x)
    <3>1. Whole(x)' /\ ~Bare(x)
      BY <1>2, <2>1, <2>2 DEF Whole, Bare, Pointing, Stack
    <3>2. QED
      BY <1>2, <2>1, <2>2, <3>1 DEF ValueOf
  <2>3. CASE ~Whole(x)
    <3>1. Bare(x)
      BY <1>2, <2>3, Pointers
    <3>2. QED
      BY <1>2, <2>1, <3>1 DEF ValueOf
  <2>4. QED
    BY <2>2, <2>3
<1>3. QED
  BY <1>1, <1>2, ValueFacts

(* No other object sees what happens at a Backtrace_p that is o's or that  *)
(* was not allocated, and to its backtrace.                                *)
LEMMA OthersKept ==
  ASSUME IInv, NEW o \in Objects, NEW p \in Privates,
         m_bt_data_ptr[o] = p \/ m_pStack[p] = Unused,
         \A x \in Objects : x # o => m_bt_data_ptr'[x] = m_bt_data_ptr[x],
         \A q \in Privates : q # p => m_pStack'[q] = m_pStack[q],
         \A b \in Blocks : b # m_pStack[p] /\ backtrace[b] # Unused => backtrace'[b] = backtrace[b],
         NEW x \in Objects, x # o
  PROVE  ValueOf(x)' = ValueOf(x)
<1> USE NullAssumption, UnusedAssumption
<1>1. m_bt_data_ptr[x] # p
  <2>1. CASE m_bt_data_ptr[o] = p
    BY <2>1 DEF IInv, OneOwner
  <2>2. CASE m_pStack[p] = Unused
    BY <2>2 DEF IInv, NothingLeaks
  <2>3. QED
    BY <2>1, <2>2
<1>2. m_bt_data_ptr[x] \in Privates => m_pStack'[m_bt_data_ptr[x]] = m_pStack[m_bt_data_ptr[x]]
  BY <1>1
<1>3. ASSUME Whole(x)
      PROVE  backtrace[Stack(x)] # Unused /\ backtrace'[Stack(x)] = backtrace[Stack(x)]
  <2>1. m_bt_data_ptr[x] \in Privates /\ Stack(x) \in Blocks /\ backtrace[Stack(x)] # Unused
    BY <1>3, WholeFacts
  <2>2. Stack(x) # m_pStack[p]
    BY <1>1, <2>1 DEF IInv, OneOwner, Stack
  <2>3. QED
    BY <2>1, <2>2
<1>4. QED
  BY <1>2, <1>3, ValueKept

(* A step that is seen through one object.                                 *)
LEMMA SeenThrough ==
  ASSUME NEW o \in Objects, NEW v, ValueOf(o)' = v,
         \A x \in Objects : x # o => ValueOf(x)' = ValueOf(x)
  PROVE  value' = [value EXCEPT ![o] = v]
BY DEF value

-----------------------------------------------------------------------------
LEMMA ConstructedValue ==
  ASSUME IInv, NEW o \in Objects, NEW p \in Privates, NEW b \in Blocks, Constructed(o, p, b),
         NEW r \in Backtrace, backtrace' = [backtrace EXCEPT ![b] = r]
  PROVE  value' = [value EXCEPT ![o] = r.frames]
<1> USE NullAssumption, UnusedAssumption
<1>1. m_bt_data_ptr'[o] = p /\ m_pStack'[p] = b /\ backtrace'[b] = r
  BY DEF Constructed, IInv, TypeOK
<1>2. ValueOf(o)' = r.frames
  BY <1>1 DEF ValueOf, Whole, Bare, Pointing, Stack
<1>3. \A x \in Objects : x # o => ValueOf(x)' = ValueOf(x)
  <2>1. /\ m_pStack[p] = Unused
        /\ \A x \in Objects : x # o => m_bt_data_ptr'[x] = m_bt_data_ptr[x]
        /\ \A q \in Privates : q # p => m_pStack'[q] = m_pStack[q]
        /\ \A c \in Blocks : backtrace[c] # Unused => backtrace'[c] = backtrace[c]
    BY DEF Constructed, IInv, TypeOK
  <2>2. QED
    BY <2>1, OthersKept
<1>4. QED
  BY <1>2, <1>3, SeenThrough

LEMMA ConstructValue ==
  ASSUME IInv, NEW o \in Objects, Construct(o)
  PROVE  Values!Construct(o)
<1>1. PICK p \in Privates, b \in Blocks, f \in Frames :
        Constructed(o, p, b) /\ backtrace' = Captured(backtrace, b, f)
  BY DEF Construct
<1> DEFINE r == [frames |-> f, hash |-> Garbage, hashIsNotValid |-> TRUE]
<1>2. r \in Backtrace /\ r.frames = f
  BY DEF Backtrace
<1>3. backtrace' = [backtrace EXCEPT ![b] = r]
  BY <1>1 DEF Captured
<1> HIDE DEF r
<1>4. value' = [value EXCEPT ![o] = f]
  <2>1. value' = [value EXCEPT ![o] = r.frames]
    BY <1>1, <1>2, <1>3, ConstructedValue, Zenon
  <2>2. QED
    BY <1>2, <2>1
<1>5. ValueOf(o) = Unused /\ UNCHANGED fault
  BY <1>1, ValueFacts, Knowing DEF Construct, Constructed
<1>6. QED
  BY <1>4, <1>5 DEF Values!Construct, value

LEMMA CrashValue ==
  ASSUME IInv, NEW o \in Objects, Crash, ~careful, Alive(o)
  PROVE  Values!Misuse(o)
<1>1. value' = value
  BY DEF Crash, heap, value, ValueOf, Whole, Bare, Pointing, Stack
<1>2. ValueOf(o) # Unused
  BY ValueFacts, Knowing
<1>3. QED
  BY <1>1, <1>2 DEF Values!Misuse, Crash, value

LEMMA CopyConstructValue ==
  ASSUME IInv, NEW o \in Objects, NEW from \in Objects, CopyConstruct(o, from)
  PROVE  Values!CopyConstruct(o, from) \/ Values!Misuse(from)
<1>1. CASE ~Sound(from) /\ Crash
  BY <1>1, CrashValue, Knowing DEF CopyConstruct, Sound
<1>2. CASE Whole(from)
           /\ \E p \in Privates, b \in Blocks :
                Constructed(o, p, b) /\ backtrace' = Cloned(backtrace, b, Stack(from))
  <2>1. PICK p \in Privates, b \in Blocks :
          Constructed(o, p, b) /\ backtrace' = Cloned(backtrace, b, Stack(from))
    BY <1>2
  <2> DEFINE source == Stack(from)
             r == [frames |-> backtrace[source].frames, hash |-> backtrace[source].hash,
                   hashIsNotValid |-> backtrace[source].hashIsNotValid]
  <2>2. r \in Backtrace /\ r.frames = ValueOf(from)
    BY <1>2, WholeFacts, CloneIsBacktrace, ValueFacts
  <2>3. backtrace' = [backtrace EXCEPT ![b] = r]
    BY <2>1 DEF Cloned
  <2> HIDE DEF r
  <2>4. value' = [value EXCEPT ![o] = ValueOf(from)]
    <3>1. value' = [value EXCEPT ![o] = r.frames]
      BY <2>1, <2>2, <2>3, ConstructedValue, Zenon
    <3>2. QED
      BY <2>2, <3>1
  <2>5. ValueOf(o) = Unused /\ ValueOf(from) \in Frames
    BY <1>2, ValueFacts, Knowing DEF CopyConstruct
  <2>6. UNCHANGED fault
    BY <2>1 DEF Constructed
  <2>7. QED
    BY <2>4, <2>5, <2>6 DEF Values!CopyConstruct, value
<1>3. QED
  BY <1>1, <1>2 DEF CopyConstruct

LEMMA MoveConstructValue ==
  ASSUME IInv, NEW o \in Objects, NEW from \in Objects, MoveConstruct(o, from)
  PROVE  Values!MoveConstruct(o, from)
<1> USE NullAssumption, UnusedAssumption
<1>1. /\ m_bt_data_ptr[o] = Unused /\ m_bt_data_ptr[from] # Unused /\ o # from
      /\ UNCHANGED <<m_pStack, backtrace, fault>>
  BY Knowing DEF MoveConstruct
<1>2. /\ m_bt_data_ptr'[o] = m_bt_data_ptr[from] /\ m_bt_data_ptr'[from] = Null
      /\ \A x \in Objects : x # o /\ x # from => m_bt_data_ptr'[x] = m_bt_data_ptr[x]
  BY <1>1 DEF MoveConstruct, IInv, TypeOK
<1>3. ValueOf(o)' = ValueOf(from)
  BY <1>1, <1>2 DEF ValueOf, Whole, Bare, Pointing, Stack
<1>4. ValueOf(from)' = Null
  BY <1>2 DEF ValueOf
<1>5. \A x \in Objects : x # o /\ x # from => ValueOf(x)' = ValueOf(x)
  BY <1>1, <1>2 DEF ValueOf, Whole, Bare, Pointing, Stack
<1>6. ValueOf(o) = Unused /\ ValueOf(from) # Unused
  BY <1>1, ValueFacts
<1>7. value' = [value EXCEPT ![o] = ValueOf(from), ![from] = Null]
  BY <1>1, <1>3, <1>4, <1>5 DEF value
<1>8. QED
  BY <1>1, <1>6, <1>7 DEF Values!MoveConstruct, value

LEMMA MoveAssignValue ==
  ASSUME IInv, NEW o \in Objects, NEW from \in Objects, MoveAssign(o, from)
  PROVE  Values!MoveAssign(o, from)
<1>1. /\ m_bt_data_ptr[o] # Unused /\ m_bt_data_ptr[from] # Unused
      /\ UNCHANGED <<m_pStack, backtrace, fault>>
  BY Knowing DEF MoveAssign
<1>2. /\ m_bt_data_ptr'[o] = m_bt_data_ptr[from] /\ m_bt_data_ptr'[from] = m_bt_data_ptr[o]
      /\ \A x \in Objects : x # o /\ x # from => m_bt_data_ptr'[x] = m_bt_data_ptr[x]
  BY DEF MoveAssign, IInv, TypeOK
<1>3. ValueOf(o)' = ValueOf(from)
  BY <1>1, <1>2 DEF ValueOf, Whole, Bare, Pointing, Stack
<1>4. ValueOf(from)' = ValueOf(o)
  BY <1>1, <1>2 DEF ValueOf, Whole, Bare, Pointing, Stack
<1>5. \A x \in Objects : x # o /\ x # from => ValueOf(x)' = ValueOf(x)
  BY <1>1, <1>2 DEF ValueOf, Whole, Bare, Pointing, Stack
<1>6. ValueOf(o) # Unused /\ ValueOf(from) # Unused
  BY <1>1, ValueFacts
<1>7. value' = [value EXCEPT ![o] = ValueOf(from), ![from] = ValueOf(o)]
  BY <1>3, <1>4, <1>5 DEF value
<1>8. QED
  BY <1>1, <1>6, <1>7 DEF Values!MoveAssign, value

LEMMA HashValue ==
  ASSUME IInv, NEW o \in Objects, Hash(o)
  PROVE  Values!Misuse(o) \/ UNCHANGED <<value, fault>>
<1>1. CASE ~Whole(o)
  BY <1>1, CrashValue, Knowing DEF Hash
<1>2. CASE Whole(o)
  <2> DEFINE b == Stack(o)
  <2>1. b \in Blocks /\ backtrace[b] \in Backtrace
    BY <1>2, WholeFacts
  <2>2. /\ UNCHANGED <<m_bt_data_ptr, m_pStack, fault>>
        /\ \A c \in Blocks : c # b => backtrace'[c] = backtrace[c]
        /\ backtrace'[b] \in Backtrace /\ backtrace'[b].frames = backtrace[b].frames
    BY <1>2, <2>1 DEF Hash, IInv, TypeOK, Backtrace
  <2>3. ASSUME NEW x \in Objects PROVE ValueOf(x)' = ValueOf(x)
    <3>1. ASSUME Whole(x)
          PROVE  /\ backtrace'[Stack(x)] # Unused
                 /\ backtrace'[Stack(x)].frames = backtrace[Stack(x)].frames
      <4>1. Stack(x) \in Blocks /\ backtrace[Stack(x)] # Unused
        BY <3>1, WholeFacts, UnusedAssumption
      <4>2. QED
        BY <2>2, <4>1, UnusedAssumption
    <3>2. QED
      BY <2>2, <3>1, ValueKept
  <2>4. QED
    BY <2>2, <2>3 DEF value
<1>3. QED
  BY <1>1, <1>2

LEMMA DestroyValue ==
  ASSUME IInv, NEW o \in Objects, Destroy(o)
  PROVE  Values!Destroy(o)
<1> USE NullAssumption, UnusedAssumption
<1>0. ~(m_bt_data_ptr[o] # Null /\ ~Sound(o))
  BY Knowing DEF Destroy
<1>1. m_bt_data_ptr' = [m_bt_data_ptr EXCEPT ![o] = Unused] /\ UNCHANGED fault
  BY <1>0 DEF Destroy
<1>2. ValueOf(o)' = Unused /\ ValueOf(o) # Unused
  <2>1. m_bt_data_ptr'[o] = Unused
    BY <1>1 DEF IInv, TypeOK
  <2>2. ValueOf(o) # Unused
    BY ValueFacts, Knowing DEF Destroy
  <2>3. QED
    BY <2>1, <2>2 DEF ValueOf
<1>3. \A x \in Objects : x # o => ValueOf(x)' = ValueOf(x)
  <2>1. CASE m_bt_data_ptr[o] = Null
    <3>1. UNCHANGED <<m_pStack, backtrace>>
      BY <1>0, <2>1, NullAssumption DEF Destroy, Sound, Whole, Bare, Pointing
    <3>2. QED
      BY <1>1, <3>1, ValueKept, WholeFacts DEF IInv, TypeOK
  <2>2. CASE m_bt_data_ptr[o] # Null
    <3> DEFINE p == m_bt_data_ptr[o]
    <3>1. p \in Privates
      BY <2>2, Pointers, Knowing DEF Destroy
    <3>2. /\ \A x \in Objects : x # o => m_bt_data_ptr'[x] = m_bt_data_ptr[x]
          /\ \A q \in Privates : q # p => m_pStack'[q] = m_pStack[q]
          /\ \A b \in Blocks : b # m_pStack[p] => backtrace'[b] = backtrace[b]
      BY <1>0, <1>1, <2>2 DEF Destroy, Freed, Stack, IInv, TypeOK
    <3>3. QED
      BY <3>1, <3>2, OthersKept
  <2>3. QED
    BY <2>1, <2>2
<1>4. value' = [value EXCEPT ![o] = Unused]
  BY <1>2, <1>3, SeenThrough
<1>5. QED
  BY <1>1, <1>2, <1>4 DEF Values!Destroy, value

LEMMA CopyAssignValue ==
  ASSUME IInv, NEW o \in Objects, NEW from \in Objects, CopyAssign(o, from)
  PROVE  Values!CopyAssign(o, from) \/ Values!Misuse(o)
<1> USE NullAssumption, UnusedAssumption
<1> DEFINE p == m_bt_data_ptr[o]
           old == m_pStack[p]
           left == Freed(backtrace, old)
           crashes == \/ ~Sound(o) \/ ~Sound(from)
                      \/ Whole(from) /\ left[Stack(from)] = Unused
<1>1. CASE crashes /\ Crash
  BY <1>1, CrashValue, CarefulAssigns DEF CopyAssign
<1>2. CASE ~crashes
  <2>1. p \in Privates /\ m_bt_data_ptr[from] \in Privates /\ UNCHANGED <<m_bt_data_ptr, fault>>
    BY <1>2, Pointers DEF CopyAssign, Crash, Stack, Sound, Whole, Bare, Pointing
  <2>0. Whole(from) => o # from
    <3>1. Whole(from) => Stack(from) \in Blocks /\ left[Stack(from)] # Unused
      BY <1>2, WholeFacts
    <3>2. QED
      BY <3>1 DEF Freed, Stack
  <2>2. /\ ValueOf(o) \in Frames \cup {Empty}
        /\ \/ o # from /\ ValueOf(from) \in Frames
           \/ ValueOf(from) = Empty
    BY <2>1, <2>0, ValueFacts
  <2>3. /\ \A c \in Blocks : left[c] = IF c = old THEN Unused ELSE backtrace[c]
        /\ left \in [Blocks -> Backtrace \cup {Unused}]
    BY DEF Freed, IInv, TypeOK
  <2>4. CASE m_pStack' = [m_pStack EXCEPT ![p] = Null] /\ backtrace' = left
    <3>1. m_pStack'[p] = Null /\ \A q \in Privates : q # p => m_pStack'[q] = m_pStack[q]
      BY <2>1, <2>4 DEF IInv, TypeOK
    <3>2. ValueOf(o)' = Empty
      <4>1. m_bt_data_ptr'[o] = p /\ p \notin {Null, Unused} /\ Stack(o)' = Null
        BY <2>1, <3>1 DEF Stack
      <4>2. QED
        BY <2>1, <4>1 DEF ValueOf, Bare, Pointing
    <3>3. \A x \in Objects : x # o => ValueOf(x)' = ValueOf(x)
      <4>1. \A c \in Blocks : c # old => backtrace'[c] = backtrace[c]
        BY <2>3, <2>4
      <4>2. QED
        BY <2>1, <3>1, <4>1, OthersKept
    <3>4. value' = [value EXCEPT ![o] = Empty]
      BY <3>2, <3>3, SeenThrough
    <3>5. QED
      BY <2>1, <2>2, <3>4 DEF Values!CopyAssign, value
  <2>5. CASE \E b \in Blocks : /\ Whole(from) /\ left[b] = Unused
                               /\ m_pStack' = [m_pStack EXCEPT ![p] = b]
                               /\ backtrace' = Cloned(left, b, Stack(from))
    <3>1. PICK b \in Blocks : /\ Whole(from) /\ left[b] = Unused
                              /\ m_pStack' = [m_pStack EXCEPT ![p] = b]
                              /\ backtrace' = Cloned(left, b, Stack(from))
      BY <2>5
    <3> DEFINE source == Stack(from)
    <3>2. source \in Blocks /\ backtrace[source] \in Backtrace
      BY <3>1, WholeFacts
    <3>3. source # old
      <4>1. m_bt_data_ptr[from] # p
        BY <2>1, <2>0, <3>1 DEF IInv, OneOwner
      <4>2. QED
        BY <2>1, <3>2, <4>1 DEF Stack, IInv, OneOwner
    <3>4. left[source] = backtrace[source]
      BY <2>3, <3>2, <3>3
    <3>5. m_pStack'[p] = b /\ \A q \in Privates : q # p => m_pStack'[q] = m_pStack[q]
      BY <2>1, <3>1 DEF IInv, TypeOK
    <3> DEFINE r == [frames |-> left[source].frames, hash |-> left[source].hash,
                     hashIsNotValid |-> left[source].hashIsNotValid]
    <3>6. backtrace' = [left EXCEPT ![b] = r]
      BY <3>1 DEF Cloned
    <3>7. r \in Backtrace /\ r.frames = backtrace[source].frames
      BY <3>2, <3>4 DEF Backtrace
    <3> HIDE DEF r, left
    <3>8. backtrace'[b] = r /\ \A c \in Blocks : c # b => backtrace'[c] = left[c]
      BY <2>3, <3>6
    <3>9. ValueOf(o)' = ValueOf(from)
      <4>1. ValueOf(o)' = r.frames
        BY <2>1, <3>5, <3>7, <3>8 DEF ValueOf, Whole, Bare, Pointing, Stack
      <4>2. QED
        BY <3>1, <3>7, <4>1, ValueFacts
    <3>10. \A x \in Objects : x # o => ValueOf(x)' = ValueOf(x)
      <4>1. \A c \in Blocks : c # old /\ backtrace[c] # Unused => backtrace'[c] = backtrace[c]
        BY <2>3, <3>1, <3>8
      <4>2. QED
        BY <2>1, <3>5, <4>1, OthersKept
    <3>11. value' = [value EXCEPT ![o] = ValueOf(from)]
      BY <3>9, <3>10, SeenThrough
    <3>12. QED
      BY <2>1, <2>2, <3>11 DEF Values!CopyAssign, value
  <2>6. QED
    BY <1>2, <2>4, <2>5 DEF CopyAssign, Stack
<1>3. QED
  BY <1>1, <1>2 DEF CopyAssign, Stack

LEMMA ValueStep ==
  ASSUME IInv, [Next]_vars
  PROVE  [Values!Next]_Values!vars
<1>1. CASE Next
  <2>1. PICK o \in Objects :
           \/ Construct(o) \/ Hash(o) \/ Read(o) \/ Destroy(o)
           \/ \E from \in Objects :
                \/ CopyConstruct(o, from) \/ MoveConstruct(o, from)
                \/ CopyAssign(o, from) \/ MoveAssign(o, from)
    BY <1>1, StepCases
  <2>2. ~fault /\ UNCHANGED careful
    BY <1>1 DEF Next
  <2>3. CASE Construct(o)
    BY <2>2, <2>3, ConstructValue DEF Values!Next
  <2>4. CASE Hash(o)
    BY <2>2, <2>4, HashValue DEF Values!Next, Values!vars, value
  <2>5. CASE Read(o)
    BY <2>2, <2>5, CrashValue, Knowing DEF Read, Values!Next
  <2>6. CASE Destroy(o)
    BY <2>2, <2>6, DestroyValue DEF Values!Next
  <2>7. CASE \E from \in Objects : CopyConstruct(o, from) \/ CopyAssign(o, from)
    BY <2>2, <2>7, CopyConstructValue, CopyAssignValue DEF Values!Next
  <2>8. CASE \E from \in Objects : MoveConstruct(o, from) \/ MoveAssign(o, from)
    BY <2>2, <2>8, MoveConstructValue, MoveAssignValue DEF Values!Next
  <2>9. QED
    BY <2>1, <2>3, <2>4, <2>5, <2>6, <2>7, <2>8
<1>2. CASE UNCHANGED vars
  BY <1>2 DEF vars, heap, Values!vars, value, ValueOf, Whole, Bare, Pointing, Stack
<1>3. QED
  BY <1>1, <1>2

(* The class implements values: with any number of objects and any         *)
(* failures, no operation on one object is seen through another.           *)
THEOREM ObjectsAreValues == Spec => ImplementsValues
<1>1. ASSUME Init PROVE Values!Init
  <2>1. \A o \in Objects : m_bt_data_ptr[o] = Unused
    BY <1>1 DEF Init
  <2>2. value = [o \in Objects |-> Unused]
    BY <2>1 DEF value, ValueOf
  <2>3. QED
    BY <1>1, <2>2 DEF Init, Values!Init
<1>2. IInv /\ [Next]_vars => [Values!Next]_Values!vars
  BY ValueStep
<1>3. QED
  BY Invariance, <1>1, <1>2, PTL DEF Spec, Values!Spec, ImplementsValues
=============================================================================
