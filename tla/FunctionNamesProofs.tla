------------------------- MODULE FunctionNamesProofs -------------------------
(***************************************************************************)
(* Proofs about the walk of GetFunctionNames, for units of any size.       *)
(***************************************************************************)
EXTENDS FunctionNames, TLAPS

NoneBefore(n) == \A k \in 1..(n - 1) : ~Matches(k)

(* What is held and what is known about the children already seen, at each *)
(* statement of the walk.                                                  *)
AtChild == child_die = 0 /\ child_die_next = 0 /\ live = {}

AtTop ==
  \/ child_die = 1 /\ child_die_next = 0 /\ live = {1}
  \/ /\ child_die > 0 /\ child_die_next = child_die + 1
     /\ live = {child_die, child_die_next}
     /\ NoneBefore(child_die_next)

AtExamine == child_die > 0 /\ live = {child_die} /\ NoneBefore(child_die)

AtSibling == child_die > 0 /\ live = {child_die} /\ NoneBefore(child_die + 1)

IInv ==
  /\ TypeOK
  /\ DiesUsedWhileHeld
  /\ pc = "child" => AtChild
  /\ pc = "top" => AtTop
  /\ pc = "examine" => AtExamine
  /\ pc = "sibling" => AtSibling
  /\ OneDieLeft
  /\ FirstMatch

-----------------------------------------------------------------------------
LEMMA InitIsGood == Init => IInv
<1> SUFFICES ASSUME Init PROVE IInv
  OBVIOUS
<1>1. count \in 0..MaxChildren /\ children \in [1..count -> Die]
  BY Zenon DEF Init
<1>2. /\ pc = "child" /\ misuse = FALSE /\ cut = FALSE
      /\ child_die = 0 /\ child_die_next = 0 /\ live = {} /\ name = 0
  BY Zenon DEF Init
<1>3. 0 \in 0..count
  BY <1>1, ChildrenAssumption, SMT
<1>4. TypeOK
  BY <1>1, <1>2, <1>3, Zenon DEF TypeOK
<1>5. QED
  BY <1>2, <1>4, SMT DEF IInv, DiesUsedWhileHeld, AtChild, OneDieLeft, FirstMatch

(* One step of the walk: the unit does not change, so what is known of its *)
(* children stays known.                                                   *)
LEMMA StepIsGood == IInv /\ [Next]_vars => IInv'
<1> SUFFICES ASSUME IInv, [Next]_vars PROVE IInv'
  OBVIOUS
<1> USE ChildrenAssumption
<1>1. CASE FirstChild
  <2>1. pc = "child" /\ AtChild
    BY <1>1, Zenon DEF FirstChild, IInv
  <2>2. TypeOK' /\ DiesUsedWhileHeld'
    <3>1. cut' \in BOOLEAN
      BY <1>1, Zenon DEF FirstChild, IInv, TypeOK
    <3>2. /\ pc' \in {"top", "done"} /\ child_die' \in 0..count /\ name' \in 0..count
          /\ live' \subseteq 1..count
      BY <1>1, <2>1, SMT DEF FirstChild, Return, IInv, TypeOK, AtChild
    <3>3. UNCHANGED <<count, children, child_die_next, misuse>>
      BY <1>1, Zenon DEF FirstChild, unit
    <3>4. QED
      BY <3>1, <3>2, <3>3, Zenon DEF IInv, TypeOK, DiesUsedWhileHeld
  <2>3. CASE pc' = "top" /\ child_die' = 1 /\ live' = {1}
    <3>1. AtTop'
      BY <1>1, <2>1, <2>3, Zenon DEF FirstChild, AtChild, AtTop
    <3>2. QED
      BY <2>2, <2>3, <3>1, SMT DEF IInv, OneDieLeft, FirstMatch
  <2>4. CASE Return(0) /\ (count > 0 => cut' = TRUE) /\ UNCHANGED <<child_die, live>>
    <3>1. name' = 0 /\ OneDieLeft'
      BY <2>1, <2>4, SMT DEF Return, AtChild, OneDieLeft
    <3>2. ~cut' => ~(count > 0)
      BY <2>4, Zenon
    <3>3. count' = count
      BY <1>1, Zenon DEF FirstChild, unit
    <3>4. FirstMatch'
      BY <3>1, <3>2, <3>3, SMT DEF IInv, TypeOK, FirstMatch
    <3>5. QED
      BY <2>2, <2>4, <3>1, <3>4, SMT DEF Return, IInv
  <2>5. QED
    BY <1>1, <2>3, <2>4, Zenon DEF FirstChild
<1>2. CASE TakeNext
  <2>1. TypeOK' /\ DiesUsedWhileHeld'
    BY <1>2, SMT DEF TakeNext, unit, IInv, TypeOK, DiesUsedWhileHeld, AtTop
  <2>2. AtExamine'
    BY <1>2, SMT DEF TakeNext, unit, IInv, TypeOK, AtTop, AtExamine, NoneBefore, Matches
  <2>3. QED
    BY <1>2, <2>1, <2>2, Zenon DEF TakeNext, IInv, OneDieLeft, FirstMatch
<1>3. CASE Examine
  <2> DEFINE die == children[child_die]
  <2>1. AtExamine /\ pc = "examine" /\ child_die \in 1..count
    BY <1>3, SMT DEF Examine, IInv, TypeOK, AtExamine
  <2>2. TypeOK' /\ DiesUsedWhileHeld'
    BY <1>3, <2>1, SMT DEF Examine, Return, unit, IInv, TypeOK, DiesUsedWhileHeld, AtExamine
  <2>3. CASE die.bounds \in {"inside", "unwritten"} /\ die.named /\ Return(child_die)
    BY <1>3, <2>1, <2>2, <2>3, SMT DEF Examine, Return, unit, IInv, TypeOK, AtExamine,
      OneDieLeft, FirstMatch, NoneBefore, Matches
  <2>4. CASE ~(die.bounds = "inside" /\ die.named) /\ pc' = "sibling" /\ UNCHANGED name
    <3>1. AtSibling'
      BY <1>3, <2>1, <2>4, SMT DEF Examine, unit, IInv, TypeOK, AtExamine, AtSibling,
        NoneBefore, Matches
    <3>2. QED
      BY <2>2, <2>4, <3>1, SMT DEF IInv, OneDieLeft, FirstMatch
  <2>5. QED
    BY <1>3, <2>3, <2>4, Zenon DEF Examine
<1>4. CASE Sibling
  <2>1. AtSibling /\ pc = "sibling" /\ child_die \in 1..count
    BY <1>4, SMT DEF Sibling, IInv, TypeOK, AtSibling
  <2>2. TypeOK' /\ DiesUsedWhileHeld'
    <3>1. cut' \in BOOLEAN
      BY <1>4, Zenon DEF Sibling, IInv, TypeOK
    <3>2. /\ pc' \in {"top", "done"} /\ child_die_next' \in 0..count /\ name' \in 0..count
          /\ live' \subseteq 1..count
      BY <1>4, <2>1, SMT DEF Sibling, Return, IInv, TypeOK, AtSibling
    <3>3. UNCHANGED <<count, children, child_die, misuse>>
      BY <1>4, <2>1, Zenon DEF Sibling, AtSibling, unit, IInv, TypeOK, DiesUsedWhileHeld
    <3>4. QED
      BY <3>1, <3>2, <3>3, Zenon DEF IInv, TypeOK, DiesUsedWhileHeld
  <2>3. CASE pc' = "top"
    <3>1. AtTop'
      BY <1>4, <2>1, <2>3, SMT DEF Sibling, Return, unit, IInv, TypeOK, AtSibling, AtTop,
        NoneBefore, Matches
    <3>2. QED
      BY <2>2, <2>3, <3>1, SMT DEF IInv, OneDieLeft, FirstMatch
  <2>4. CASE Return(0) /\ (child_die < count => cut' = TRUE) /\ UNCHANGED live
    <3>1. name' = 0 /\ OneDieLeft'
      BY <1>4, <2>1, <2>4, SMT DEF Sibling, Return, AtSibling, OneDieLeft
    <3>2. ~cut' => ~(child_die < count)
      BY <2>4, Zenon
    <3>3. NoneBefore(child_die + 1)' /\ count' = count /\ child_die' = child_die
      BY <1>4, <2>1, Zenon DEF Sibling, unit, AtSibling, NoneBefore, Matches
    <3>4. FirstMatch'
      BY <2>1, <3>1, <3>2, <3>3, SMT DEF IInv, TypeOK, FirstMatch, NoneBefore, Matches
    <3>5. QED
      BY <2>2, <2>4, <3>1, <3>4, SMT DEF Return, IInv
  <2>5. QED
    BY <1>4, <2>3, <2>4, Zenon DEF Sibling
<1>5. CASE UNCHANGED vars
  BY <1>5, SMT DEF vars, unit, IInv, TypeOK, DiesUsedWhileHeld, AtChild, AtTop, AtExamine,
    AtSibling, OneDieLeft, FirstMatch, NoneBefore, Matches
<1>6. QED
  BY <1>1, <1>2, <1>3, <1>4, <1>5, Zenon DEF Next

(* The walk never leaves the states that IInv describes.                   *)
THEOREM Invariance == Spec => []IInv
  BY InitIsGood, StepIsGood, PTL DEF Spec

(* GetFunctionNames uses and gives back only DIEs that it holds.           *)
THEOREM WalkUsesHeldDies == Spec => []DiesUsedWhileHeld
<1>1. IInv => DiesUsedWhileHeld
  BY Zenon DEF IInv
<1>2. QED
  BY <1>1, Invariance, PTL

(* A walk leaves at most one DIE behind, however many children it passed.  *)
THEOREM WalkLeavesOneDie == Spec => []OneDieLeft
<1>1. IInv => OneDieLeft
  BY Zenon DEF IInv
<1>2. QED
  BY <1>1, Invariance, PTL

(* The name is of the first child that holds the address, if the bounds of *)
(* those before it are written, and missing only if no child holds it.     *)
THEOREM WalkFindsFirst == Spec => []FirstMatch
<1>1. IInv => FirstMatch
  BY Zenon DEF IInv
<1>2. QED
  BY <1>1, Invariance, PTL

(* Every variable keeps its type, for units of any size.                   *)
THEOREM TypeCorrect == Spec => []TypeOK
<1>1. IInv => TypeOK
  BY Zenon DEF IInv
<1>2. QED
  BY <1>1, Invariance, PTL
=============================================================================
