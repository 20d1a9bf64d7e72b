---------------------------- MODULE FunctionNames ----------------------------
(***************************************************************************)
(* GetFunctionNames of                                                     *)
(* src/core/stack_investigator_backtrace_addr_to_details_unix_dwarf.c: the *)
(* walk over the children of a compilation unit's DIE in search of the     *)
(* function that holds an address.  The model follows which child the two  *)
(* variables of the walk stand for and which DIEs are given back on the    *)
(* way.  libdwarf is external; getting the first child or a sibling may    *)
(* fail.                                                                   *)
(***************************************************************************)
EXTENDS Naturals

CONSTANT MaxChildren   \* bound: children of the unit

ASSUME ChildrenAssumption == MaxChildren \in Nat

VARIABLES
  pc,              \* the next statement
  count,           \* children of the unit
  children,        \* what each child is
  child_die,       \* the child the variable stands for, or 0
  child_die_next,  \* likewise
  live,            \* children whose DIE is held
  misuse,          \* has a DIE been used or given back that is not held?
  cut,             \* has libdwarf failed to deliver a sibling?
  name             \* the child whose name is returned, or 0

unit == <<count, children>>
vars == <<pc, unit, child_die, child_die_next, live, misuse, cut, name>>

(* A child: whether libdwarf delivers it as a function with both bounds,   *)
(* whether the address is in between, and whether it has a name.  The      *)
(* bounds are "unwritten" when an attribute is there but is not an address *)
(* (as DW_AT_high_pc of DWARF 4), and low_pc or high_pc keeps what happens *)
(* to be on the stack.                                                     *)
Die == [bounds : {"none", "inside", "outside", "unwritten"}, named : BOOLEAN]

-----------------------------------------------------------------------------
Init ==
  /\ pc = "child"
  /\ \E n \in 0..MaxChildren : count = n /\ children \in [1..n -> Die]
  /\ child_die = 0 /\ child_die_next = 0
  /\ live = {}
  /\ misuse = FALSE /\ cut = FALSE
  /\ name = 0

Return(k) == pc' = "done" /\ name' = k

(* dwarf_child of the unit's DIE.                                          *)
FirstChild ==
  /\ pc = "child"
  /\ \/ /\ count > 0
        /\ pc' = "top"
        /\ child_die' = 1 /\ live' = {1}
        /\ UNCHANGED <<cut, name>>
     \/ /\ Return(0)
        /\ IF count > 0 THEN cut' = TRUE ELSE UNCHANGED cut
        /\ UNCHANGED <<child_die, live>>
  /\ UNCHANGED <<unit, child_die_next, misuse>>

(* Mutant: the child left behind is not given back.                        *)
TakeNextKeeps ==
  /\ pc = "top"
  /\ pc' = "examine"
  /\ child_die' = IF child_die_next # 0 THEN child_die_next ELSE child_die
  /\ UNCHANGED <<unit, live, child_die_next, misuse, cut, name>>

(* The body begins: the child before is given back for the next one.       *)
TakeNext ==
  /\ pc = "top"
  /\ pc' = "examine"
  /\ IF child_die_next # 0
     THEN /\ live' = live \ {child_die}
          /\ misuse' = (misuse \/ child_die \notin live)
          /\ child_die' = child_die_next
     ELSE UNCHANGED <<live, misuse, child_die>>
  /\ UNCHANGED <<unit, child_die_next, cut, name>>

(* Mutant: a child without bounds starts the body again.                   *)
ExamineAgain ==
  /\ pc = "examine"
  /\ LET die == children[child_die]
     IN \/ die.bounds \in {"inside", "unwritten"} /\ die.named /\ Return(child_die)
        \/ die.bounds = "none" /\ pc' = "top" /\ UNCHANGED name
        \/ die.bounds # "none" /\ pc' = "sibling" /\ UNCHANGED name
  /\ misuse' = (misuse \/ child_die \notin live)
  /\ UNCHANGED <<unit, child_die, child_die_next, live, cut>>

(* Mutant: the test of the bounds is inverted.                             *)
ExamineInverted ==
  /\ pc = "examine"
  /\ LET die == children[child_die]
     IN \/ die.bounds \in {"outside", "unwritten"} /\ die.named /\ Return(child_die)
        \/ ~(die.bounds = "outside" /\ die.named) /\ pc' = "sibling" /\ UNCHANGED name
  /\ misuse' = (misuse \/ child_die \notin live)
  /\ UNCHANGED <<unit, child_die, child_die_next, live, cut>>

(* The name of a function that holds the address is returned; with an      *)
(* unwritten bound the comparison may turn out either way.                 *)
Examine ==
  /\ pc = "examine"
  /\ LET die == children[child_die]
     IN \/ die.bounds \in {"inside", "unwritten"} /\ die.named /\ Return(child_die)
        \/ ~(die.bounds = "inside" /\ die.named) /\ pc' = "sibling" /\ UNCHANGED name
  /\ misuse' = (misuse \/ child_die \notin live)
  /\ UNCHANGED <<unit, child_die, child_die_next, live, cut>>

(* dwarf_siblingof the child, at the end of the body and at every continue.*)
Sibling ==
  /\ pc = "sibling"
  /\ \/ /\ child_die < count
        /\ pc' = "top"
        /\ child_die_next' = child_die + 1
        /\ live' = live \cup {child_die_next'}
        /\ UNCHANGED <<cut, name>>
     \/ /\ Return(0)
        /\ IF child_die < count THEN cut' = TRUE ELSE UNCHANGED cut
        /\ UNCHANGED <<child_die_next, live>>
  /\ misuse' = (misuse \/ child_die \notin live)
  /\ UNCHANGED <<unit, child_die>>

Next == FirstChild \/ TakeNext \/ Examine \/ Sibling

Spec == Init /\ [][Next]_vars

-----------------------------------------------------------------------------
Matches(k) == children[k].bounds = "inside" /\ children[k].named

(* Every variable has its type.                                            *)
TypeOK ==
  /\ pc \in {"child", "top", "examine", "sibling", "done"}
  /\ count \in 0..MaxChildren /\ children \in [1..count -> Die]
  /\ child_die \in 0..count /\ child_die_next \in 0..count /\ name \in 0..count
  /\ live \subseteq 1..count
  /\ misuse \in BOOLEAN /\ cut \in BOOLEAN

(* No DIE is used or given back after it was given back, although one      *)
(* variable is overwritten by the other at the top of the body and a       *)
(* continue jumps to its end.                                              *)
DiesUsedWhileHeld == ~misuse

(* A walk holds at most the child it is at when it returns, on every path: *)
(* what is left to dwarf_finish is one DIE for each walk.                  *)
OneDieLeft == pc = "done" => live \subseteq {child_die}

(* The name returned is of the first function that holds the address, or   *)
(* of one before it whose upper bound was not written; no name is returned *)
(* only when no function holds the address, or libdwarf cut the walk short.*)
FirstMatch ==
  pc = "done" =>
    /\ name # 0 => /\ Matches(name) \/ children[name].bounds = "unwritten"
                   /\ \A k \in 1..(name - 1) : ~Matches(k)
    /\ name = 0 /\ ~cut => \A k \in 1..count : ~Matches(k)
=============================================================================
