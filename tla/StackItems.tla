----------------------------- MODULE StackItems -----------------------------
(***************************************************************************)
(* The C++ class StackItems of src/core/cpp/                               *)
(* stack_investigator_cinvestigator.cpp on top of the conversion: the      *)
(* constructor converts every frame of a backtrace, printStack and the     *)
(* users of stackItems() read all numberOfFrames() items, the destructor   *)
(* frees them.  The constructor does not look at what the conversion       *)
(* returned.  A program uses either the class or the C interface directly. *)
(***************************************************************************)
EXTENDS ConvertNames

(* The array of an object is a buffer within the bound like any other.     *)
ASSUME ArrayAssumption == MaxDepth <= MaxItems

VARIABLES
  object,        \* "none", "constructing", "alive", "thrown", "leaked" or "destroyed"
  m_itemsCount   \* the number of items it tells its users

objectVars == <<vars, object, m_itemsCount>>

-----------------------------------------------------------------------------
ObjectInit ==
  /\ Init
  /\ object = "none" /\ m_itemsCount = 0

(* The constructor has the backtrace, of at least one frame, and the array *)
(* for its items ...                                                       *)
Construct ==
  /\ object = "none"
  /\ object' = "constructing"
  /\ \E d \in 1..MaxDepth : m_itemsCount' = d /\ Begin(d, 0, d)

(* ... or throws: without memory for StackItems_p nothing is left, without *)
(* memory for the array StackItems_p stays allocated and nobody points to  *)
(* it, as the destructor of an object that never was does not run.         *)
ConstructThrows ==
  /\ object = "none" /\ pc = "idle"
  /\ object' \in {"thrown", "leaked"}
  /\ UNCHANGED <<m_itemsCount, vars>>

ConvertStep ==
  /\ object = "constructing"
  /\ Convert
  /\ UNCHANGED <<object, m_itemsCount>>

(* The constructor ends with the conversion, however that ended.           *)
Constructed ==
  /\ object = "constructing" /\ pc = "returned"
  /\ object' = "alive"
  /\ UNCHANGED <<m_itemsCount, vars>>

(* printStack, or a loop over stackItems(), reads every item.              *)
PrintStack ==
  /\ object = "alive"
  /\ misuse' = (misuse \/ \E k \in 0..(m_itemsCount - 1) : Unreadable(items[k]))
  /\ UNCHANGED <<pc, args, items, i, symbols, rc, object, m_itemsCount>>

(* The destructor frees every item.                                        *)
Destroy ==
  /\ object = "alive"
  /\ object' = "destroyed" /\ pc' = "released"
  /\ items' = [k \in DOMAIN items |->
                IF k < m_itemsCount THEN FreeStackItemData(items[k]) ELSE items[k]]
  /\ misuse' = (misuse \/ \E k \in 0..(m_itemsCount - 1) : ~CanFree(items[k], Strings))
  /\ UNCHANGED <<args, i, symbols, rc, m_itemsCount>>

(* The program calls the C interface and has no object.                    *)
CallDirectly ==
  /\ object = "none"
  /\ Next
  /\ UNCHANGED <<object, m_itemsCount>>

ObjectNext ==
  \/ Construct \/ ConstructThrows
  \/ ConvertStep \/ Constructed
  \/ PrintStack \/ Destroy
  \/ CallDirectly

ObjectSpec == ObjectInit /\ [][ObjectNext]_objectVars

-----------------------------------------------------------------------------
(* Every string of every item below numberOfFrames() can be read and, by   *)
(* the destructor, freed: the tests print all items right after the        *)
(* construction.                                                           *)
ItemsReadable == ~misuse

(* No string is freed twice, or read or freed before it is allocated, by   *)
(* the conversion, its error paths, a caller that heeds its result, or the *)
(* class, except by an object whose conversion failed: the constructor     *)
(* ignores that.                                                           *)
MisuseOnlyAfterFailure == misuse => object \in {"alive", "destroyed"} /\ rc = "error"
=============================================================================
