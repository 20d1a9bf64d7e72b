------------------------- MODULE DwarfCollectProofs -------------------------
(***************************************************************************)
(* Proofs about DwarfCollect for every number of units and lines, every    *)
(* growth step and every combination of failures.                          *)
(***************************************************************************)
EXTENDS DwarfCollect, TLAPS

Collecting == {"init", "header", "unit", "line", "finish"}

(* The vector while lines are collected: allocatedCount is the room there  *)
(* is, nextEntriesCount the number of items in it.                         *)
VectorInv ==
  /\ pc \in Collecting => /\ ppEntries = allocated /\ ppEntries \in Nat
                         /\ next = entriesCount /\ entriesCount <= allocated
  /\ pc \in {"entry", "vector", "init"} => entriesCount = 0 /\ next = 0
  /\ pc \notin {"close", "done", "crashed"} => ~failed
  /\ pc = "close" => IF failed THEN entriesCount = 0
                     ELSE ppEntries \in Nat /\ entriesCount <= ppEntries
  /\ debug = "yes" => ~failed /\ ppEntries \in Nat /\ entriesCount <= ppEntries
  /\ pc = "done" /\ failed => debug = "no" /\ entriesCount = 0
  /\ debug # "pending" <=> pc = "done"

(* The items: each is in one slot, pItem is one of them, none is lost.     *)
ItemInv ==
  /\ pc \in Collecting \cup {"entry", "vector"} \/ (pc \in {"close", "done"} /\ ~failed) =>
       Items = live
  /\ pc \in Collecting \cup {"entry", "vector"} => pItem = Null \/ pItem \in live
  /\ \A j, k \in DOMAIN slots : j # k => slots[j] # slots[k]

(* The file and the session are open exactly while they are used.          *)
SessionInv ==
  /\ fd = "open" => pc \in Collecting \cup {"vector", "close", "crashed"}
  /\ dbg = "open" => pc \in {"header", "unit", "line", "finish"}
  /\ held # {} => pc = "line"

IInv == TypeOK /\ MemorySafe /\ VectorInv /\ ItemInv /\ SessionInv

-----------------------------------------------------------------------------
(* What storing an item does to the vector.                                *)
LEMMA StoreStep ==
  ASSUME IInv, Collect
  PROVE  /\ made' = made + 1 /\ made' \in 1..made'
         /\ entriesCount' = entriesCount + 1 /\ entriesCount' \in 0..made'
         /\ slots' \in [0..(entriesCount' - 1) -> 1..made']
         /\ slots'[entriesCount] = made'
         /\ \A k \in 0..(entriesCount - 1) : slots'[k] = slots[k] /\ slots[k] \in 1..made
<1>1. made \in Nat /\ entriesCount \in 0..made /\ slots \in [0..(entriesCount - 1) -> 1..made]
  BY DEF IInv, TypeOK
<1>2. made' = made + 1 /\ entriesCount' = entriesCount + 1
  BY DEF Collect, Make, StoreItem
<1>3. slots' = [k \in 0..entriesCount |-> IF k = entriesCount THEN made' ELSE slots[k]]
  BY DEF Collect, StoreItem
<1>4. \A k \in 0..entriesCount : k # entriesCount => k \in 0..(entriesCount - 1)
  BY <1>1
<1>5. QED
  BY <1>1, <1>2, <1>3, <1>4

(* Every variable keeps its type, and no step misuses memory: an item is   *)
(* stored inside the block, and the item freed at the end is a live one.   *)
LEMMA TypeStep ==
  ASSUME IInv, [Next]_vars
  PROVE  TypeOK' /\ MemorySafe'
<1> USE StepAssumption, BoundsAssumption, NullAssumption
    DEF IInv, TypeOK, MemorySafe, VectorInv, ItemInv, Collecting, Unfilled,
        vector, heap, file, unit
<1>1. CASE NoEntry
  BY <1>1 DEF NoEntry, Goto
<1>2. CASE NoModule
  BY <1>2 DEF NoModule, Goto
<1>3. CASE OpenModule
  BY <1>3 DEF OpenModule, Goto
<1>4. CASE AllocateVector
  BY <1>4 DEF AllocateVector, Leave
<1>5. CASE DwarfInit
  BY <1>5 DEF DwarfInit, Leave
<1>6. CASE HeaderError
  BY <1>6 DEF HeaderError, Abandon, Leave
<1>7. CASE NoMoreUnits
  BY <1>7 DEF NoMoreUnits, Goto
<1>8. CASE NextUnit
  BY <1>8 DEF NextUnit, Goto
<1>9. CASE SkipUnit
  BY <1>9 DEF SkipUnit, Goto
<1>10. CASE BeginUnit
  <2>1. linecount' \in 0..MaxLines /\ i' \in 0..MaxLines
    BY <1>10 DEF BeginUnit
  <2>2. pc' \in {"header", "line"} /\ held' \subseteq {"cu_die", "linebuf"}
    BY <1>10 DEF BeginUnit
  <2>3. QED
    BY <1>10, <2>1, <2>2 DEF BeginUnit
<1>11. CASE EndUnit
  BY <1>11 DEF EndUnit, Goto
<1>12. CASE SkipLine
  BY <1>12 DEF SkipLine, AtLine, NextLine
<1>13. CASE DropLine
  BY <1>13 DEF DropLine, AtLine, NextLine
<1>14. CASE StringFails
  BY <1>14 DEF StringFails, AtLine, Make, Abandon, Leave
<1>15. CASE GrowFails
  BY <1>15 DEF GrowFails, AtLine, Make, MustGrow, Abandon, Leave
<1>16. CASE Collect
  BY <1>16, StoreStep DEF Collect, AtLine, Make, NextLine, StoreItem, MustGrow
<1>17. CASE Finish
  BY <1>17 DEF Finish, Leave
<1>18. CASE FinishFails
  <2>1. CASE pItem = Null
    BY <1>18, <2>1 DEF FinishFails
  <2>2. CASE pItem # Null
    <3>1. pItem \in live /\ fault' = FALSE
      BY <1>18, <2>2 DEF FinishFails
    <3>2. entriesCount' \in 0..made' /\ slots' \in [0..(entriesCount' - 1) -> 1..made']
      BY <1>18, <2>2 DEF FinishFails
    <3>3. /\ pc' = "close" /\ failed' = TRUE /\ dbg' = "finished" /\ ppEntries' = Null
          /\ live' \subseteq 1..made
          /\ UNCHANGED <<allocated, next, made, pItem, held, debug, fd, units, i, linecount>>
      BY <1>18, <2>2 DEF FinishFails, Leave
    <3>4. TypeOK'
      BY <3>1, <3>2, <3>3
    <3>5. QED
      BY <3>1, <3>4 DEF MemorySafe
  <2>3. QED
    BY <2>1, <2>2
<1>19. CASE Close
  BY <1>19 DEF Close, Goto
<1>20. CASE UNCHANGED vars
  BY <1>20 DEF vars
<1>21. QED
  BY <1>1, <1>2, <1>3, <1>4, <1>5, <1>6, <1>7, <1>8, <1>9, <1>10,
     <1>11, <1>12, <1>13, <1>14, <1>15, <1>16, <1>17, <1>18, <1>19, <1>20 DEF Next

LEMMA VectorStep ==
  ASSUME IInv, [Next]_vars
  PROVE  VectorInv'
<1> USE StepAssumption, NullAssumption
    DEF IInv, TypeOK, VectorInv, Collecting, vector, heap, file, unit
<1>1. CASE NoEntry
  BY <1>1 DEF NoEntry, Goto
<1>2. CASE NoModule
  BY <1>2 DEF NoModule, Goto
<1>3. CASE OpenModule
  BY <1>3 DEF OpenModule, Goto
<1>4. CASE AllocateVector
  BY <1>4 DEF AllocateVector, Leave
<1>5. CASE DwarfInit
  BY <1>5 DEF DwarfInit, Leave
<1>6. CASE HeaderError
  BY <1>6 DEF HeaderError, Abandon, Leave
<1>7. CASE NoMoreUnits
  BY <1>7 DEF NoMoreUnits, Goto
<1>8. CASE NextUnit
  BY <1>8 DEF NextUnit, Goto
<1>9. CASE SkipUnit
  BY <1>9 DEF SkipUnit, Goto
<1>10. CASE BeginUnit
  BY <1>10 DEF BeginUnit
<1>11. CASE EndUnit
  BY <1>11 DEF EndUnit, Goto
<1>12. CASE SkipLine
  BY <1>12 DEF SkipLine, AtLine, NextLine
<1>13. CASE DropLine
  BY <1>13 DEF DropLine, AtLine, NextLine
<1>14. CASE StringFails
  BY <1>14 DEF StringFails, AtLine, Make, Abandon, Leave
<1>15. CASE GrowFails
  BY <1>15 DEF GrowFails, AtLine, Make, MustGrow, Abandon, Leave
<1>16. CASE Collect
  BY <1>16 DEF Collect, AtLine, Make, NextLine, StoreItem, MustGrow
<1>17. CASE Finish
  BY <1>17 DEF Finish, Leave
<1>18. CASE FinishFails
  BY <1>18 DEF FinishFails, Leave
<1>19. CASE Close
  BY <1>19 DEF Close, Goto
<1>20. CASE UNCHANGED vars
  BY <1>20 DEF vars
<1>21. QED
  BY <1>1, <1>2, <1>3, <1>4, <1>5, <1>6, <1>7, <1>8, <1>9, <1>10,
     <1>11, <1>12, <1>13, <1>14, <1>15, <1>16, <1>17, <1>18, <1>19, <1>20 DEF Next

LEMMA ItemStep ==
  ASSUME IInv, [Next]_vars
  PROVE  ItemInv'
<1> USE DEF IInv, TypeOK, VectorInv, ItemInv, Items, Collecting, Unfilled, vector, heap, file, unit
<1>1. CASE NoEntry
  BY <1>1 DEF NoEntry, Goto
<1>2. CASE NoModule
  BY <1>2 DEF NoModule, Goto
<1>3. CASE OpenModule
  BY <1>3 DEF OpenModule, Goto
<1>4. CASE AllocateVector
  BY <1>4 DEF AllocateVector, Leave
<1>5. CASE DwarfInit
  BY <1>5 DEF DwarfInit, Leave
<1>6. CASE HeaderError
  BY <1>6 DEF HeaderError, Abandon, Leave
<1>7. CASE NoMoreUnits
  BY <1>7 DEF NoMoreUnits, Goto
<1>8. CASE NextUnit
  BY <1>8 DEF NextUnit, Goto
<1>9. CASE SkipUnit
  BY <1>9 DEF SkipUnit, Goto
<1>10. CASE BeginUnit
  BY <1>10 DEF BeginUnit
<1>11. CASE EndUnit
  BY <1>11 DEF EndUnit, Goto
<1>12. CASE SkipLine
  BY <1>12 DEF SkipLine, AtLine, NextLine
<1>13. CASE DropLine
  BY <1>13 DEF DropLine, AtLine, NextLine
<1>14. CASE StringFails
  BY <1>14 DEF StringFails, AtLine, Make, Abandon, Leave
<1>15. CASE GrowFails
  BY <1>15 DEF GrowFails, AtLine, Make, MustGrow, Abandon, Leave
<1>16. CASE Collect
  BY <1>16, StoreStep DEF Collect, AtLine, Make, NextLine, StoreItem, MustGrow
<1>17. CASE Finish
  BY <1>17 DEF Finish, Leave
<1>18. CASE FinishFails
  BY <1>18 DEF FinishFails, Leave
<1>19. CASE Close
  BY <1>19 DEF Close, Goto
<1>20. CASE UNCHANGED vars
  BY <1>20 DEF vars
<1>21. QED
  BY <1>1, <1>2, <1>3, <1>4, <1>5, <1>6, <1>7, <1>8, <1>9, <1>10,
     <1>11, <1>12, <1>13, <1>14, <1>15, <1>16, <1>17, <1>18, <1>19, <1>20 DEF Next

LEMMA SessionStep ==
  ASSUME IInv, [Next]_vars
  PROVE  SessionInv'
<1> USE DEF IInv, TypeOK, SessionInv, Collecting, vector, heap, file, unit
<1>1. CASE NoEntry
  BY <1>1 DEF NoEntry, Goto
<1>2. CASE NoModule
  BY <1>2 DEF NoModule, Goto
<1>3. CASE OpenModule
  BY <1>3 DEF OpenModule, Goto
<1>4. CASE AllocateVector
  BY <1>4 DEF AllocateVector, Leave
<1>5. CASE DwarfInit
  BY <1>5 DEF DwarfInit, Leave
<1>6. CASE HeaderError
  BY <1>6 DEF HeaderError, Abandon, Leave
<1>7. CASE NoMoreUnits
  BY <1>7 DEF NoMoreUnits, Goto
<1>8. CASE NextUnit
  BY <1>8 DEF NextUnit, Goto
<1>9. CASE SkipUnit
  BY <1>9 DEF SkipUnit, Goto
<1>10. CASE BeginUnit
  BY <1>10 DEF BeginUnit
<1>11. CASE EndUnit
  BY <1>11 DEF EndUnit, Goto
<1>12. CASE SkipLine
  BY <1>12 DEF SkipLine, AtLine, NextLine
<1>13. CASE DropLine
  BY <1>13 DEF DropLine, AtLine, NextLine
<1>14. CASE StringFails
  BY <1>14 DEF StringFails, AtLine, Make, Abandon, Leave
<1>15. CASE GrowFails
  BY <1>15 DEF GrowFails, AtLine, Make, MustGrow, Abandon, Leave
<1>16. CASE Collect
  BY <1>16 DEF Collect, AtLine, Make, NextLine, StoreItem, MustGrow
<1>17. CASE Finish
  BY <1>17 DEF Finish, Leave
<1>18. CASE FinishFails
  BY <1>18 DEF FinishFails, Leave
<1>19. CASE Close
  BY <1>19 DEF Close, Goto
<1>20. CASE UNCHANGED vars
  BY <1>20 DEF vars
<1>21. QED
  BY <1>1, <1>2, <1>3, <1>4, <1>5, <1>6, <1>7, <1>8, <1>9, <1>10,
     <1>11, <1>12, <1>13, <1>14, <1>15, <1>16, <1>17, <1>18, <1>19, <1>20 DEF Next

LEMMA InvInit ==
  ASSUME Init
  PROVE  IInv
<1>1. slots \in [0..(0 - 1) -> 1..made] /\ DOMAIN slots = {}
  BY DEF Init, Unfilled
<1>2. TypeOK
  <2>1. made = 0 /\ entriesCount = 0 /\ live = {} /\ pItem = Null
    BY DEF Init
  <2>2. entriesCount \in 0..made /\ slots \in [0..(entriesCount - 1) -> 1..made]
    BY <1>1, <2>1
  <2>3. 0 \in 0..MaxUnits /\ 0 \in 0..MaxLines
    BY BoundsAssumption
  <2>4. live \subseteq 1..made /\ pItem \in 1..made \cup {Null} /\ made \in Nat
    BY <2>1
  <2>5. QED
    BY <2>2, <2>3, <2>4 DEF Init, TypeOK
<1>3. ItemInv
  BY <1>1 DEF Init, ItemInv, Items
<1>4. MemorySafe /\ VectorInv /\ SessionInv
  BY DEF Init, MemorySafe, VectorInv, SessionInv, Collecting
<1>5. QED
  BY <1>2, <1>3, <1>4 DEF IInv

THEOREM Invariance == Spec => []IInv
<1>1. Init => IInv
  BY InvInit
<1>2. IInv /\ [Next]_vars => IInv'
  BY TypeStep, VectorStep, ItemStep, SessionStep DEF IInv
<1>3. QED
  BY <1>1, <1>2, PTL DEF Spec

-----------------------------------------------------------------------------
(* However many lines there are and whatever fails, no item is stored past *)
(* the block that ppEntries points to and none is freed twice.             *)
THEOREM CollectionIsMemorySafe == Spec => []MemorySafe
<1>1. IInv => MemorySafe
  BY DEF IInv
<1>2. QED
  BY <1>1, Invariance, PTL

(* The file and the libdwarf session do not outlive the call.              *)
THEOREM NothingStaysOpen == Spec => []SessionReleased
<1>1. IInv => SessionReleased
  BY DEF IInv, SessionInv, SessionReleased, Returned, Collecting
<1>2. QED
  BY <1>1, Invariance, PTL

(* An entry with debug info is complete: a vector of live items, none      *)
(* stored twice and none lost.                                             *)
THEOREM SuccessIsUsable == Spec => []EntryUsable
<1>1. IInv => EntryUsable
  BY NullAssumption DEF IInv, TypeOK, VectorInv, ItemInv, EntryUsable, Returned
<1>2. QED
  BY <1>1, Invariance, PTL

(* A failed collection leaves an entry that is not searched and counts no  *)
(* items, whatever was collected before the failure.                       *)
THEOREM FailureIsHidden == Spec => []FailureHidesVector
<1>1. IInv => FailureHidesVector
  BY DEF IInv, VectorInv, FailureHidesVector, Returned
<1>2. QED
  BY <1>1, Invariance, PTL

(* Every variable keeps its type: the vector's slots hold items that were  *)
(* made, whichever calls of libdwarf, the system or the allocator failed.  *)
THEOREM TypeCorrect == Spec => []TypeOK
<1>1. IInv => TypeOK
  BY DEF IInv
<1>2. QED
  BY <1>1, Invariance, PTL
=============================================================================
