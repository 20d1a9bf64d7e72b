-------------------------- MODULE StackItemsProofs --------------------------
(***************************************************************************)
(* Proofs about the conversion of ConvertNames, called directly or by the  *)
(* class StackItems, for backtraces and buffers of any size.               *)
(***************************************************************************)
EXTENDS StackItems, TLAPS

(* An item that the conversion is done with, and one it has not begun.     *)
Complete(k) ==
  /\ items[k].address = k + offset
  /\ items[k].line # "unset"
  /\ \A f \in Strings : items[k][f] \in Allocated

Untouched(n) == \A k \in DOMAIN items : k >= n => items[k] = Unset
CompleteBelow(n) == \A k \in DOMAIN items : k < n => Complete(k)

LEMMA FreedItem ==
  ASSUME NEW item \in Item, NEW S \in SUBSET Strings
  PROVE  /\ Freed(item, S) \in Item
         /\ Freed(item, S).address = item.address /\ Freed(item, S).line = item.line
         /\ \A f \in Strings : Freed(item, S)[f] = IF f \in S THEN "freed" ELSE item[f]
<1>1. /\ "address" \notin S /\ "line" \notin S
  BY DEF Strings
<1>2. DOMAIN item = {"address", "line", "binFile", "funcName", "sourceFile"}
  BY DEF Item
<1>3. Freed(item, S) =
        [address |-> item.address, line |-> item.line,
         binFile |-> IF "binFile" \in S THEN "freed" ELSE item.binFile,
         funcName |-> IF "funcName" \in S THEN "freed" ELSE item.funcName,
         sourceFile |-> IF "sourceFile" \in S THEN "freed" ELSE item.sourceFile]
  BY <1>1, <1>2 DEF Freed
<1>4. QED
  BY <1>3 DEF Item, Strings, Pointer
-----------------------------------------------------------------------------
(* What each statement of a call knows of the items, the symbols and the   *)
(* result.                                                                 *)
InLoop == {"item", "details", "whole", "next"}

LoopShape ==
  /\ pc \in {"symbols", "item"} => CompleteBelow(i) /\ Untouched(i)
  /\ pc \in {"details", "whole"} =>
       /\ i < Count /\ CompleteBelow(i) /\ Untouched(i + 1)
       /\ items[i].address = i + offset /\ items[i].binFile = "text"
  /\ pc = "whole" =>
       /\ items[i].line # "unset"
       /\ items[i].funcName \in Allocated /\ items[i].sourceFile \in Allocated
  /\ pc = "next" => i < Count /\ CompleteBelow(i + 1) /\ Untouched(i + 1)

EndShape ==
  /\ pc \in {"returned", "used"} => rc \in {"ok", "error"} /\ symbols # "live"
  /\ pc = "used" => rc = "ok"
  /\ pc \in {"returned", "used"} /\ rc = "ok" => CompleteBelow(Count) /\ Untouched(Count)
  /\ pc = "symbols" => symbols # "live"
  /\ ReleaseIsComplete

ConvertInv == TypeOK /\ LoopShape /\ EndShape

(* The number of items to fill fits the buffer and the frames.             *)
LEMMA CountFacts ==
  ASSUME TypeOK
  PROVE  /\ depth \in Nat /\ size \in Nat /\ offset \in Nat /\ i \in Nat
         /\ Count \in Nat /\ Count <= size /\ Count <= depth - offset
         /\ depth <= MaxDepth /\ i <= Count
BY DepthAssumption, ItemsAssumption DEF TypeOK, Count

(* The clean-up frees only what is allocated.                              *)
LEMMA GiveUpStep ==
  ASSUME ConvertInv, pc \in InLoop, NEW table \in [0..(size - 1) -> Item],
         \A k \in 0..(i - 1) : table[k].binFile \in Allocated,
         GiveUp(table), UNCHANGED <<args, i>>
  PROVE  ConvertInv' /\ misuse' = misuse
<1>1. \A k \in 0..(i - 1) : CanFree(table[k], {"binFile"})
  BY DEF CanFree
<1>2. misuse' = misuse
  BY <1>1 DEF GiveUp, ConvertInv, TypeOK
<1>3. \A k \in 0..(size - 1) : Freed(table[k], {"binFile"}) \in Item
  BY FreedItem DEF Strings
<1>4. items' \in [0..(size - 1) -> Item]
  BY <1>3 DEF GiveUp
<1>5. UNCHANGED <<depth, offset, size, i>> /\ Count' = Count
  BY DEF args, Count
<1>6. pc' = "returned" /\ rc' = "error" /\ symbols' = "freed"
  BY DEF GiveUp
<1>7. TypeOK'
  BY <1>2, <1>4, <1>5, <1>6 DEF ConvertInv, TypeOK
<1>8. LoopShape' /\ EndShape'
  BY <1>6 DEF LoopShape, EndShape, ReleaseIsComplete
<1>9. QED
  BY <1>2, <1>7, <1>8 DEF ConvertInv
LEMMA OffsetFits ==
  ASSUME NEW a \in Nat, NEW b \in 0..a
  PROVE  a - b \in Nat
OBVIOUS

LEMMA BeginStep ==
  ASSUME ConvertInv, NEW d \in 0..MaxDepth, NEW off \in Nat, NEW n \in 0..MaxItems,
         Begin(d, off, n)
  PROVE  ConvertInv' /\ misuse' = misuse
<1>1. /\ pc' = "symbols" /\ symbols' = "none" /\ rc' = "none" /\ i' = 0 /\ misuse' = misuse
      /\ depth' = d /\ size' = n /\ offset' \in 0..d
      /\ items' = [k \in 0..(n - 1) |-> Unset]
  BY DepthAssumption DEF Begin
<1>2. Unset \in Item
  BY DEF Unset, Item, Pointer, Lines
<1>3. Count' \in Nat
  <2>1. d \in Nat /\ n \in Nat /\ offset' \in 0..d
    BY <1>1, DepthAssumption, ItemsAssumption
  <2>2. d - offset' \in Nat
    BY <2>1, OffsetFits
  <2>3. Count' = IF d - offset' > n THEN n ELSE d - offset'
    BY <1>1 DEF Count
  <2>4. QED
    BY <2>1, <2>2, <2>3
<1>4. TypeOK'
  <2>1. items' \in [0..(n - 1) -> Item] /\ i' \in 0..Count'
    BY <1>1, <1>2, <1>3
  <2>2. QED
    BY <1>1, <2>1 DEF TypeOK, ConvertInv
<1>5. CompleteBelow(i)' /\ Untouched(i)'
  BY <1>1, ItemsAssumption DEF CompleteBelow, Untouched
<1>6. LoopShape' /\ EndShape'
  BY <1>1, <1>5 DEF LoopShape, EndShape, ReleaseIsComplete
<1>7. QED
  BY <1>1, <1>4, <1>6 DEF ConvertInv

LEMMA GetSymbolsStep ==
  ASSUME ConvertInv, GetSymbols
  PROVE  ConvertInv' /\ misuse' = misuse
<1>1. UNCHANGED <<depth, offset, size, items, i, misuse>> /\ Count' = Count /\ pc = "symbols"
  BY DEF GetSymbols, args, Count
<1>2. \/ pc' = "item" /\ symbols' = "live" /\ rc' = rc
      \/ pc' = "returned" /\ rc' = "error" /\ symbols' = symbols
  BY DEF GetSymbols
<1>3. TypeOK'
  BY <1>1, <1>2 DEF ConvertInv, TypeOK
<1>4. LoopShape' /\ EndShape'
  BY <1>1, <1>2 DEF ConvertInv, LoopShape, EndShape, ReleaseIsComplete,
     CompleteBelow, Untouched, Complete
<1>5. QED
  BY <1>1, <1>3, <1>4 DEF ConvertInv

(* The binaries of the items done are allocated.                           *)
LEMMA BinariesAllocated ==
  ASSUME ConvertInv, pc \in InLoop \ {"next"}
  PROVE  \A k \in 0..(i - 1) : k \in 0..(size - 1) /\ k # i /\ items[k].binFile \in Allocated
<1>1. CompleteBelow(i)
  BY DEF ConvertInv, LoopShape, InLoop
<1>2. DOMAIN items = 0..(size - 1)
  BY DEF ConvertInv, TypeOK
<1>3. QED
  BY <1>1, <1>2, CountFacts DEF ConvertInv, CompleteBelow, Complete, Strings

LEMMA CopyBinFileStep ==
  ASSUME ConvertInv, CopyBinFile
  PROVE  ConvertInv' /\ misuse' = misuse
<1>1. pc = "item" /\ i < Count /\ UNCHANGED <<args, i>>
  BY DEF CopyBinFile
<1> DEFINE addressed == [items EXCEPT ![i].address = FrameOf(i)]
<1>2. i \in 0..(size - 1) /\ i + offset \in 0..(MaxDepth - 1) /\ FrameOf(i) = i + offset
  BY <1>1, CountFacts, DepthAssumption DEF ConvertInv, FrameOf
<1>3. addressed \in [0..(size - 1) -> Item]
  BY <1>2 DEF ConvertInv, TypeOK, Item
<1>4. CASE GiveUp(addressed)
  <2>1. \A k \in 0..(i - 1) : addressed[k].binFile \in Allocated
    BY <1>1, BinariesAllocated DEF ConvertInv, TypeOK, InLoop
  <2> HIDE DEF addressed
  <2>2. QED
    BY <1>1, <1>3, <1>4, <2>1, GiveUpStep DEF InLoop
<1>5. CASE /\ items' = [addressed EXCEPT ![i].binFile = "text"] /\ pc' = "details"
           /\ UNCHANGED <<symbols, rc, misuse>>
  <2>1. items' \in [0..(size - 1) -> Item]
    <3> HIDE DEF addressed
    <3>1. QED
      BY <1>2, <1>3, <1>5 DEF Item, Pointer
  <2>2. /\ items'[i].address = i + offset /\ items'[i].binFile = "text"
        /\ \A k \in 0..(size - 1) : k # i => items'[k] = items[k]
    BY <1>2, <1>5 DEF ConvertInv, TypeOK, Item
  <2>3. UNCHANGED <<depth, offset, size, i>> /\ Count' = Count
    BY <1>1 DEF args, Count
  <2>4. TypeOK'
    BY <1>5, <2>1, <2>3 DEF ConvertInv, TypeOK
  <2>5. CompleteBelow(i) /\ Untouched(i)
    BY <1>1 DEF ConvertInv, LoopShape
  <2>6. CompleteBelow(i)' /\ Untouched(i + 1)'
    BY <2>1, <2>2, <2>3, <2>5, CountFacts DEF ConvertInv, TypeOK, CompleteBelow, Untouched, Complete
  <2>7. LoopShape' /\ EndShape'
    BY <1>1, <1>5, <2>2, <2>3, <2>6 DEF LoopShape, EndShape, ReleaseIsComplete
  <2>8. QED
    BY <1>5, <2>4, <2>7 DEF ConvertInv
<1>6. QED
  BY <1>4, <1>5 DEF CopyBinFile

LEMMA DetailsAnswerStep ==
  ASSUME ConvertInv, DetailsAnswer
  PROVE  ConvertInv' /\ misuse' = misuse
<1>1. pc = "details" /\ UNCHANGED <<depth, offset, size, i, symbols, rc, misuse>> /\ Count' = Count
  BY DEF DetailsAnswer, args, Count
<1>2. /\ i \in 0..(size - 1) /\ i < Count /\ CompleteBelow(i) /\ Untouched(i + 1)
      /\ items[i].address = i + offset /\ items[i].binFile = "text"
  BY <1>1, CountFacts DEF ConvertInv, LoopShape
<1>3. PICK f \in Allocated, l \in {"known", "negative"} :
        /\ items' = [items EXCEPT ![i] = [items[i] EXCEPT !.funcName = f, !.sourceFile = f, !.line = l]]
        /\ pc' \in {"next", "whole"}
  <2>1. CASE /\ items' = [items EXCEPT ![i].funcName = "text", ![i].sourceFile = "text",
                                       ![i].line = "known"]
             /\ pc' = "next"
    <3>1. items' = [items EXCEPT ![i] = [items[i] EXCEPT !.funcName = "text", !.sourceFile = "text",
                                                        !.line = "known"]]
      BY <1>2, <2>1 DEF ConvertInv, TypeOK, Item
    <3>2. QED
      BY <2>1, <3>1 DEF Allocated
  <2>2. CASE /\ items' = [items EXCEPT ![i].funcName = "Unknown", ![i].sourceFile = "Unknown",
                                       ![i].line = "negative"]
             /\ pc' = "whole"
    <3>1. items' = [items EXCEPT ![i] = [items[i] EXCEPT !.funcName = "Unknown",
                                             !.sourceFile = "Unknown", !.line = "negative"]]
      BY <1>2, <2>2 DEF ConvertInv, TypeOK, Item
    <3>2. QED
      BY <2>2, <3>1 DEF Allocated
  <2>3. QED
    BY <2>1, <2>2 DEF DetailsAnswer
<1> DEFINE item == [items[i] EXCEPT !.funcName = f, !.sourceFile = f, !.line = l]
<1>4. item \in Item
  BY <1>2 DEF ConvertInv, TypeOK, Item, Pointer, Lines, Allocated
<1>5. /\ item.address = i + offset /\ item.binFile = "text" /\ item.line # "unset"
      /\ item.funcName \in Allocated /\ item.sourceFile \in Allocated
  BY <1>2 DEF ConvertInv, TypeOK, Item
<1> HIDE DEF item
<1>6. /\ items' \in [0..(size - 1) -> Item] /\ items'[i] = item
      /\ \A k \in 0..(size - 1) : k # i => items'[k] = items[k]
  BY <1>2, <1>3, <1>4 DEF item, ConvertInv, TypeOK
<1>7. TypeOK'
  BY <1>1, <1>3, <1>6 DEF ConvertInv, TypeOK
<1>8. CompleteBelow(i)' /\ Untouched(i + 1)'
  BY <1>1, <1>2, <1>6, CountFacts DEF ConvertInv, TypeOK, CompleteBelow, Untouched, Complete
<1>9. Complete(i)'
  BY <1>1, <1>5, <1>6 DEF Complete, Strings, Allocated
<1>10. CompleteBelow(i + 1)'
  BY <1>1, <1>8, <1>9, <1>6, CountFacts DEF ConvertInv, CompleteBelow
<1>11. LoopShape' /\ EndShape'
  BY <1>1, <1>2, <1>3, <1>5, <1>6, <1>8, <1>10 DEF LoopShape, EndShape, ReleaseIsComplete
<1>12. QED
  BY <1>1, <1>7, <1>11 DEF ConvertInv
(* The item of a call that failed in the backend or at the whole symbol.   *)
LEMMA FailedItemStep ==
  ASSUME ConvertInv, pc \in {"details", "whole"}, NEW failed \in Item,
         GiveUp([items EXCEPT ![i] = failed]), UNCHANGED <<args, i>>
  PROVE  ConvertInv' /\ misuse' = misuse
<1> DEFINE table == [items EXCEPT ![i] = failed]
<1>1. table \in [0..(size - 1) -> Item]
  BY DEF ConvertInv, TypeOK
<1>2. \A k \in 0..(i - 1) : table[k].binFile \in Allocated
  BY BinariesAllocated DEF ConvertInv, TypeOK, InLoop
<1>3. GiveUp(table)
  OBVIOUS
<1> HIDE DEF table
<1>4. QED
  BY <1>1, <1>2, <1>3, GiveUpStep DEF InLoop

LEMMA DetailsFailStep ==
  ASSUME ConvertInv, DetailsFail
  PROVE  ConvertInv' /\ misuse' = misuse
<1>1. pc = "details" /\ UNCHANGED <<args, i>>
  BY DEF DetailsFail
<1>2. i \in 0..(size - 1) /\ items[i] \in Item
  BY <1>1, CountFacts DEF ConvertInv, LoopShape, TypeOK
<1>3. PICK failed \in {items[i],
                      [items[i] EXCEPT !.funcName = "null"],
                      [items[i] EXCEPT !.funcName = "freed", !.sourceFile = "null"]} :
        GiveUp([items EXCEPT ![i] = failed])
  BY DEF DetailsFail
<1>4. failed \in Item
  BY <1>2 DEF Item, Pointer
<1>5. QED
  BY <1>1, <1>3, <1>4, FailedItemStep

LEMMA CopyWholeSymbolStep ==
  ASSUME ConvertInv, CopyWholeSymbol
  PROVE  ConvertInv' /\ misuse' = misuse
<1>1. pc = "whole" /\ UNCHANGED <<args, i>>
  BY DEF CopyWholeSymbol
<1>2. /\ i \in 0..(size - 1) /\ items[i] \in Item /\ i < Count
      /\ CompleteBelow(i) /\ Untouched(i + 1)
      /\ items[i].address = i + offset /\ items[i].binFile = "text" /\ items[i].line # "unset"
      /\ items[i].funcName \in Allocated /\ items[i].sourceFile \in Allocated
  BY <1>1, CountFacts DEF ConvertInv, LoopShape, TypeOK
<1>3. CASE GiveUp([items EXCEPT ![i].binFile = "null"])
  <2> DEFINE failed == [items[i] EXCEPT !.binFile = "null"]
  <2>1. failed \in Item
    BY <1>2 DEF Item, Pointer
  <2>2. [items EXCEPT ![i].binFile = "null"] = [items EXCEPT ![i] = failed]
    OBVIOUS
  <2>3. GiveUp([items EXCEPT ![i] = failed])
    BY <1>3, <2>2
  <2> HIDE DEF failed
  <2>4. QED
    BY <1>1, <2>1, <2>3, FailedItemStep
<1>4. CASE /\ items' = [items EXCEPT ![i].binFile = "text"]
           /\ misuse' = (misuse \/ ~CanFree(items[i], {"binFile"}))
           /\ pc' = "next" /\ UNCHANGED <<symbols, rc>>
  <2>1. items' = items
    BY <1>2, <1>4 DEF ConvertInv, TypeOK, Item
  <2>2. CanFree(items[i], {"binFile"})
    BY <1>2 DEF CanFree, Allocated
  <2>3. misuse' = misuse
    BY <1>4, <2>2 DEF ConvertInv, TypeOK
  <2>4. UNCHANGED <<depth, offset, size, i>> /\ Count' = Count
    BY <1>1 DEF args, Count
  <2>5. TypeOK'
    BY <1>4, <2>1, <2>3, <2>4 DEF ConvertInv, TypeOK
  <2>6. Complete(i)
    BY <1>2 DEF Complete, Strings, Allocated
  <2>7. CompleteBelow(i + 1)
    BY <1>2, <2>6, CountFacts DEF ConvertInv, TypeOK, CompleteBelow
  <2>8. CompleteBelow(i + 1)' /\ Untouched(i + 1)'
    BY <1>2, <2>1, <2>4, <2>7 DEF CompleteBelow, Untouched, Complete
  <2>9. LoopShape' /\ EndShape'
    BY <1>2, <1>4, <2>4, <2>8 DEF LoopShape, EndShape, ReleaseIsComplete
  <2>10. QED
    BY <2>3, <2>5, <2>9 DEF ConvertInv
<1>5. QED
  BY <1>3, <1>4 DEF CopyWholeSymbol

LEMMA LoopStep ==
  ASSUME ConvertInv, NextItem \/ Finish
  PROVE  ConvertInv' /\ misuse' = misuse
<1>1. UNCHANGED <<depth, offset, size, items, misuse>> /\ Count' = Count
  BY DEF NextItem, Finish, args, Count
<1>2. CASE NextItem
  <2>1. pc = "next" /\ pc' = "item" /\ i' = i + 1 /\ UNCHANGED <<symbols, rc>>
    BY <1>2 DEF NextItem
  <2>2. i < Count /\ CompleteBelow(i + 1) /\ Untouched(i + 1)
    BY <2>1 DEF ConvertInv, LoopShape
  <2>3. TypeOK'
    BY <1>1, <2>1, <2>2, CountFacts DEF ConvertInv, TypeOK
  <2>4. CompleteBelow(i)' /\ Untouched(i)'
    BY <1>1, <2>1, <2>2 DEF CompleteBelow, Untouched, Complete
  <2>5. LoopShape' /\ EndShape'
    BY <2>1, <2>4 DEF LoopShape, EndShape, ReleaseIsComplete
  <2>6. QED
    BY <1>1, <2>3, <2>5 DEF ConvertInv
<1>3. CASE Finish
  <2>1. /\ pc = "item" /\ pc' = "returned" /\ rc' = "ok" /\ symbols' = "freed"
        /\ i' = i /\ i = Count
    BY <1>3, CountFacts DEF Finish, ConvertInv
  <2>2. CompleteBelow(Count) /\ Untouched(Count)
    BY <2>1 DEF ConvertInv, LoopShape
  <2>3. CompleteBelow(Count)' /\ Untouched(Count)'
    BY <1>1, <2>2 DEF CompleteBelow, Untouched, Complete
  <2>4. TypeOK'
    BY <1>1, <2>1 DEF ConvertInv, TypeOK
  <2>5. LoopShape' /\ EndShape'
    BY <2>1, <2>3 DEF LoopShape, EndShape, ReleaseIsComplete
  <2>6. QED
    BY <1>1, <2>4, <2>5 DEF ConvertInv
<1>4. QED
  BY <1>2, <1>3

(* No step of the conversion misuses a string.                             *)
LEMMA ConvertPreserves ==
  ASSUME ConvertInv, Convert
  PROVE  ConvertInv' /\ misuse' = misuse
BY GetSymbolsStep, CopyBinFileStep, DetailsAnswerStep, DetailsFailStep, CopyWholeSymbolStep,
   LoopStep DEF Convert

-----------------------------------------------------------------------------
(* A caller that heeds the result reads and frees what is allocated.       *)
LEMMA UseStep ==
  ASSUME ConvertInv, Use
  PROVE  ConvertInv' /\ misuse' = misuse
<1>1. /\ pc = "returned" /\ rc = "ok" /\ pc' = "used"
      /\ UNCHANGED <<depth, offset, size, items, i, symbols, rc>> /\ Count' = Count
  BY DEF Use, args, Count
<1>2. CompleteBelow(Count) /\ Untouched(Count)
  BY <1>1 DEF ConvertInv, EndShape
<1>3. \A k \in 0..(Count - 1) : ~Unreadable(items[k])
  <2>1. ASSUME NEW k \in 0..(Count - 1)
        PROVE  \A f \in Strings : items[k][f] \in Allocated
    BY <1>2, CountFacts DEF ConvertInv, TypeOK, CompleteBelow, Complete
  <2>2. QED
    BY <2>1 DEF Unreadable, Allocated
<1>4. misuse' = misuse
  BY <1>3 DEF Use, ConvertInv, TypeOK
<1>5. TypeOK'
  BY <1>1, <1>4 DEF ConvertInv, TypeOK
<1>6. CompleteBelow(Count)' /\ Untouched(Count)'
  BY <1>1, <1>2 DEF CompleteBelow, Untouched, Complete
<1>7. LoopShape' /\ EndShape'
  BY <1>1, <1>6 DEF ConvertInv, LoopShape, EndShape, ReleaseIsComplete
<1>8. QED
  BY <1>4, <1>5, <1>7 DEF ConvertInv

(* Freeing every item leaves items, none with an allocated string.         *)
LEMMA FreeAll ==
  ASSUME NEW n \in Nat, TypeOK,
         \A k \in DOMAIN items : k >= n => items[k] = Unset,
         items' = [k \in DOMAIN items |->
                     IF k < n THEN FreeStackItemData(items[k]) ELSE items[k]]
  PROVE  /\ items' \in [0..(size - 1) -> Item]
         /\ \A k \in 0..(size - 1) : \A f \in Strings : items'[k][f] \notin Allocated
<1>1. \A k \in 0..(size - 1) : items[k] \in Item
  BY DEF TypeOK
<1>2. \A k \in 0..(size - 1) :
        /\ FreeStackItemData(items[k]) \in Item
        /\ \A f \in Strings : FreeStackItemData(items[k])[f] = "freed"
  BY <1>1, FreedItem DEF FreeStackItemData
<1>3. \A f \in Strings : Unset[f] = "unset"
  BY DEF Unset, Strings
<1>4. DOMAIN items = 0..(size - 1)
  BY DEF TypeOK
<1>5. ASSUME NEW k \in 0..(size - 1)
      PROVE  items'[k] \in Item /\ \A f \in Strings : items'[k][f] \notin Allocated
  <2>1. CASE k < n
    <3>1. items'[k] = FreeStackItemData(items[k])
      BY <1>4, <2>1
    <3>2. QED
      BY <1>2, <3>1 DEF Allocated
  <2>2. CASE ~(k < n)
    <3>1. k >= n
      BY <2>2, ItemsAssumption DEF TypeOK
    <3>2. items'[k] = items[k] /\ items[k] = Unset
      BY <1>4, <2>2, <3>1
    <3>3. QED
      BY <1>1, <1>3, <3>2 DEF Allocated
  <2>3. QED
    BY <2>1, <2>2
<1>6. QED
  BY <1>4, <1>5

LEMMA ReleaseStep ==
  ASSUME ConvertInv, Release
  PROVE  ConvertInv' /\ misuse' = misuse
<1>1. /\ pc = "used" /\ pc' = "released"
      /\ UNCHANGED <<depth, offset, size, i, symbols, rc>> /\ Count' = Count
  BY DEF Release, args, Count
<1>2. CompleteBelow(Count) /\ Untouched(Count)
  BY <1>1 DEF ConvertInv, EndShape
<1>3. \A k \in 0..(Count - 1) : CanFree(items[k], Strings)
  BY <1>2, CountFacts DEF ConvertInv, TypeOK, CompleteBelow, Complete, CanFree
<1>4. misuse' = misuse
  BY <1>3 DEF Release, ConvertInv, TypeOK
<1>5. /\ items' \in [0..(size - 1) -> Item]
      /\ \A k \in 0..(size - 1) : \A f \in Strings : items'[k][f] \notin Allocated
  BY <1>2, FreeAll, CountFacts DEF Release, Untouched, ConvertInv
<1>6. TypeOK'
  BY <1>1, <1>4, <1>5 DEF ConvertInv, TypeOK
<1>7. ReleaseIsComplete'
  BY <1>1, <1>5 DEF ReleaseIsComplete
<1>8. LoopShape' /\ EndShape'
  BY <1>1, <1>7 DEF LoopShape, EndShape
<1>9. QED
  BY <1>4, <1>6, <1>8 DEF ConvertInv
-----------------------------------------------------------------------------
(* The object: its array has an item for each frame of the backtrace, and  *)
(* only an object whose conversion failed has misused a string.            *)
ObjectShape ==
  /\ object \in {"none", "constructing", "alive", "thrown", "leaked", "destroyed"}
  /\ object \in {"constructing", "alive", "destroyed"} =>
       offset = 0 /\ depth = m_itemsCount /\ size = m_itemsCount
  /\ object = "constructing" => pc \notin {"idle", "used", "released"}
  /\ object = "alive" => pc = "returned"
  /\ object = "destroyed" => pc = "released"
  /\ MisuseOnlyAfterFailure

IInv == ConvertInv /\ ObjectShape

LEMMA InitIInv == ObjectInit => IInv
<1> SUFFICES ASSUME ObjectInit
             PROVE  IInv
  OBVIOUS
<1>1. Count = 0
  BY DEF ObjectInit, Init, Count
<1>2. TypeOK
  <2>1. size = 0 /\ items \in [0..(size - 1) -> Item]
    <3>1. size = 0 /\ items = [k \in {} |-> Unset] /\ 0..(0 - 1) = {}
      BY DEF ObjectInit, Init
    <3>2. [k \in {} |-> Unset] \in [{} -> Item]
      OBVIOUS
    <3>3. QED
      BY <3>1, <3>2
  <2>2. /\ pc = "idle" /\ depth = 0 /\ offset = 0 /\ i = 0
        /\ symbols = "none" /\ rc = "none" /\ misuse = FALSE
    BY DEF ObjectInit, Init
  <2>3. 0 \in 0..MaxDepth /\ 0 \in 0..MaxItems /\ 0 \in 0..0
    BY DepthAssumption, ItemsAssumption
  <2>4. depth \in 0..MaxDepth /\ size \in 0..MaxItems /\ offset \in 0..depth /\ i \in 0..Count
    BY <1>1, <2>1, <2>2, <2>3
  <2>5. QED
    BY <2>1, <2>2, <2>4 DEF TypeOK
<1>3. LoopShape /\ EndShape /\ ObjectShape
  BY DEF ObjectInit, Init, LoopShape, EndShape, ReleaseIsComplete, ObjectShape,
     MisuseOnlyAfterFailure
<1>4. QED
  BY <1>2, <1>3 DEF IInv, ConvertInv

(* Of an object whose conversion succeeded every item can be read and      *)
(* freed.                                                                  *)
LEMMA AliveItems ==
  ASSUME IInv, object = "alive"
  PROVE  /\ m_itemsCount = size /\ size \in Nat /\ rc \in {"ok", "error"}
         /\ rc = "ok" => \A k \in 0..(m_itemsCount - 1) :
                           ~Unreadable(items[k]) /\ CanFree(items[k], Strings)
<1>1. m_itemsCount = size /\ Count = size /\ size \in Nat
  BY CountFacts DEF IInv, ConvertInv, ObjectShape, Count
<1>2. pc = "returned" /\ rc \in {"ok", "error"}
  BY DEF IInv, ConvertInv, EndShape, ObjectShape
<1>3. ASSUME rc = "ok", NEW k \in 0..(m_itemsCount - 1)
      PROVE  ~Unreadable(items[k]) /\ CanFree(items[k], Strings)
  <2>1. CompleteBelow(Count) /\ DOMAIN items = 0..(size - 1)
    BY <1>2, <1>3 DEF IInv, ConvertInv, EndShape, TypeOK
  <2>2. \A f \in Strings : items[k][f] \in Allocated
    BY <1>1, <2>1 DEF CompleteBelow, Complete
  <2>3. QED
    BY <2>2 DEF Unreadable, CanFree, Allocated
<1>4. QED
  BY <1>1, <1>2, <1>3

LEMMA ConstructPreserves == IInv /\ Construct => IInv'
<1> SUFFICES ASSUME IInv, Construct
             PROVE  IInv'
  OBVIOUS
<1>1. PICK d \in 1..MaxDepth : m_itemsCount' = d /\ Begin(d, 0, d)
  BY DEF Construct
<1>2. d \in 0..MaxDepth /\ d \in 0..MaxItems /\ 0 \in Nat /\ ~(0 > d)
  BY DepthAssumption, ItemsAssumption, ArrayAssumption
<1>3. ConvertInv' /\ misuse' = misuse
  BY <1>1, <1>2, BeginStep DEF IInv
<1>4. /\ object = "none" /\ object' = "constructing" /\ pc' = "symbols"
      /\ offset' = 0 /\ depth' = d /\ size' = d /\ m_itemsCount' = d
  BY <1>1, <1>2 DEF Construct, Begin
<1>5. ObjectShape'
  BY <1>3, <1>4 DEF IInv, ObjectShape, MisuseOnlyAfterFailure
<1>6. QED
  BY <1>3, <1>5 DEF IInv

LEMMA ConvertStepPreserves == IInv /\ ConvertStep => IInv'
<1> SUFFICES ASSUME IInv, ConvertStep
             PROVE  IInv'
  OBVIOUS
<1>1. /\ Convert /\ object = "constructing" /\ UNCHANGED <<object, m_itemsCount>>
  BY DEF ConvertStep
<1>2. ConvertInv' /\ misuse' = misuse
  BY <1>1, ConvertPreserves DEF IInv
<1>3. UNCHANGED <<depth, offset, size>>
  BY <1>1 DEF Convert, GetSymbols, CopyBinFile, DetailsAnswer, DetailsFail, CopyWholeSymbol,
     NextItem, Finish, args
<1>4. pc' \notin {"idle", "used", "released"}
  BY <1>1 DEF Convert, GetSymbols, CopyBinFile, DetailsAnswer, DetailsFail, CopyWholeSymbol,
     NextItem, Finish, GiveUp
<1>5. ObjectShape'
  BY <1>1, <1>2, <1>3, <1>4 DEF IInv, ObjectShape, MisuseOnlyAfterFailure
<1>6. QED
  BY <1>2, <1>5 DEF IInv

LEMMA PrintStackPreserves == IInv /\ PrintStack => IInv'
<1> SUFFICES ASSUME IInv, PrintStack
             PROVE  IInv'
  OBVIOUS
<1>1. /\ object = "alive" /\ misuse' \in BOOLEAN
      /\ UNCHANGED <<pc, depth, offset, size, items, i, symbols, rc, object, m_itemsCount>>
      /\ Count' = Count
  BY DEF PrintStack, args, Count, IInv, ConvertInv, TypeOK
<1>2. pc = "returned" /\ (rc = "ok" => misuse' = misuse)
  BY <1>1, AliveItems DEF PrintStack, IInv, ObjectShape, ConvertInv, TypeOK
<1>3. rc \in {"ok", "error"}
  BY <1>1, AliveItems
<1>4. TypeOK'
  BY <1>1 DEF IInv, ConvertInv, TypeOK
<1>5. LoopShape' /\ EndShape'
  BY <1>1, <1>2 DEF IInv, ConvertInv, LoopShape, EndShape, ReleaseIsComplete, CompleteBelow,
     Untouched, Complete
<1>6. ObjectShape'
  BY <1>1, <1>2, <1>3 DEF IInv, ObjectShape, MisuseOnlyAfterFailure
<1>7. QED
  BY <1>4, <1>5, <1>6 DEF IInv, ConvertInv

LEMMA DestroyPreserves == IInv /\ Destroy => IInv'
<1> SUFFICES ASSUME IInv, Destroy
             PROVE  IInv'
  OBVIOUS
<1>1. /\ object = "alive" /\ object' = "destroyed" /\ pc' = "released" /\ misuse' \in BOOLEAN
      /\ UNCHANGED <<depth, offset, size, i, symbols, rc, m_itemsCount>> /\ Count' = Count
  BY DEF Destroy, args, Count, IInv, ConvertInv, TypeOK
<1>2. m_itemsCount = size /\ size \in Nat /\ rc \in {"ok", "error"}
  BY <1>1, AliveItems
<1>3. rc = "ok" => misuse' = misuse
  BY <1>1, AliveItems DEF Destroy, IInv, ConvertInv, TypeOK
<1>4. \A k \in DOMAIN items : ~(k >= m_itemsCount)
  BY <1>2 DEF IInv, ConvertInv, TypeOK
<1>5. /\ items' \in [0..(size - 1) -> Item]
      /\ \A k \in 0..(size - 1) : \A f \in Strings : items'[k][f] \notin Allocated
  BY <1>2, <1>4, FreeAll DEF Destroy, IInv, ConvertInv
<1>6. TypeOK'
  BY <1>1, <1>5 DEF IInv, ConvertInv, TypeOK
<1>7. LoopShape' /\ EndShape'
  BY <1>1, <1>5 DEF LoopShape, EndShape, ReleaseIsComplete
<1>8. ObjectShape'
  BY <1>1, <1>2, <1>3 DEF IInv, ObjectShape, MisuseOnlyAfterFailure
<1>9. QED
  BY <1>6, <1>7, <1>8 DEF IInv, ConvertInv

LEMMA CallDirectlyPreserves == IInv /\ CallDirectly => IInv'
<1> SUFFICES ASSUME IInv, CallDirectly
             PROVE  IInv'
  OBVIOUS
<1>1. object = "none" /\ UNCHANGED <<object, m_itemsCount>> /\ Next
  BY DEF CallDirectly
<1>2. ASSUME NEW d \in 0..MaxDepth, NEW off \in 0..(MaxDepth + 1), NEW n \in 0..MaxItems,
             Begin(d, off, n)
      PROVE  ConvertInv' /\ misuse' = misuse
  <2>1. off \in Nat
    BY DepthAssumption
  <2>2. QED
    BY <1>2, <2>1, BeginStep DEF IInv
<1>3. ConvertInv' /\ misuse' = misuse
  BY <1>1, <1>2, ConvertPreserves, UseStep, ReleaseStep DEF Next, IInv
<1>4. ObjectShape'
  BY <1>1, <1>3 DEF IInv, ObjectShape, MisuseOnlyAfterFailure
<1>5. QED
  BY <1>3, <1>4 DEF IInv

(* A step that changes at most the object's name.                          *)
LEMMA SameCall ==
  ASSUME IInv, UNCHANGED vars
  PROVE  ConvertInv'
<1>1. UNCHANGED <<pc, depth, offset, size, items, i, symbols, rc, misuse>> /\ Count' = Count
  BY DEF vars, args, Count
<1>2. TypeOK' /\ LoopShape' /\ EndShape'
  BY <1>1 DEF IInv, ConvertInv, TypeOK, LoopShape, EndShape, ReleaseIsComplete, CompleteBelow,
     Untouched, Complete
<1>3. QED
  BY <1>2 DEF ConvertInv

LEMMA NextIInv == IInv /\ [ObjectNext]_objectVars => IInv'
<1> SUFFICES ASSUME IInv, [ObjectNext]_objectVars
             PROVE  IInv'
  OBVIOUS
<1>1. CASE ConstructThrows
  <2>1. ObjectShape'
    BY <1>1 DEF ConstructThrows, vars, args, IInv, ObjectShape, MisuseOnlyAfterFailure
  <2>2. QED
    BY <1>1, <2>1, SameCall DEF ConstructThrows, IInv
<1>2. CASE Constructed
  <2>1. ObjectShape'
    BY <1>2 DEF Constructed, vars, args, IInv, ObjectShape, MisuseOnlyAfterFailure
  <2>2. QED
    BY <1>2, <2>1, SameCall DEF Constructed, IInv
<1>3. CASE UNCHANGED objectVars
  <2>1. ObjectShape'
    BY <1>3 DEF objectVars, vars, args, IInv, ObjectShape, MisuseOnlyAfterFailure
  <2>2. QED
    BY <1>3, <2>1, SameCall DEF objectVars, IInv
<1>4. QED
  BY <1>1, <1>2, <1>3, ConstructPreserves, ConvertStepPreserves, PrintStackPreserves,
     DestroyPreserves, CallDirectlyPreserves DEF ObjectNext

(* The inductive invariant holds of every run, with or without an object.  *)
THEOREM Invariance == ObjectSpec => []IInv
<1>1. QED
  BY InitIInv, NextIInv, PTL DEF ObjectSpec
-----------------------------------------------------------------------------
(* Every variable keeps its type: no item takes an address from beyond the *)
(* frames of the backtrace (stack_investigator_backtrace_unix.c:145).      *)
THEOREM TypeCorrect == ObjectSpec => []TypeOK
<1>1. IInv => TypeOK
  BY DEF IInv, ConvertInv
<1>2. QED
  BY <1>1, Invariance, PTL

(* A conversion that returns 0 has filled every item it could, in the      *)
(* order of the frames, and none after them.                               *)
THEOREM ConvertsAll == ObjectSpec => []SuccessComplete
<1>1. ASSUME IInv, pc = "returned", rc = "ok", NEW k \in DOMAIN items
      PROVE  IF k < Count
             THEN /\ items[k].address = k + offset /\ items[k].address < depth
                  /\ items[k].line # "unset"
                  /\ \A f \in Strings : items[k][f] \in Allocated
             ELSE items[k] = Unset
  <2>1. CompleteBelow(Count) /\ Untouched(Count) /\ k \in 0..(size - 1)
    BY <1>1 DEF IInv, ConvertInv, EndShape, TypeOK
  <2>2. CASE k < Count
    BY <2>1, <2>2, <1>1, CountFacts DEF CompleteBelow, Complete, IInv, ConvertInv
  <2>3. CASE ~(k < Count)
    <3>1. k >= Count
      BY <2>1, <2>3, <1>1, CountFacts DEF IInv, ConvertInv
    <3>2. QED
      BY <1>1, <2>1, <2>3, <3>1 DEF Untouched
  <2>4. QED
    BY <2>2, <2>3
<1>2. IInv => SuccessComplete
  BY <1>1 DEF SuccessComplete
<1>3. QED
  BY <1>2, Invariance, PTL

(* The array of symbols is freed on every path out of the call.            *)
THEOREM SymbolsFreed == ObjectSpec => []SymbolsReleased
<1>1. IInv => SymbolsReleased
  BY DEF IInv, ConvertInv, EndShape, SymbolsReleased
<1>2. QED
  BY <1>1, Invariance, PTL

(* A caller or a destructor that frees every item leaves no string behind. *)
THEOREM ReleaseFreesAll == ObjectSpec => []ReleaseIsComplete
<1>1. IInv => ReleaseIsComplete
  BY DEF IInv, ConvertInv, EndShape
<1>2. QED
  BY <1>1, Invariance, PTL

(* Only an object whose conversion failed reads or frees a string that is  *)
(* not allocated: the conversion, its error paths and a caller that heeds  *)
(* its result never do.                                                    *)
THEOREM NoMisuseButOfFailedObject == ObjectSpec => []MisuseOnlyAfterFailure
<1>1. IInv => MisuseOnlyAfterFailure
  BY DEF IInv, ObjectShape
<1>2. QED
  BY <1>1, Invariance, PTL
=============================================================================
