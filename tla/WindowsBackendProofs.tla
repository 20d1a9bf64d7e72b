------------------------ MODULE WindowsBackendProofs ------------------------
(***************************************************************************)
(* Proofs about WindowsBackend for stacks, buffers and backtraces of any   *)
(* size and any number of frames to skip.                                  *)
(***************************************************************************)
EXTENDS WindowsBackend, TLAPS

(* What has been written of an item that the conversion is done with.      *)
Pair(k) == items[k].line = "negative" => items[k].sourceFile = "null"
Owned == Allocated \cup {"null"}
Whole(k) == (\A f \in Strings : items[k][f] \in Owned) /\ Pair(k)
Placed(k) == items[k].address = FrameRead(k)

InItem == {"func", "line", "module", "next"}

(* The calls of DbgHelp have left item i as far as the statement says.     *)
ItemShape ==
  /\ pc \in InItem => i < Count /\ Placed(i)
  /\ pc \in {"line", "module", "next"} => items[i].funcName \in Owned
  /\ pc \in {"module", "next"} => items[i].sourceFile \in Owned /\ Pair(i)
  /\ pc = "next" => items[i].binFile \in Owned

Sizes ==
  /\ depth \in 0..MaxDepth /\ size \in 0..MaxItems /\ offset \in 0..depth
  /\ misuse = FALSE

FilledShape ==
  /\ \A k \in Filled : Placed(k)
  /\ pc \notin {"used", "released"} => \A k \in Filled : Whole(k)
  /\ pc = "used" => i = Count /\ \A k \in Filled : Whole(k)
  /\ pc = "returned" => i = Count

(* A capture is what the system wrote for the room it was told of.         *)
TakenShape ==
  \/ taken = NoCapture
  \/ \E n \in 0..MaxStack, k \in (-MaxSkip)..MaxSkip :
       taken = [stack |-> n, skip |-> k, first |-> Skipped(k),
                written |-> Written(n, Skipped(k), Wanted(k + 1))]

IInv == WindowsTypeOK /\ Sizes /\ FilledShape /\ ItemShape /\ TakenShape

WindowsItem == [address : (-MaxDepth)..MaxDepth, line : Lines,
                binFile : Pointer, funcName : Pointer, sourceFile : Pointer]

-----------------------------------------------------------------------------
(* The number of items to fill fits the buffer and the frames.             *)
LEMMA CountFacts ==
  ASSUME Sizes
  PROVE  /\ depth \in Nat /\ size \in Nat /\ offset \in Nat /\ Count \in Nat
         /\ Count <= size /\ Count <= depth - offset /\ depth <= MaxDepth
BY DepthAssumption, ItemsAssumption DEF Sizes, Count

LEMMA OffsetFits ==
  ASSUME NEW a \in Nat, NEW b \in 0..a
  PROVE  a - b \in Nat
OBVIOUS

(* Item i is written, and the others stay as they are.                     *)
LEMMA WriteItem ==
  ASSUME IInv, NEW item \in WindowsItem, i < Count, items' = [items EXCEPT ![i] = item],
         UNCHANGED <<args, i, misuse, session, taken>>,
         pc \notin {"used", "released"}, pc' \in InItem
  PROVE  /\ WindowsTypeOK' /\ Sizes' /\ FilledShape' /\ TakenShape'
         /\ items'[i] = item /\ Count' = Count
<1>1. /\ UNCHANGED <<depth, offset, size, i, misuse, session, taken>> /\ Count' = Count
  BY DEF args, Count
<1>2. i \in 0..(size - 1) /\ DOMAIN items = 0..(size - 1)
  BY CountFacts DEF IInv, WindowsTypeOK
<1>3. /\ items' \in [0..(size - 1) -> WindowsItem] /\ items'[i] = item
      /\ \A k \in 0..(size - 1) : k # i => items'[k] = items[k]
  BY <1>2 DEF IInv, WindowsTypeOK, WindowsItem
<1>4. WindowsTypeOK' /\ Sizes' /\ TakenShape'
  BY <1>1, <1>3 DEF IInv, WindowsTypeOK, WindowsItem, Sizes, TakenShape, InItem
<1>5. Filled' = Filled /\ \A k \in Filled : items'[k] = items[k]
  BY <1>1, <1>2, <1>3, CountFacts DEF Filled, IInv
<1>6. FilledShape'
  BY <1>1, <1>5 DEF IInv, FilledShape, Placed, Whole, Pair, FrameRead, InItem
<1>7. QED
  BY <1>1, <1>3, <1>4, <1>6

LEMMA TakeFrameStep ==
  ASSUME IInv, TakeFrame
  PROVE  IInv'
<1>1. i < Count /\ i \in 0..(size - 1) /\ items[i] \in WindowsItem
  BY CountFacts DEF TakeFrame, IInv, WindowsTypeOK, WindowsItem
<1> DEFINE item == [items[i] EXCEPT !.address = FrameRead(i)]
<1>2. FrameRead(i) \in (-MaxDepth)..MaxDepth
  BY <1>1, CountFacts, DepthAssumption DEF FrameRead, IInv
<1>3. item \in WindowsItem /\ item.address = FrameRead(i)
  BY <1>1, <1>2 DEF WindowsItem
<1>4. items' = [items EXCEPT ![i] = item]
  BY <1>1 DEF TakeFrame
<1>5. pc \notin {"used", "released"} /\ pc' = "func" /\ pc' \in InItem
  BY DEF TakeFrame, AtLoop, InItem
<1> HIDE DEF item
<1>6. UNCHANGED <<args, i, misuse, session, taken>>
  BY DEF TakeFrame
<1>7. /\ WindowsTypeOK' /\ Sizes' /\ FilledShape' /\ TakenShape'
      /\ items'[i] = item /\ Count' = Count
  BY <1>1, <1>3, <1>4, <1>5, <1>6, WriteItem
<1>8. Placed(i)'
  BY <1>3, <1>6, <1>7 DEF Placed, FrameRead, args
<1>9. ItemShape'
  BY <1>1, <1>5, <1>6, <1>7, <1>8 DEF ItemShape
<1>10. QED
  BY <1>7, <1>9 DEF IInv

LEMMA SymFromAddrStep ==
  ASSUME IInv, SymFromAddr
  PROVE  IInv'
<1>1. pc = "func" /\ pc' = "line" /\ pc' \in InItem /\ UNCHANGED <<args, i, misuse, session, taken>>
  BY DEF SymFromAddr, InItem
<1>2. i < Count /\ Placed(i) /\ i \in 0..(size - 1) /\ items[i] \in WindowsItem
  BY <1>1, CountFacts DEF IInv, ItemShape, InItem, WindowsTypeOK, WindowsItem
<1>3. PICK name \in Owned : items' = [items EXCEPT ![i] = [items[i] EXCEPT !.funcName = name]]
  BY <1>2 DEF SymFromAddr, Answers, Owned, Allocated
<1> DEFINE item == [items[i] EXCEPT !.funcName = name]
<1>4. item \in WindowsItem /\ item.address = items[i].address /\ item.funcName = name
  BY <1>2 DEF WindowsItem, Owned, Allocated, Pointer
<1> HIDE DEF item
<1>5. /\ WindowsTypeOK' /\ Sizes' /\ FilledShape' /\ TakenShape'
      /\ items'[i] = item /\ Count' = Count
  <2>1. items' = [items EXCEPT ![i] = item]
    BY <1>3 DEF item
  <2>2. QED
    BY <1>1, <1>2, <1>4, <2>1, WriteItem
<1>6. Placed(i)' /\ items'[i].funcName \in Owned
  BY <1>1, <1>2, <1>4, <1>5 DEF Placed, FrameRead, args
<1>7. ItemShape'
  BY <1>1, <1>2, <1>5, <1>6 DEF ItemShape
<1>8. QED
  BY <1>5, <1>7 DEF IInv

LEMMA SymGetLineFromAddrStep ==
  ASSUME IInv, SymGetLineFromAddr
  PROVE  IInv'
<1>1. /\ pc = "line" /\ pc' = "module" /\ pc' \in InItem
      /\ UNCHANGED <<args, i, misuse, session, taken>>
  BY DEF SymGetLineFromAddr, InItem
<1>2. /\ i < Count /\ Placed(i) /\ items[i].funcName \in Owned
      /\ i \in 0..(size - 1) /\ items[i] \in WindowsItem
  BY <1>1, CountFacts DEF IInv, ItemShape, InItem, WindowsTypeOK, WindowsItem
<1>3. PICK file \in Owned, l \in Lines :
        /\ items' = [items EXCEPT ![i] = [items[i] EXCEPT !.sourceFile = file, !.line = l]]
        /\ l = "negative" => file = "null"
  <2>1. ASSUME NEW file \in Answers,
               items' = [items EXCEPT ![i].sourceFile = file, ![i].line = "known"]
        PROVE  \E f \in Owned, l \in Lines :
                 /\ items' = [items EXCEPT ![i] = [items[i] EXCEPT !.sourceFile = f, !.line = l]]
                 /\ l = "negative" => f = "null"
    <3>1. file \in Owned /\ "known" \in Lines
      BY DEF Answers, Owned, Allocated, Lines
    <3>2. items' = [items EXCEPT ![i] = [items[i] EXCEPT !.sourceFile = file, !.line = "known"]]
      BY <1>2, <2>1 DEF IInv, WindowsTypeOK, WindowsItem
    <3>3. QED
      BY <3>1, <3>2
  <2>2. CASE items' = [items EXCEPT ![i].sourceFile = "null", ![i].line = "negative"]
    <3>1. "null" \in Owned /\ "negative" \in Lines
      BY DEF Owned, Lines
    <3>2. items' = [items EXCEPT ![i] = [items[i] EXCEPT !.sourceFile = "null", !.line = "negative"]]
      BY <1>2, <2>2 DEF IInv, WindowsTypeOK, WindowsItem
    <3>3. QED
      BY <3>1, <3>2
  <2>3. QED
    BY <2>1, <2>2 DEF SymGetLineFromAddr
<1> DEFINE item == [items[i] EXCEPT !.sourceFile = file, !.line = l]
<1>4. /\ item \in WindowsItem /\ item.address = items[i].address
      /\ item.funcName = items[i].funcName /\ item.sourceFile = file /\ item.line = l
  BY <1>2 DEF WindowsItem, Owned, Allocated, Pointer
<1> HIDE DEF item
<1>5. /\ WindowsTypeOK' /\ Sizes' /\ FilledShape' /\ TakenShape'
      /\ items'[i] = item /\ Count' = Count
  <2>1. items' = [items EXCEPT ![i] = item]
    BY <1>3 DEF item
  <2>2. QED
    BY <1>1, <1>2, <1>4, <2>1, WriteItem
<1>6. Placed(i)' /\ items'[i].funcName \in Owned /\ items'[i].sourceFile \in Owned /\ Pair(i)'
  BY <1>1, <1>2, <1>3, <1>4, <1>5 DEF Placed, FrameRead, args, Pair
<1>7. ItemShape'
  BY <1>1, <1>2, <1>5, <1>6 DEF ItemShape
<1>8. QED
  BY <1>5, <1>7 DEF IInv

LEMMA SymGetModuleInfoStep ==
  ASSUME IInv, SymGetModuleInfo
  PROVE  IInv'
<1>1. /\ pc = "module" /\ pc' = "next" /\ pc' \in InItem
      /\ UNCHANGED <<args, i, misuse, session, taken>>
  BY DEF SymGetModuleInfo, InItem
<1>2. /\ i < Count /\ Placed(i) /\ items[i].funcName \in Owned
      /\ items[i].sourceFile \in Owned /\ Pair(i)
      /\ i \in 0..(size - 1) /\ items[i] \in WindowsItem
  BY <1>1, CountFacts DEF IInv, ItemShape, InItem, WindowsTypeOK, WindowsItem
<1>3. PICK file \in Owned : items' = [items EXCEPT ![i] = [items[i] EXCEPT !.binFile = file]]
  BY <1>2 DEF SymGetModuleInfo, Answers, Owned, Allocated
<1> DEFINE item == [items[i] EXCEPT !.binFile = file]
<1>4. /\ item \in WindowsItem /\ item.address = items[i].address
      /\ item.funcName = items[i].funcName /\ item.sourceFile = items[i].sourceFile
      /\ item.line = items[i].line /\ item.binFile = file
  BY <1>2 DEF WindowsItem, Owned, Allocated, Pointer
<1> HIDE DEF item
<1>5. /\ WindowsTypeOK' /\ Sizes' /\ FilledShape' /\ TakenShape'
      /\ items'[i] = item /\ Count' = Count
  <2>1. items' = [items EXCEPT ![i] = item]
    BY <1>3 DEF item
  <2>2. QED
    BY <1>1, <1>2, <1>4, <2>1, WriteItem
<1>6. /\ Placed(i)' /\ items'[i].funcName \in Owned /\ items'[i].sourceFile \in Owned /\ Pair(i)'
      /\ items'[i].binFile \in Owned
  BY <1>1, <1>2, <1>3, <1>4, <1>5 DEF Placed, FrameRead, args, Pair
<1>7. ItemShape'
  BY <1>1, <1>2, <1>5, <1>6 DEF ItemShape
<1>8. QED
  BY <1>5, <1>7 DEF IInv

LEMMA NextItemStep ==
  ASSUME IInv, NextItem, UNCHANGED <<session, taken>>
  PROVE  IInv'
<1>1. /\ pc = "next" /\ pc' = "item" /\ i' = i + 1
      /\ UNCHANGED <<depth, offset, size, items, misuse, session, taken>> /\ Count' = Count
  BY DEF NextItem, args, Count
<1>2. i < Count /\ Placed(i) /\ Whole(i) /\ i \in Nat
  BY <1>1, CountFacts DEF IInv, ItemShape, InItem, Whole, Strings, WindowsTypeOK
<1>3. WindowsTypeOK' /\ Sizes' /\ TakenShape'
  <2>1. i + 1 \in 0..Count
    BY <1>2, CountFacts DEF IInv
  <2>2. i' \in 0..Count'
    BY <1>1, <2>1
  <2>3. QED
    BY <1>1, <2>2 DEF IInv, WindowsTypeOK, Sizes, TakenShape
<1>4. Filled' \subseteq Filled \cup {i}
  BY <1>1, <1>2, CountFacts DEF Filled, IInv, WindowsTypeOK
<1>5. FilledShape'
  BY <1>1, <1>2, <1>4 DEF IInv, FilledShape, Placed, Whole, Pair, FrameRead
<1>6. ItemShape'
  BY <1>1 DEF ItemShape, InItem
<1>7. QED
  BY <1>3, <1>5, <1>6 DEF IInv

LEMMA CallStep ==
  ASSUME IInv, NEW off \in 0..(MaxDepth + 1), NEW n \in 0..MaxItems, Call(off, n)
  PROVE  IInv'
<1>1. /\ taken.written \in 0..MaxDepth /\ pc' = "symbols" /\ i' = 0 /\ misuse' = misuse
      /\ depth' = taken.written /\ size' = n /\ UNCHANGED <<session, taken>>
      /\ items' = [k \in 0..(n - 1) |-> Unset]
      /\ offset' = IF off > taken.written THEN 0 ELSE off
  BY DepthAssumption DEF Call, Begin
<1>2. offset' \in 0..(taken.written)
  BY <1>1, DepthAssumption
<1>3. Unset \in WindowsItem
  BY DepthAssumption DEF Unset, WindowsItem, Pointer, Lines, NoFrame, Call, Begin
<1>4. items' \in [0..(n - 1) -> WindowsItem]
  BY <1>1, <1>3
<1>5. Sizes'
  BY <1>1, <1>2 DEF IInv, Sizes
<1>6. Count' \in Nat
  <2>1. taken.written - offset' \in Nat /\ n \in Nat
    BY <1>1, <1>2, OffsetFits, DepthAssumption, ItemsAssumption
  <2>2. Count' = IF taken.written - offset' > n THEN n ELSE taken.written - offset'
    BY <1>1 DEF Count
  <2>3. QED
    BY <2>1, <2>2
<1>7. i' \in 0..Count'
  BY <1>1, <1>6
<1>8. WindowsTypeOK' /\ TakenShape'
  BY <1>1, <1>4, <1>7 DEF IInv, WindowsTypeOK, WindowsItem, TakenShape
<1>9. Filled' = {}
  BY <1>1, ItemsAssumption DEF Filled
<1>10. FilledShape' /\ ItemShape'
  BY <1>1, <1>9 DEF FilledShape, ItemShape, InItem
<1>11. QED
  BY <1>5, <1>8, <1>10 DEF IInv

(* The skip and the room in a DWORD.                                       *)
LEMMA RoomFacts ==
  ASSUME NEW k \in (-MaxSkip)..MaxSkip
  PROVE  /\ Wanted(k + 1) \in Nat /\ Skipped(k) \in Nat
         /\ k >= -1 => Skipped(k) = k + 1
         /\ k < -1 => Skipped(k) > MaxStack
         /\ k >= -1 /\ k < MaxSymbols => Wanted(k + 1) = MaxSymbols - 1 - k
<1>1. /\ DWord \in Nat \ {0} /\ MaxSymbols \in Nat /\ MaxSymbols < DWord
      /\ MaxStack \in Nat /\ MaxSkip \in Nat /\ MaxStack + MaxSkip < DWord - 1 /\ k \in Int
  BY WindowsAssumption
<1>2. Wanted(k + 1) \in Nat /\ Skipped(k) \in Nat
  BY <1>1 DEF Wanted, Skipped
<1>3. CASE k >= -1
  <2>1. k < MaxSymbols => MaxSymbols - (k + 1) \in 0..(DWord - 1)
    BY <1>1, <1>3
  <2>2. k + 1 \in 0..(DWord - 1)
    BY <1>1, <1>3
  <2>3. QED
    BY <1>1, <1>3, <2>1, <2>2 DEF Wanted, Skipped
<1>4. CASE k < -1
  <2>1. k + 1 + DWord \in 0..(DWord - 1) /\ k + 1 + DWord > MaxStack
    BY <1>1, <1>4
  <2>2. (k + 1) % DWord = k + 1 + DWord
    BY <1>1, <2>1
  <2>3. QED
    BY <1>2, <1>4, <2>1, <2>2 DEF Skipped
<1>5. QED
  BY <1>1, <1>2, <1>3, <1>4

LEMMA CaptureStep ==
  ASSUME IInv, NEW n \in 0..MaxStack, NEW k \in (-MaxSkip)..MaxSkip, Capture(n, k)
  PROVE  IInv'
<1>1. n \in Nat /\ k \in Int
  BY WindowsAssumption
<1>2. Written(n, Skipped(k), Wanted(k + 1)) \in Nat
  BY <1>1, RoomFacts DEF Written
<1>3. /\ taken' = [stack |-> n, skip |-> k, first |-> Skipped(k),
                   written |-> Written(n, Skipped(k), Wanted(k + 1))]
      /\ UNCHANGED <<pc, depth, offset, size, items, i, misuse, session>> /\ Count' = Count
  BY DEF Capture, vars, args, Count
<1>4. taken' \in [stack : 0..MaxStack, skip : (-MaxSkip)..MaxSkip, first : Nat, written : Nat]
  BY <1>1, <1>2, <1>3, RoomFacts
<1>5. TakenShape'
  BY <1>3 DEF TakenShape
<1>6. WindowsTypeOK' /\ Sizes'
  BY <1>3, <1>4 DEF IInv, WindowsTypeOK, Sizes
<1>7. FilledShape' /\ ItemShape'
  BY <1>3 DEF IInv, FilledShape, ItemShape, Filled, Placed, Whole, Pair, FrameRead
<1>8. QED
  BY <1>5, <1>6, <1>7 DEF IInv

(* The steps that write no item: the end of the call, its user, and exit.  *)
LEMMA KeepsItems ==
  ASSUME IInv, UNCHANGED <<depth, offset, size, items, i, misuse, taken>>, session' \in
           {"open", "cleaned", "null"},
         \/ UNCHANGED pc
         \/ AtLoop /\ pc' = "returned" /\ i = Count
         \/ pc = "returned" /\ pc' = "used"
  PROVE  IInv'
<1>1. Count' = Count
  BY DEF Count
<1>2. WindowsTypeOK' /\ Sizes' /\ TakenShape'
  BY <1>1 DEF IInv, WindowsTypeOK, Sizes, TakenShape
<1>3. FilledShape' /\ ItemShape'
  <2>1. CASE UNCHANGED pc
    BY <1>1, <2>1 DEF IInv, FilledShape, ItemShape, Filled, Placed, Whole, Pair, FrameRead
  <2>2. CASE AtLoop /\ pc' = "returned" /\ i = Count
    BY <1>1, <2>2 DEF IInv, FilledShape, ItemShape, Filled, Placed, Whole, Pair, FrameRead, InItem,
       AtLoop
  <2>3. CASE pc = "returned" /\ pc' = "used"
    BY <1>1, <2>3 DEF IInv, FilledShape, ItemShape, Filled, Placed, Whole, Pair, FrameRead, InItem
  <2>4. QED
    BY <2>1, <2>2, <2>3
<1>4. QED
  BY <1>2, <1>3 DEF IInv

LEMMA FreedItem ==
  ASSUME NEW item \in WindowsItem
  PROVE  /\ FreeStackItemData(item) \in WindowsItem
         /\ FreeStackItemData(item).address = item.address
<1>1. DOMAIN item = {"address", "line", "binFile", "funcName", "sourceFile"}
  BY DEF WindowsItem
<1>2. FreeStackItemData(item) =
        [address |-> item.address, line |-> item.line, binFile |-> "freed",
         funcName |-> "freed", sourceFile |-> "freed"]
  BY <1>1 DEF FreeStackItemData, Freed, Strings
<1>3. QED
  BY <1>2 DEF WindowsItem, Pointer

LEMMA ReleaseStep ==
  ASSUME IInv, Release, UNCHANGED <<session, taken>>
  PROVE  IInv'
<1>1. /\ pc = "used" /\ pc' = "released"
      /\ UNCHANGED <<depth, offset, size, i, session, taken>> /\ Count' = Count
  BY DEF Release, args, Count
<1>2. /\ i = Count /\ Count \in Nat /\ Count <= size /\ size \in Nat
      /\ \A k \in Filled : Whole(k) /\ Placed(k)
      /\ items \in [0..(size - 1) -> WindowsItem]
  BY <1>1, CountFacts DEF IInv, FilledShape, WindowsTypeOK, WindowsItem
<1>3. \A k \in 0..(Count - 1) : CanFree(items[k], Strings)
  BY <1>2 DEF Filled, Whole, Owned, CanFree
<1>4. misuse' = FALSE
  BY <1>3 DEF Release, IInv, Sizes
<1>5. /\ items' \in [0..(size - 1) -> WindowsItem]
      /\ \A k \in 0..(size - 1) : items'[k].address = items[k].address
  BY <1>2, FreedItem DEF Release
<1>6. WindowsTypeOK' /\ Sizes' /\ TakenShape'
  BY <1>1, <1>4, <1>5 DEF IInv, WindowsTypeOK, WindowsItem, Sizes, TakenShape
<1>7. Filled' = Filled /\ \A k \in Filled : Placed(k)'
  BY <1>1, <1>2, <1>5 DEF Filled, Placed, FrameRead
<1>8. FilledShape' /\ ItemShape'
  BY <1>1, <1>7 DEF FilledShape, ItemShape, InItem
<1>9. QED
  BY <1>6, <1>8 DEF IInv

LEMMA UseStep ==
  ASSUME IInv, Use, UNCHANGED <<session, taken>>
  PROVE  IInv'
<1>1. /\ pc = "returned" /\ pc' = "used"
      /\ UNCHANGED <<depth, offset, size, items, i, session, taken>>
  BY DEF Use, args
<1>2. i = Count /\ Count \in Nat /\ Count <= size /\ size \in Nat /\ \A k \in Filled : Whole(k)
  BY <1>1, CountFacts DEF IInv, FilledShape
<1>3. ASSUME NEW k \in 0..(Count - 1)
      PROVE  ~Unreadable(items[k])
  <2>1. Whole(k)
    BY <1>2 DEF Filled, IInv, WindowsTypeOK
  <2>2. QED
    BY <2>1 DEF Whole, Owned, Allocated, Unreadable
<1>4. misuse' = misuse
  BY <1>3 DEF Use, IInv, Sizes
<1>5. session' \in {"open", "cleaned", "null"}
  BY <1>1 DEF IInv, WindowsTypeOK
<1>6. QED
  BY <1>1, <1>4, <1>5, KeepsItems

LEMMA ReturnStep ==
  ASSUME IInv, Return
  PROVE  IInv'
<1>1. /\ AtLoop /\ pc' = "returned" /\ i = Count
      /\ UNCHANGED <<depth, offset, size, items, i, misuse, session, taken>>
  BY CountFacts DEF Return, args, IInv, WindowsTypeOK
<1>2. session' \in {"open", "cleaned", "null"}
  BY <1>1 DEF IInv, WindowsTypeOK
<1>3. QED
  BY <1>1, <1>2, KeepsItems

LEMMA InitIInv == WindowsInit => IInv
<1> SUFFICES ASSUME WindowsInit
             PROVE  IInv
  OBVIOUS
<1>1. /\ pc = "idle" /\ depth = 0 /\ offset = 0 /\ size = 0 /\ i = 0 /\ misuse = FALSE
      /\ session \in {"open", "null"} /\ taken = NoCapture /\ items = [k \in {} |-> Unset]
  BY DEF WindowsInit, Init
<1>2. 0..(0 - 1) = {} /\ [k \in {} |-> Unset] \in [{} -> WindowsItem] /\ 0 \in 0..0
  OBVIOUS
<1>3. items \in [0..(size - 1) -> WindowsItem]
  BY <1>1, <1>2
<1>4. Count = 0
  BY <1>1 DEF Count
<1>5. NoCapture \in [stack : 0..MaxStack, skip : (-MaxSkip)..MaxSkip, first : Nat, written : Nat]
  BY WindowsAssumption DEF NoCapture
<1>6. 0 \in 0..MaxDepth /\ 0 \in 0..MaxItems
  BY DepthAssumption, ItemsAssumption
<1>7. Sizes
  BY <1>1, <1>2, <1>6 DEF Sizes
<1>8. i \in 0..Count
  BY <1>1, <1>2, <1>4
<1>9. WindowsTypeOK /\ TakenShape
  BY <1>1, <1>3, <1>5, <1>8 DEF WindowsTypeOK, WindowsItem, TakenShape
<1>10. Filled = {}
  BY <1>1 DEF Filled
<1>11. FilledShape /\ ItemShape
  BY <1>1, <1>10 DEF FilledShape, ItemShape, InItem
<1>12. QED
  BY <1>7, <1>9, <1>11 DEF IInv

LEMMA NextIInv == IInv /\ [WindowsNext]_windowsVars => IInv'
<1> SUFFICES ASSUME IInv, [WindowsNext]_windowsVars
             PROVE  IInv'
  OBVIOUS
<1>1. CASE Cleanup
  BY <1>1, KeepsItems DEF Cleanup, vars, args
<1>2. CASE UNCHANGED windowsVars
  <2>1. session' \in {"open", "cleaned", "null"}
    BY <1>2 DEF windowsVars, IInv, WindowsTypeOK
  <2>2. QED
    BY <1>2, <2>1, KeepsItems DEF windowsVars, vars, args
<1>3. QED
  BY <1>1, <1>2, CaptureStep, CallStep, TakeFrameStep, SymFromAddrStep, SymGetLineFromAddrStep,
     SymGetModuleInfoStep, ReturnStep, NextItemStep, UseStep, ReleaseStep DEF WindowsNext

(* The inductive invariant holds of every run.                             *)
THEOREM Invariance == WindowsSpec => []IInv
<1>1. QED
  BY InitIInv, NextIInv, PTL DEF WindowsSpec
-----------------------------------------------------------------------------
(* Every variable keeps its type; in particular no item is written beyond  *)
(* the buffer of the caller.                                               *)
THEOREM TypeCorrect == WindowsSpec => []WindowsTypeOK
<1>1. IInv => WindowsTypeOK
  BY DEF IInv
<1>2. QED
  BY <1>1, Invariance, PTL

(* A capture that skips fewer frames than the buffer has room for stays    *)
(* inside it and keeps what fits of the caller's frames, for any stack.    *)
THEOREM CaptureFits == WindowsSpec => []CaptureFitsBuffer
<1>1. ASSUME IInv
      PROVE  CaptureFitsBuffer
  <2>1. MaxSymbols \in Nat /\ MaxSymbols > 0
    BY WindowsAssumption
  <2>2. CASE taken = NoCapture
    BY <2>1, <2>2 DEF NoCapture, CaptureFitsBuffer
  <2>3. ASSUME NEW n \in 0..MaxStack, NEW k \in (-MaxSkip)..MaxSkip,
               taken = [stack |-> n, skip |-> k, first |-> Skipped(k),
                        written |-> Written(n, Skipped(k), Wanted(k + 1))]
        PROVE  CaptureFitsBuffer
    <3>1. n \in Nat /\ k \in Int /\ n <= MaxStack /\ MaxStack \in Nat
      BY WindowsAssumption
    <3>2. /\ taken.stack = n /\ taken.skip = k /\ taken.first = Skipped(k)
          /\ taken.written = Written(n, Skipped(k), Wanted(k + 1))
      BY <2>3
    <3>3. CASE k >= -1 /\ k < MaxSymbols
      <4>1. Wanted(k + 1) = MaxSymbols - 1 - k /\ Skipped(k) = k + 1
        BY <3>1, <3>3, RoomFacts
      <4>2. taken.written = IF n <= k + 1 THEN 0
                            ELSE IF n - (k + 1) < MaxSymbols - 1 - k THEN n - (k + 1)
                                 ELSE MaxSymbols - 1 - k
        BY <3>2, <4>1 DEF Written
      <4>3. QED
        BY <2>1, <3>1, <3>2, <3>3, <4>1, <4>2 DEF CaptureFitsBuffer
    <3>4. CASE k < -1
      <4>1. Skipped(k) \in Nat /\ Skipped(k) > n
        BY <3>1, <3>4, RoomFacts
      <4>2. taken.written = 0
        BY <3>1, <3>2, <4>1 DEF Written
      <4>3. QED
        BY <3>1, <3>2, <4>1, <4>2 DEF CaptureFitsBuffer
    <3>5. CASE ~(k < MaxSymbols)
      BY <3>2, <3>5 DEF CaptureFitsBuffer
    <3>6. QED
      BY <3>1, <3>3, <3>4, <3>5
  <2>4. QED
    BY <1>1, <2>2, <2>3 DEF IInv, TakenShape
<1>2. IInv => CaptureFitsBuffer
  BY <1>1
<1>3. QED
  BY <1>2, Invariance, PTL

(* A conversion without an offset gives every item the frame of its place. *)
THEOREM ItemsWithoutOffset == WindowsSpec => [](offset = 0 => ItemsAreAfterOffset)
<1>1. ASSUME IInv, offset = 0, NEW k \in Filled
      PROVE  items[k].address = k + offset
  <2>1. k \in Nat
    BY <1>1 DEF IInv, WindowsTypeOK, Filled
  <2>2. QED
    BY <1>1, <2>1 DEF IInv, FilledShape, Placed, FrameRead
<1>2. IInv => (offset = 0 => ItemsAreAfterOffset)
  BY <1>1 DEF ItemsAreAfterOffset
<1>3. QED
  BY <1>2, Invariance, PTL

(* Whatever DbgHelp answers, and whenever exit closes its session, every   *)
(* string of an item is null or allocated when the caller gets it.         *)
THEOREM ItemsStayWhole == WindowsSpec => []ItemsAreWhole
<1>1. IInv => ItemsAreWhole
  BY DEF IInv, Sizes, FilledShape, Whole, Pair, Owned, ItemsAreWhole
<1>2. QED
  BY <1>1, Invariance, PTL
=============================================================================
