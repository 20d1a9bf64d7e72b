--------------------------- MODULE LineTableProofs ---------------------------
(***************************************************************************)
(* Proofs about LineTable for tables of any length, any addresses and any  *)
(* width of int.                                                           *)
(***************************************************************************)
EXTENDS LineTable, TLAPS

(* Between rounds the two indices enclose a part of the table whose middle *)
(* is strictly inside it, except in the first round.                       *)
BoundsInv ==
  /\ pc = "loop" =>
       /\ 0 <= index1 /\ index1 <= index2 /\ index2 < count
       /\ index1 <= mid /\ mid <= index2
       /\ index2 - index1 >= 2 => index1 < mid /\ mid < index2
       /\ index2 - index1 < 2 => index1 = 0 /\ index2 = count - 1
       /\ count < 3 => mid = count - 1
       /\ mid \in Examined
       /\ addr \in Addresses
  /\ pc = "done" => IF count = 0 THEN answer = Null ELSE answer \in Examined

(* Everything below index1 is not above the address, and everything from   *)
(* index2 on is, unless the index is still an end of the table.            *)
OrderInv ==
  Sorted =>
    /\ pc = "loop" =>
         /\ index1 = 0 \/ entries[index1] <= addr
         /\ index2 = count - 1 \/ addr < entries[index2]
    /\ pc = "done" /\ count > 0 =>
         /\ entries[answer] <= addr \/ answer = 0
         /\ \A k \in Examined : entries[k] <= addr => entries[k] <= entries[answer]

IInv == TypeOK /\ BoundsInv /\ OrderInv /\ SortedWhenSpanFits

-----------------------------------------------------------------------------
(* Cutting a difference of less than half the range down to int keeps it.  *)
LEMMA CutKeepsSmall ==
  ASSUME NEW a \in Nat, NEW b \in Nat, a - b < HalfInt, b - a < HalfInt
  PROVE  CompareItems(a, b) = a - b
<1> DEFINE d == (a - b) % (2 * HalfInt)
<1>1. HalfInt \in Nat /\ HalfInt > 0
  BY HalfIntAssumption
<1>2. CASE a - b >= 0
  <2>1. d = a - b
    BY <1>1, <1>2
  <2>2. QED
    BY <2>1, <1>1 DEF CompareItems
<1>3. CASE a - b < 0
  <2>1. d = a - b + 2 * HalfInt
    BY <1>1, <1>3
  <2>2. QED
    BY <2>1, <1>1 DEF CompareItems
<1>4. QED
  BY <1>2, <1>3

(* qsort's result is a table with the same addresses.                      *)
LEMMA SortPermutes ==
  ASSUME TypeOK, Sort
  PROVE  /\ entries' \in [Index(count) -> Addresses]
         /\ \A k \in Index(count) : \E j \in Index(count) : entries[k] = entries'[j]
<1>1. PICK p \in Bijection(Index(count), Index(count)) :
             entries' = [k \in Index(count) |-> entries[p[k]]]
  BY DEF Sort, QsortOutcomes
<1>2. /\ p \in [Index(count) -> Index(count)]
      /\ \A k \in Index(count) : \E j \in Index(count) : p[j] = k
  BY DEF Bijection, Injection, Surjection
<1>3. QED
  BY <1>1, <1>2 DEF TypeOK

(* A table whose span fits an int is sorted by qsort with CompareItems.    *)
LEMMA SortSorts ==
  ASSUME TypeOK, Sort, SpanFits'
  PROVE  Sorted'
<1> DEFINE S == {entries[k] : k \in Index(count)}
<1>1. count' = count
  BY DEF Sort
<1>2. S \subseteq Nat /\ \A j \in Index(count) : entries'[j] \in Nat
  BY SortPermutes, AddressesAssumption DEF TypeOK
<1>3. \A a, b \in S : a - b < HalfInt /\ b - a < HalfInt
  <2> SUFFICES ASSUME NEW a \in S, NEW b \in S
               PROVE  a - b < HalfInt /\ b - a < HalfInt
    OBVIOUS
  <2>1. PICK j \in Index(count), k \in Index(count) : a = entries'[j] /\ b = entries'[k]
    BY SortPermutes
  <2>2. QED
    BY <2>1, <1>1 DEF SpanFits
<1>4. \A a, b \in S : CompareItems(a, b) = a - b
  BY <1>2, <1>3, CutKeepsSmall
<1>5. Consistent(S)
  <2>1. ASSUME NEW a \in S, NEW b \in S
        PROVE  CompareItems(a, b) < 0 <=> CompareItems(b, a) > 0
    <3>1. a \in Nat /\ b \in Nat
      BY <1>2
    <3>2. CompareItems(a, b) = a - b /\ CompareItems(b, a) = b - a
      BY <1>4
    <3>3. QED
      BY <3>1, <3>2
  <2>2. ASSUME NEW a \in S, NEW b \in S, NEW c \in S,
               CompareItems(a, b) <= 0, CompareItems(b, c) <= 0
        PROVE  CompareItems(a, c) <= 0
    <3>1. a \in Nat /\ b \in Nat /\ c \in Nat
      BY <1>2
    <3>2. /\ CompareItems(a, b) = a - b /\ CompareItems(b, c) = b - c
          /\ CompareItems(a, c) = a - c
      BY <1>4
    <3>3. QED
      BY <2>2, <3>1, <3>2
  <2>3. QED
    BY <2>1, <2>2 DEF Consistent
<1>6. \A j, k \in Index(count) : j < k => CompareItems(entries'[j], entries'[k]) <= 0
  BY <1>5 DEF Sort, QsortOutcomes
<1>7. \A j, k \in Index(count) : CompareItems(entries'[j], entries'[k]) = entries'[j] - entries'[k]
  BY <1>1, <1>2, CutKeepsSmall DEF SpanFits
<1>8. QED
  BY <1>1, <1>2, <1>6, <1>7 DEF Sorted

-----------------------------------------------------------------------------
LEMMA InvInit ==
  ASSUME Init
  PROVE  IInv
BY EntriesAssumption, NullAssumption
   DEF Init, IInv, TypeOK, BoundsInv, OrderInv, SortedWhenSpanFits

LEMMA SortStep ==
  ASSUME IInv, Sort
  PROVE  IInv'
<1>1. TypeOK'
  BY SortPermutes DEF IInv, TypeOK, Sort
<1>2. BoundsInv' /\ OrderInv'
  BY DEF Sort, BoundsInv, OrderInv
<1>3. SortedWhenSpanFits'
  BY SortSorts DEF IInv, SortedWhenSpanFits
<1>4. QED
  BY <1>1, <1>2, <1>3 DEF IInv

LEMMA StartStep ==
  ASSUME IInv, Start
  PROVE  IInv'
<1>1. TypeOK' /\ BoundsInv'
  BY EntriesAssumption DEF IInv, TypeOK, Start, BoundsInv, Examined, Index
<1>2. OrderInv'
  BY DEF Start, OrderInv
<1>3. SortedWhenSpanFits'
  BY DEF IInv, Start, SortedWhenSpanFits, SpanFits, Sorted
<1>4. QED
  BY <1>1, <1>2, <1>3 DEF IInv

LEMMA HitStep ==
  ASSUME IInv, Hit
  PROVE  IInv'
<1>1. TypeOK' /\ BoundsInv'
  BY AddressesAssumption DEF IInv, TypeOK, Hit, Return, BoundsInv, Examined, Index
<1>2. OrderInv'
  <2>1. \A k \in Index(count) : entries[k] \in Nat
    BY AddressesAssumption DEF IInv, TypeOK
  <2>2. mid \in Index(count) /\ entries[mid] = addr
    BY DEF Hit, IInv, BoundsInv, TypeOK, Index
  <2>3. QED
    BY <2>1, <2>2 DEF Hit, Return, OrderInv, Examined, Sorted, Index, IInv, TypeOK
<1>3. SortedWhenSpanFits'
  BY DEF IInv, Hit, Return, SortedWhenSpanFits, SpanFits, Sorted
<1>4. QED
  BY <1>1, <1>2, <1>3 DEF IInv

(* The middle of two ends with something in between is in between.         *)
LEMMA MiddleIsInside ==
  ASSUME NEW x \in Nat, NEW y \in Nat, y - x >= 2
  PROVE  /\ (x + y + 1) \div 2 \in Nat
         /\ x < (x + y + 1) \div 2 /\ (x + y + 1) \div 2 < y
OBVIOUS

(* What one round that does not hit does to the indices: they still        *)
(* enclose a part of the table, a smaller one if the loop goes on.         *)
LEMMA NarrowBounds ==
  ASSUME IInv, Narrow
  PROVE  /\ count \in Nat /\ addr \in Nat
         /\ \A k \in Index(count) : entries[k] \in Nat
         /\ mid \in Examined /\ mid \in Index(count)
         /\ index1' \in Nat /\ index2' \in Nat
         /\ index1' <= index2' /\ index2' < count /\ index1' \in Examined
         /\ count >= 3 => index1' < count - 1
         /\ pc' = "loop" => /\ index2' - index1' >= 2
                            /\ index2' - index1' < index2 - index1
                            /\ mid' \in Nat /\ index1' < mid' /\ mid' < index2'
         /\ pc' = "done" => index2' - index1' < 2 /\ answer' = index1'
         /\ pc' = "loop" \/ pc' = "done"
<1>1. count \in Nat /\ addr \in Nat /\ index1 \in Nat /\ index2 \in Nat /\ mid \in Nat
  BY AddressesAssumption DEF Narrow, IInv, TypeOK, BoundsInv
<1>2. /\ index1 <= index2 /\ index2 < count /\ index1 <= mid /\ mid <= index2
      /\ index2 - index1 >= 2 => index1 < mid /\ mid < index2
      /\ index2 - index1 < 2 => index1 = 0 /\ index2 = count - 1
      /\ mid \in Examined
  BY DEF Narrow, IInv, BoundsInv
<1>3. mid \in Index(count)
  BY <1>1, <1>2 DEF Index
<1>4. \A k \in Index(count) : entries[k] \in Nat
  BY AddressesAssumption DEF IInv, TypeOK
<1>5. \/ index1' = index1 /\ index2' = mid
      \/ index1' = mid /\ index2' = index2
  BY DEF Narrow
<1>6. /\ index1' \in Nat /\ index2' \in Nat
      /\ index1' <= index2' /\ index2' < count
      /\ count >= 3 => index1' < count - 1
  BY <1>1, <1>2, <1>5 DEF Examined, Index
<1>7. index1' \in Examined
  BY <1>1, <1>6 DEF Examined, Index
<1>8. CASE index2' - index1' < 2
  BY <1>1, <1>2, <1>3, <1>4, <1>6, <1>7, <1>8 DEF Narrow, Return
<1>9. CASE ~(index2' - index1' < 2)
  <2>0. index2' - index1' >= 2
    BY <1>1, <1>5, <1>9
  <2>1. mid' = (index1' + index2' + 1) \div 2 /\ pc' = "loop"
    BY <1>9 DEF Narrow
  <2>2. mid' \in Nat /\ index1' < mid' /\ mid' < index2'
    BY <1>6, <2>0, <2>1, MiddleIsInside
  <2>3. index2' - index1' < index2 - index1
    BY <1>1, <1>2, <1>5, <2>0
  <2>4. QED
    BY <1>1, <1>2, <1>3, <1>4, <1>6, <1>7, <2>0, <2>1, <2>2, <2>3
<1>10. QED
  BY <1>8, <1>9

LEMMA NarrowStep ==
  ASSUME IInv, Narrow
  PROVE  IInv'
<1>1. TypeOK'
  <2>1. count \in 0..MaxEntries
    BY DEF IInv, TypeOK
  <2>2. index2' \in -1..(MaxEntries - 1)
    BY <2>1, NarrowBounds, EntriesAssumption
  <2>3. QED
    BY <2>2, NarrowBounds DEF IInv, TypeOK, Narrow, Return
<1>2. BoundsInv'
  <2>1. count' = count /\ addr' = addr /\ addr \in Addresses
    BY DEF Narrow, IInv, BoundsInv
  <2>2. CASE pc' = "loop"
    BY <2>1, <2>2, NarrowBounds DEF BoundsInv, Examined, Index
  <2>3. CASE pc' = "done"
    BY <2>1, <2>3, NarrowBounds DEF BoundsInv, Examined
  <2>4. QED
    BY <2>2, <2>3, NarrowBounds
<1>3. OrderInv'
  <2> SUFFICES ASSUME Sorted
               PROVE  OrderInv'
    BY DEF OrderInv, Sorted, Narrow
  <2>1. entries' = entries /\ count' = count /\ addr' = addr
    BY DEF Narrow
  <2>2. /\ index1' = 0 \/ entries[index1'] <= addr
        /\ index2' = count - 1 \/ addr < entries[index2']
    BY NarrowBounds DEF IInv, OrderInv, Narrow
  <2>3. CASE pc' = "loop"
    BY <2>1, <2>2, <2>3 DEF OrderInv
  <2>4. CASE pc' = "done"
    <3>1. ASSUME NEW k \in Examined, entries[k] <= addr
          PROVE  entries[k] <= entries[index1']
      <4>1. k \in Index(count)
        BY NarrowBounds DEF Examined, Index
      <4>2. index1' \in Index(count) /\ index2' \in Index(count)
        BY NarrowBounds DEF Index
      <4>3. CASE k <= index1'
        BY NarrowBounds, <4>1, <4>2, <4>3 DEF Sorted, Index
      <4>4. CASE k > index1'
        <5>1. index2' <= k
          BY NarrowBounds, <2>4, <4>1, <4>4 DEF Index
        <5>2. CASE addr < entries[index2']
          <6>1. entries[index2'] <= entries[k]
            BY NarrowBounds, <4>1, <4>2, <5>1 DEF Sorted, Index
          <6>2. QED
            BY NarrowBounds, <3>1, <4>1, <4>2, <5>2, <6>1
        <5>3. CASE index2' = count - 1
          <6>1. k = count - 1 /\ count < 3
            BY NarrowBounds, <4>1, <5>1, <5>3 DEF Examined, Index
          <6>2. QED
            BY NarrowBounds, <3>1, <4>1, <4>4, <6>1 DEF Narrow, IInv, BoundsInv
        <5>4. QED
          BY <2>2, <5>2, <5>3
      <4>5. QED
        BY NarrowBounds, <4>1, <4>3, <4>4 DEF Index
    <3>2. QED
      BY <2>1, <2>2, <2>4, <3>1, NarrowBounds DEF OrderInv, Examined
  <2>5. QED
    BY <2>3, <2>4, NarrowBounds
<1>4. SortedWhenSpanFits'
  BY DEF IInv, Narrow, SortedWhenSpanFits, SpanFits, Sorted
<1>5. QED
  BY <1>1, <1>2, <1>3, <1>4 DEF IInv

LEMMA InvStep ==
  ASSUME IInv, [Next]_vars
  PROVE  IInv'
<1>1. CASE UNCHANGED vars
  BY <1>1 DEF vars, IInv, TypeOK, BoundsInv, OrderInv, SortedWhenSpanFits,
     Sorted, SpanFits, Examined, Index
<1>2. QED
  BY <1>1, SortStep, StartStep, HitStep, NarrowStep DEF Next

THEOREM Invariance == Spec => []IInv
<1>1. Init => IInv
  BY InvInit
<1>2. IInv /\ [Next]_vars => IInv'
  BY InvStep
<1>3. QED
  BY <1>1, <1>2, PTL DEF Spec

-----------------------------------------------------------------------------
(* FindNearestStackInfoItemInline never reads outside ppEntries and its    *)
(* index difference never wraps, sorted table or not.                      *)
THEOREM LookupStaysInTable == Spec => []StaysInTable
<1>1. IInv => StaysInTable
  BY DEF IInv, TypeOK, BoundsInv, StaysInTable, Examined, Index
<1>2. QED
  BY <1>1, Invariance, PTL

(* The int that CompareItems returns is harmless for every table that      *)
(* spans less than half the range of int.                                  *)
THEOREM QsortSorts == Spec => []SortedWhenSpanFits
<1>1. IInv => SortedWhenSpanFits
  BY DEF IInv
<1>2. QED
  BY <1>1, Invariance, PTL

(* In every sorted table a lookup returns the nearest entry at or below    *)
(* the address among those it examines: all, or all but the last.          *)
THEOREM LookupFindsNearest == Spec => []FindsNearest
<1>1. IInv => FindsNearest
  BY DEF IInv, BoundsInv, OrderInv, FindsNearest
<1>2. QED
  BY <1>1, Invariance, PTL

(* The part of the table a lookup still considers shrinks in every round,  *)
(* so the number of rounds is bounded by the length of the table.          *)
THEOREM LookupNarrows == Spec => Narrows
<1>1. IInv /\ [Next]_vars =>
        [pc = "loop" /\ pc' = "loop" => index2' - index1' < index2 - index1]_vars
  <2> SUFFICES ASSUME IInv, [Next]_vars, pc = "loop", pc' = "loop"
               PROVE  index2' - index1' < index2 - index1 \/ UNCHANGED vars
    OBVIOUS
  <2>1. Narrow \/ UNCHANGED vars
    BY DEF Next, Sort, Start, Hit, Return
  <2>2. QED
    BY <2>1, NarrowBounds
<1>2. QED
  BY <1>1, Invariance, PTL DEF Spec, Narrows

(* Every variable keeps its type, for tables of any length and addresses   *)
(* of any width.                                                           *)
THEOREM TypeCorrect == Spec => []TypeOK
<1>1. IInv => TypeOK
  BY DEF IInv
<1>2. QED
  BY <1>1, Invariance, PTL
=============================================================================
