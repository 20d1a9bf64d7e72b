------------------------------ MODULE LineTable ------------------------------
(***************************************************************************)
(* The line table of one module entry: how CollectDwarfInfo sorts the line *)
(* entries it collected (qsort with CompareItems), and how                 *)
(* FindNearestStackInfoItemInline looks a frame address up in the result,  *)
(* in src/core/stack_investigator_backtrace_addr_to_details_unix_dwarf.c.  *)
(*                                                                         *)
(* An entry is its address here; indices are the C ones, from 0.           *)
(***************************************************************************)
EXTENDS Integers, Functions

CONSTANTS
  Addresses,    \* code addresses
  HalfInt,      \* half of the number of values of int
  MaxEntries,   \* bound: entries in a table
  Null          \* no item is returned

ASSUME AddressesAssumption == Addresses \subseteq Nat
ASSUME HalfIntAssumption == HalfInt \in Nat \ {0}
ASSUME EntriesAssumption == MaxEntries \in Nat \ {0}
ASSUME NullAssumption == Null \notin Int

VARIABLES
  pc,        \* "collected", "ready", "loop" or "done"
  count,     \* entriesCount
  entries,   \* ppEntries: the address of each entry
  addr,      \* cunFrameAddress, or Null before the first lookup
  index1,    \* unIndex1
  index2,    \* unIndex2
  mid,       \* unIndexMid
  answer     \* the index of the item returned, or Null

vars == <<pc, count, entries, addr, index1, index2, mid, answer>>

Index(n) == 0..(n - 1)

-----------------------------------------------------------------------------
(* Mutant: the difference is taken for unsigned, and never negative.       *)
CompareUnsigned(a, b) == (a - b) % (2 * HalfInt)

(* The difference of two addresses, cut down to an int.                    *)
CompareItems(a, b) ==
  LET d == (a - b) % (2 * HalfInt)
  IN IF d < HalfInt THEN d ELSE d - 2 * HalfInt

(* What qsort asks of its comparator for the entries of a table.           *)
Consistent(S) ==
  /\ \A a, b \in S : CompareItems(a, b) < 0 <=> CompareItems(b, a) > 0
  /\ \A a, b, c \in S :
       CompareItems(a, b) <= 0 /\ CompareItems(b, c) <= 0 => CompareItems(a, c) <= 0

(* qsort permutes the table, into the comparator's order when there is one *)
(* and into any order when there is none.                                  *)
QsortOutcomes(table, n) ==
  {result \in {[k \in Index(n) |-> table[p[k]]] : p \in Bijection(Index(n), Index(n))} :
     Consistent({table[k] : k \in Index(n)}) =>
       \A j, k \in Index(n) : j < k => CompareItems(result[j], result[k]) <= 0}

Init ==
  /\ pc = "collected"
  /\ \E n \in 0..MaxEntries : count = n /\ entries \in [Index(n) -> Addresses]
  /\ addr = Null
  /\ index1 = 0 /\ index2 = 0 /\ mid = 0
  /\ answer = Null

Sort ==
  /\ pc = "collected"
  /\ pc' = "ready"
  /\ entries' \in QsortOutcomes(entries, count)
  /\ UNCHANGED <<count, addr, index1, index2, mid, answer>>

(* A lookup begins.  With no entries unIndex2 wraps, but the loop is not   *)
(* entered and the call returns NULL.                                      *)
Start ==
  /\ pc \in {"ready", "done"}
  /\ pc' = IF count = 0 THEN "done" ELSE "loop"
  /\ addr' \in Addresses
  /\ index1' = 0
  /\ index2' = count - 1
  /\ mid' = count \div 2
  /\ answer' = Null
  /\ UNCHANGED <<count, entries>>

Return(k) ==
  /\ pc' = "done"
  /\ answer' = k

(* The middle entry has the address.                                       *)
Hit ==
  /\ pc = "loop"
  /\ entries[mid] = addr
  /\ Return(mid)
  /\ UNCHANGED <<count, entries, addr, index1, index2, mid>>

(* Mutant: the middle entry is excluded from the half above it.            *)
NarrowExcludesMiddle ==
  /\ pc = "loop"
  /\ entries[mid] # addr
  /\ IF addr < entries[mid]
     THEN index1' = index1 /\ index2' = mid
     ELSE index1' = mid + 1 /\ index2' = index2
  /\ IF index2' - index1' < 2
     THEN Return(index1') /\ UNCHANGED mid
     ELSE /\ mid' = (index1' + index2' + 1) \div 2
          /\ UNCHANGED <<pc, answer>>
  /\ UNCHANGED <<count, entries, addr>>

(* Mutant: the loop stops only when the two indices meet.                  *)
NarrowUntilEqual ==
  /\ pc = "loop"
  /\ entries[mid] # addr
  /\ IF addr < entries[mid]
     THEN index1' = index1 /\ index2' = mid
     ELSE index1' = mid /\ index2' = index2
  /\ IF index2' = index1'
     THEN Return(index1') /\ UNCHANGED mid
     ELSE /\ mid' = (index1' + index2') \div 2
          /\ UNCHANGED <<pc, answer>>
  /\ UNCHANGED <<count, entries, addr>>

(* Mutant: the entry above the address is returned.                        *)
NarrowReturnsUpper ==
  /\ pc = "loop"
  /\ entries[mid] # addr
  /\ IF addr < entries[mid]
     THEN index1' = index1 /\ index2' = mid
     ELSE index1' = mid /\ index2' = index2
  /\ IF index2' - index1' < 2
     THEN Return(index2') /\ UNCHANGED mid
     ELSE /\ mid' = (index1' + index2' + 1) \div 2
          /\ UNCHANGED <<pc, answer>>
  /\ UNCHANGED <<count, entries, addr>>

(* The middle entry is above or below the address: one half remains, and   *)
(* when it has no middle its lower end is returned.                        *)
Narrow ==
  /\ pc = "loop"
  /\ entries[mid] # addr
  /\ IF addr < entries[mid]
     THEN index1' = index1 /\ index2' = mid
     ELSE index1' = mid /\ index2' = index2
  /\ IF index2' - index1' < 2
     THEN Return(index1') /\ UNCHANGED mid
     ELSE /\ mid' = (index1' + index2' + 1) \div 2
          /\ UNCHANGED <<pc, answer>>
  /\ UNCHANGED <<count, entries, addr>>

Next == Sort \/ Start \/ Hit \/ Narrow

Spec == Init /\ [][Next]_vars

(* A lookup is a sequential loop.                                          *)
Fairness == WF_vars(Hit \/ Narrow)

FairSpec == Spec /\ Fairness

-----------------------------------------------------------------------------
Sorted == \A j, k \in Index(count) : j < k => entries[j] <= entries[k]

(* The span of the table's addresses is within what an int can hold.       *)
SpanFits == \A j, k \in Index(count) : entries[j] - entries[k] < HalfInt

(* The entries a lookup can examine: in a table of three or more, all but  *)
(* the last.                                                               *)
Examined == IF count < 3 THEN Index(count) ELSE Index(count - 1)

(* Every variable has its type; -1 is the index2 of an empty table, which  *)
(* wraps in the code and is never used.                                    *)
TypeOK ==
  /\ pc \in {"collected", "ready", "loop", "done"}
  /\ count \in 0..MaxEntries
  /\ entries \in [Index(count) -> Addresses]
  /\ addr \in Addresses \cup {Null}
  /\ index1 \in Nat /\ index2 \in -1..(MaxEntries - 1) /\ mid \in Nat
  /\ answer \in Nat \cup {Null}

(* The lookup reads only entries of the table, and the difference of its   *)
(* unsigned indices does not wrap, whatever order the table is in.         *)
StaysInTable ==
  /\ pc = "loop" => mid \in Index(count) /\ index1 <= index2 /\ index2 < count
  /\ pc = "done" => IF count = 0 THEN answer = Null ELSE answer \in Index(count)

(* When the addresses of a module span less than half the range of int,    *)
(* cutting their differences down to int does no harm: the table is sorted *)
(* for every lookup.                                                       *)
SortedWhenSpanFits == pc # "collected" /\ SpanFits => Sorted

(* In a sorted table the item returned is the nearest at or below the      *)
(* address, or the first if none is: but among the examined entries only.  *)
FindsNearest ==
  pc = "done" /\ count > 0 /\ Sorted =>
    /\ answer \in Examined
    /\ entries[answer] <= addr \/ answer = 0
    /\ \A k \in Examined : entries[k] <= addr => entries[k] <= entries[answer]

(* Every round of the loop leaves a smaller part of the table.             *)
Narrows ==
  [][pc = "loop" /\ pc' = "loop" => index2' - index1' < index2 - index1]_vars

(* Every lookup returns, whatever order the table is in.                   *)
LookupReturns == pc = "loop" ~> pc = "done"
=============================================================================
