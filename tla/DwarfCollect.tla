---------------------------- MODULE DwarfCollect ----------------------------
(***************************************************************************)
(* Building the entry of one binary: CreateDwarfEntryForModule and         *)
(* CollectDwarfInfo in                                                     *)
(* src/core/stack_investigator_backtrace_addr_to_details_unix_dwarf.c.     *)
(*                                                                         *)
(* The model follows who owns what along every path: the file descriptor,  *)
(* the libdwarf session and the objects got from it, the vector of line    *)
(* items and the items.  An item is its number, in order of allocation;    *)
(* what it says of its line is left out.  libdwarf and the allocator are   *)
(* external: every call of theirs may fail.                                *)
(***************************************************************************)
EXTENDS Integers

CONSTANTS
  ReallocStep,   \* STACK_INV_REALLOC_STEP
  LineLimit,     \* lines of a unit above which it is skipped (2000)
  MaxUnits,      \* bound: compilation units of the binary
  MaxLines,      \* bound: lines of a unit
  Null           \* the null pointer

ASSUME StepAssumption == ReallocStep \in Nat \ {0}
ASSUME BoundsAssumption == LineLimit \in Nat /\ MaxUnits \in Nat /\ MaxLines \in Nat
ASSUME NullAssumption == Null \notin Nat

VARIABLES
  pc,         \* the next statement
  debug,      \* the result: "pending", "null" (no entry), "no" or "yes"
  failed,     \* what CollectDwarfInfo returned
  fd,         \* modFd: "none", "open" or "closed"
  dbg,        \* the libdwarf session: "none", "open" or "finished"
  held,       \* objects of the session held: "cu_die", "linebuf"
  units,      \* units begun
  i,          \* the next line of the unit
  linecount,  \* lines of the unit
  ppEntries,  \* room in the block ppEntries points to, or Null
  allocated,  \* allocatedCount
  next,       \* nextEntriesCount
  entriesCount, \* entriesCount (unwritten, and not read, before "vector")
  slots,      \* the item in each slot of the vector, from 0 to entriesCount - 1
  made,       \* items allocated so far
  live,       \* items allocated and not freed
  pItem,      \* pItem
  fault       \* has memory been misused?

vector == <<ppEntries, allocated, next, entriesCount, slots>>
heap   == <<made, live, pItem>>
file   == <<debug, fd>>
unit   == <<units, i, linecount>>
vars   == <<pc, failed, dbg, held, fault, vector, heap, file, unit>>

Unfilled == [k \in {} |-> 0]

Goto(from, to) == pc = from /\ pc' = to

-----------------------------------------------------------------------------
Init ==
  /\ pc = "entry" /\ debug = "pending" /\ failed = FALSE
  /\ fd = "none" /\ dbg = "none" /\ held = {}
  /\ units = 0 /\ i = 0 /\ linecount = 0
  /\ ppEntries = Null /\ allocated = 0 /\ next = 0
  /\ entriesCount = 0 /\ slots = Unfilled
  /\ made = 0 /\ live = {} /\ pItem = Null
  /\ fault = FALSE

(* CreateDwarfEntryForModule up to the call of CollectDwarfInfo: no memory *)
(* for the entry; no load offset, or a file that does not open, is no      *)
(* debug info.                                                             *)
NoEntry ==
  /\ Goto("entry", "done")
  /\ debug' = "null"
  /\ UNCHANGED <<failed, fd, dbg, held, fault, vector, heap, unit>>

NoModule ==
  /\ Goto("entry", "done")
  /\ debug' = "no"
  /\ UNCHANGED <<failed, fd, dbg, held, fault, vector, heap, unit>>

OpenModule ==
  /\ Goto("entry", "vector")
  /\ fd' = "open"
  /\ UNCHANGED <<debug, failed, dbg, held, fault, vector, heap, unit>>

(* CollectDwarfInfo returns r.                                             *)
Leave(r) == pc' = "close" /\ failed' = r

AllocateVector ==
  /\ pc = "vector"
  /\ \/ Leave(TRUE) /\ UNCHANGED vector
     \/ /\ pc' = "init"
        /\ ppEntries' = ReallocStep /\ allocated' = ReallocStep
        /\ UNCHANGED <<failed, next, entriesCount, slots>>
  /\ UNCHANGED <<dbg, held, fault, heap, file, unit>>

DwarfInit ==
  /\ pc = "init"
  /\ \/ Leave(TRUE) /\ UNCHANGED dbg
     \/ pc' = "header" /\ dbg' = "open" /\ UNCHANGED failed
  /\ UNCHANGED <<held, fault, vector, heap, file, unit>>

(* Mutant: the count of the dropped vector is kept.                        *)
AbandonKeepsCount ==
  /\ Leave(TRUE)
  /\ ppEntries' = Null /\ UNCHANGED <<entriesCount, slots>>
  /\ dbg' = "finished" /\ held' = {}

(* The way out of every error inside the session: the vector is dropped,   *)
(* its items and its block are not freed, and the session ends.            *)
Abandon ==
  /\ Leave(TRUE)
  /\ ppEntries' = Null /\ entriesCount' = 0 /\ slots' = Unfilled
  /\ dbg' = "finished" /\ held' = {}

HeaderError ==
  /\ pc = "header"
  /\ Abandon
  /\ UNCHANGED <<allocated, next, fault, heap, file, unit>>

NoMoreUnits ==
  /\ Goto("header", "finish")
  /\ UNCHANGED <<failed, dbg, held, fault, vector, heap, file, unit>>

NextUnit ==
  /\ units < MaxUnits
  /\ Goto("header", "unit")
  /\ units' = units + 1
  /\ UNCHANGED <<i, linecount, failed, dbg, held, fault, vector, heap, file>>

(* The unit has no DIE, or its DIE, given back, no lines.                  *)
SkipUnit ==
  /\ Goto("unit", "header")
  /\ UNCHANGED <<failed, dbg, held, fault, vector, heap, file, unit>>

(* Mutant: the DIE and the lines of a unit that is too long are kept.      *)
BeginUnitKeeps ==
  /\ pc = "unit"
  /\ linecount' \in 0..MaxLines
  /\ held' = {"cu_die", "linebuf"}
  /\ IF linecount' > LineLimit
     THEN pc' = "header" /\ UNCHANGED i
     ELSE pc' = "line" /\ i' = 0
  /\ UNCHANGED <<units, failed, dbg, fault, vector, heap, file>>

(* Gets the lines of the unit; a unit that is too long is given back.      *)
BeginUnit ==
  /\ pc = "unit"
  /\ linecount' \in 0..MaxLines
  /\ IF linecount' > LineLimit
     THEN pc' = "header" /\ UNCHANGED <<i, held>>
     ELSE pc' = "line" /\ i' = 0 /\ held' = {"cu_die", "linebuf"}
  /\ UNCHANGED <<units, failed, dbg, fault, vector, heap, file>>

AtLine == pc = "line" /\ i < linecount
NextLine == pc' = pc /\ i' = i + 1 /\ UNCHANGED <<units, linecount, failed, dbg, held>>

(* The source, the address or the number of the line is not available.     *)
SkipLine ==
  /\ AtLine
  /\ NextLine
  /\ UNCHANGED <<fault, vector, heap, file>>

(* No memory for an item: the line is left out.                            *)
DropLine ==
  /\ AtLine
  /\ pItem' = Null
  /\ NextLine
  /\ UNCHANGED <<made, live, fault, vector, file>>

(* Allocates the item of the line.                                         *)
Make ==
  /\ made' = made + 1
  /\ pItem' = made'

(* No memory for the item's function name or source file: what the item    *)
(* has is freed.                                                           *)
StringFails ==
  /\ AtLine
  /\ Make
  /\ live' = live
  /\ Abandon
  /\ UNCHANGED <<allocated, next, fault, file, unit>>

(* A full vector grows by a step before the item is stored.                *)
MustGrow == next + 1 > allocated

GrowFails ==
  /\ AtLine
  /\ MustGrow
  /\ next' = next + 1
  /\ allocated' = allocated + ReallocStep
  /\ Make
  /\ live' = live
  /\ Abandon
  /\ UNCHANGED <<fault, file, unit>>

(* ppEntries[entriesCount++] = pItem                                       *)
StoreItem ==
  /\ slots' = [k \in 0..entriesCount |-> IF k = entriesCount THEN made' ELSE slots[k]]
  /\ entriesCount' = entriesCount + 1
  /\ fault' = (fault \/ entriesCount >= ppEntries')

(* Mutant: the growth is tested with the count before it is incremented.   *)
CollectGrowsLate ==
  /\ AtLine
  /\ Make
  /\ live' = live \cup {made'}
  /\ next' = next + 1
  /\ IF next > allocated
     THEN allocated' = allocated + ReallocStep /\ ppEntries' = allocated'
     ELSE UNCHANGED <<allocated, ppEntries>>
  /\ StoreItem
  /\ NextLine
  /\ UNCHANGED file

(* Mutant: the item is stored without counting it.                         *)
CollectForgetsCount ==
  /\ AtLine
  /\ Make
  /\ live' = live \cup {made'}
  /\ next' = next + 1
  /\ IF MustGrow
     THEN allocated' = allocated + ReallocStep /\ ppEntries' = allocated'
     ELSE UNCHANGED <<allocated, ppEntries>>
  /\ fault' = (fault \/ entriesCount >= ppEntries')
  /\ UNCHANGED <<entriesCount, slots>>
  /\ NextLine
  /\ UNCHANGED file

(* Stores the item of the line in the next slot.                           *)
Collect ==
  /\ AtLine
  /\ Make
  /\ live' = live \cup {made'}
  /\ next' = next + 1
  /\ IF MustGrow
     THEN allocated' = allocated + ReallocStep /\ ppEntries' = allocated'
     ELSE UNCHANGED <<allocated, ppEntries>>
  /\ StoreItem
  /\ NextLine
  /\ UNCHANGED file

EndUnit ==
  /\ i >= linecount
  /\ Goto("line", "header")
  /\ held' = {}
  /\ UNCHANGED <<failed, dbg, fault, vector, heap, file, unit>>

(* The session ends and the vector is sorted.                              *)
Finish ==
  /\ pc = "finish"
  /\ dbg' = "finished"
  /\ Leave(FALSE)
  /\ UNCHANGED <<held, fault, vector, heap, file, unit>>

(* The session does not end well: the last item is freed, if pItem is one  *)
(* (a null pItem is dereferenced).                                         *)
FinishFails ==
  /\ pc = "finish"
  /\ dbg' = "finished"
  /\ IF pItem = Null
     THEN pc' = "crashed" /\ UNCHANGED <<failed, vector, heap, fault>>
     ELSE /\ Leave(TRUE)
          /\ live' = live \ {pItem}
          /\ fault' = (fault \/ pItem \notin live)
          /\ ppEntries' = Null /\ entriesCount' = 0 /\ slots' = Unfilled
          /\ UNCHANGED <<allocated, next, made, pItem>>
  /\ UNCHANGED <<held, file, unit>>

Close ==
  /\ Goto("close", "done")
  /\ debug' = IF failed THEN "no" ELSE "yes"
  /\ fd' = "closed"
  /\ UNCHANGED <<failed, dbg, held, fault, vector, heap, unit>>

-----------------------------------------------------------------------------
Next ==
  \/ NoEntry \/ NoModule \/ OpenModule
  \/ AllocateVector \/ DwarfInit
  \/ HeaderError \/ NoMoreUnits \/ NextUnit
  \/ SkipUnit \/ BeginUnit \/ EndUnit
  \/ SkipLine \/ DropLine \/ StringFails \/ GrowFails \/ Collect
  \/ Finish \/ FinishFails \/ Close

Spec == Init /\ [][Next]_vars

-----------------------------------------------------------------------------
Returned == pc = "done"
Items == {slots[k] : k \in DOMAIN slots}

(* Every variable has its type; in particular the slots filled are exactly *)
(* the first entriesCount, each with an item that was allocated.           *)
TypeOK ==
  /\ pc \in {"entry", "vector", "init", "header", "unit", "line",
             "finish", "close", "done", "crashed"}
  /\ debug \in {"pending", "null", "no", "yes"} /\ failed \in BOOLEAN
  /\ fd \in {"none", "open", "closed"} /\ dbg \in {"none", "open", "finished"}
  /\ held \subseteq {"cu_die", "linebuf"}
  /\ units \in 0..MaxUnits /\ i \in 0..MaxLines /\ linecount \in 0..MaxLines
  /\ ppEntries \in Nat \cup {Null} /\ allocated \in Nat /\ next \in Nat
  /\ entriesCount \in 0..made /\ slots \in [0..(entriesCount - 1) -> 1..made]
  /\ made \in Nat /\ live \subseteq 1..made /\ pItem \in 1..made \cup {Null}
  /\ fault \in BOOLEAN

(* No item is stored beyond the block ppEntries points to, across every    *)
(* growth and every skipped line, and none is freed twice.                 *)
MemorySafe == ~fault

(* Whatever failed, the file is closed and the libdwarf session finished   *)
(* when the call returns, and between two units neither the DIE nor the    *)
(* lines of a unit are held: these do not add up over the units.  (Some    *)
(* strings and the DIEs of the function walk are left to dwarf_finish.)    *)
SessionReleased ==
  /\ Returned => fd # "open" /\ dbg # "open"
  /\ pc = "header" => held = {}

(* An entry that says it has debug info has a vector of live items, each   *)
(* in one slot, and keeps every item that was allocated and not freed:     *)
(* success leaks nothing.                                                  *)
EntryUsable ==
  Returned /\ debug = "yes" =>
    /\ ppEntries # Null
    /\ entriesCount <= ppEntries
    /\ Items = live
    /\ \A j, k \in DOMAIN slots : j # k => slots[j] # slots[k]

(* A collection that failed, after any number of items, hands over an      *)
(* entry that is not searched and counts no items: nobody can read the     *)
(* vector it dropped.                                                      *)
FailureHidesVector ==
  Returned /\ failed => debug = "no" /\ entriesCount = 0
=============================================================================
