----------------------------- MODULE DwarfCache -----------------------------
(***************************************************************************)
(* The process-wide cache of DWARF module entries in                       *)
(* src/core/stack_investigator_backtrace_addr_to_details_unix_dwarf.c:     *)
(* the table s_dwarfModulesHash, the read-write lock s_pDwarfMutex, the    *)
(* threads inside StackInvestDetailsFromFrameAddress_Dwarf, and the        *)
(* load-time initializer and atexit cleanup that create and destroy both.  *)
(*                                                                         *)
(* A call looks its binary up under the read lock, builds a missing entry  *)
(* with no lock held, and inserts it under the write lock if nobody else   *)
(* did.  Building (CreateDwarfEntryForModule) is one step here, with every *)
(* outcome it can have.                                                    *)
(***************************************************************************)
EXTENDS Naturals

CONSTANTS
  Threads,        \* threads that call the library
  Modules,        \* binaries, the keys of the table
  Null,           \* the null pointer
  MaxCalls,       \* bound: calls made by one thread
  InsertMayFail   \* may the table fail to allocate the cell of a new item?

ASSUME CallsAssumption == MaxCalls \in Nat
ASSUME InsertAssumption == InsertMayFail \in BOOLEAN

VARIABLES
  process,   \* where the process is between load and exit
  readers,   \* threads that hold s_pDwarfMutex for reading
  writer,    \* the thread that holds it for writing, or Null
  table,     \* s_dwarfModulesHash: per binary its entry, or Null
  built,     \* every entry ever built (history)
  pc,        \* per thread: the next statement of its call
  calls,     \* per thread: calls begun
  binFile,   \* per thread: a_pStack->binFile of the call in progress
  item,      \* per thread: moduleItem, a cell of the table (or Null)
  entry,     \* per thread: pDwEntry
  refused,   \* per thread: the table refused its entry, it looks up again
  result     \* per thread: how its last call ended

locals == <<pc, binFile, item, entry, refused, result>>
lock   == <<readers, writer>>
vars   == <<process, readers, writer, table, built, calls, locals>>

-----------------------------------------------------------------------------
(* A module entry: the binary it describes, the call that built it, and    *)
(* what it can answer.  "none" is hasDebugInfo = false; "empty" is debug   *)
(* info with no line entries, for which the search returns NULL.           *)
Entry == [module : Modules, by : Threads, call : Nat,
          debug : {"none", "empty", "lines"}]

(* The null pointer is none of the things pointed to.                      *)
ASSUME NullAssumption == Null \notin Modules \cup Threads \cup Entry

(* What the calls about an entry's binary are answered with.               *)
Verdict(e) == IF e.debug = "lines" THEN "named" ELSE "unknown"

Phases == {"loading", "running", "exiting", "ended", "aborted", "crashed"}
Steps  == {"idle", "rdlock", "find", "rdunlock", "load", "create",
           "wrlock", "add", "wrunlock", "details"}
LockSteps  == {"rdlock", "rdunlock", "wrlock", "wrunlock"}
TableSteps == {"find", "add"}
CellSteps  == {"load"}

MutexReady == process \in {"running", "exiting"}
TableReady == process = "running"
Alive      == process \in {"running", "exiting", "ended"}

Goto(t, from, to) == pc[t] = from /\ pc' = [pc EXCEPT ![t] = to]

(* Ends t's call with answer r; its locals die.                            *)
Return(t, r) ==
  /\ pc' = [pc EXCEPT ![t] = "idle"]
  /\ result' = [result EXCEPT ![t] = r]
  /\ binFile' = [binFile EXCEPT ![t] = Null]
  /\ item' = [item EXCEPT ![t] = Null]
  /\ entry' = [entry EXCEPT ![t] = Null]
  /\ refused' = [refused EXCEPT ![t] = FALSE]

-----------------------------------------------------------------------------
Init ==
  /\ process = "loading"
  /\ readers = {} /\ writer = Null
  /\ table = [m \in Modules |-> Null]
  /\ built = {}
  /\ pc = [t \in Threads |-> "idle"]
  /\ calls = [t \in Threads |-> 0]
  /\ binFile = [t \in Threads |-> Null]
  /\ item = [t \in Threads |-> Null]
  /\ entry = [t \in Threads |-> Null]
  /\ refused = [t \in Threads |-> FALSE]
  /\ result = [t \in Threads |-> "none"]

(* The load-time initializer creates the mutex, then the table; when       *)
(* either fails it exits the process before any call.                      *)
Initialize ==
  /\ process = "loading"
  /\ process' \in {"running", "aborted"}
  /\ UNCHANGED <<readers, writer, table, built, calls, locals>>

(* exit: the cleanup destroys the table, then the mutex, whoever is still  *)
(* inside the library.  The entries stay: the deallocator that the table   *)
(* is destroyed with has an empty body.                                    *)
CleanupTable ==
  /\ process = "running"
  /\ process' = "exiting"
  /\ UNCHANGED <<readers, writer, table, built, calls, locals>>

CleanupMutex ==
  /\ process = "exiting"
  /\ process' = "ended"
  /\ UNCHANGED <<readers, writer, table, built, calls, locals>>

Call(t) ==
  /\ Alive
  /\ calls[t] < MaxCalls
  /\ Goto(t, "idle", "rdlock")
  /\ \E m \in Modules : binFile' = [binFile EXCEPT ![t] = m]
  /\ calls' = [calls EXCEPT ![t] = @ + 1]
  /\ result' = [result EXCEPT ![t] = "none"]
  /\ UNCHANGED <<process, readers, writer, table, built, item, entry, refused>>

RdLock(t) ==
  /\ MutexReady
  /\ writer = Null
  /\ Goto(t, "rdlock", "find")
  /\ readers' = readers \cup {t}
  /\ UNCHANGED <<process, writer, table, built, calls,
                 binFile, item, entry, refused, result>>

(* Mutant: the key is looked up without its terminating zero, so it is     *)
(* never equal to the stored key.                                          *)
FindWithShortKey(t) ==
  /\ TableReady
  /\ Goto(t, "find", "rdunlock")
  /\ item' = [item EXCEPT ![t] = Null]
  /\ UNCHANGED <<process, readers, writer, table, built, calls,
                 binFile, entry, refused, result>>

Find(t) ==
  /\ TableReady
  /\ Goto(t, "find", "rdunlock")
  /\ item' = [item EXCEPT ![t] = table[binFile[t]]]
  /\ UNCHANGED <<process, readers, writer, table, built, calls,
                 binFile, entry, refused, result>>

(* Releases the read lock and branches: a hit goes on to load the entry    *)
(* from the cell it found, a miss builds the entry, and a miss of a thread *)
(* whose entry was refused returns 1.                                      *)
RdUnlock(t) ==
  /\ MutexReady
  /\ pc[t] = "rdunlock"
  /\ readers' = readers \ {t}
  /\ \/ /\ item[t] # Null
        /\ pc' = [pc EXCEPT ![t] = "load"]
        /\ UNCHANGED <<binFile, item, entry, refused, result>>
     \/ /\ item[t] = Null /\ ~refused[t]
        /\ pc' = [pc EXCEPT ![t] = "create"]
        /\ UNCHANGED <<binFile, item, entry, refused, result>>
     \/ /\ item[t] = Null /\ refused[t]
        /\ Return(t, "error")
  /\ UNCHANGED <<process, writer, table, built, calls>>

(* Reads moduleItem->data with no lock held; the table owns the cell.      *)
Load(t) ==
  /\ TableReady
  /\ Goto(t, "load", "details")
  /\ entry' = [entry EXCEPT ![t] = item[t]]
  /\ UNCHANGED <<process, readers, writer, table, built, calls,
                 binFile, item, refused, result>>

(* CreateDwarfEntryForModule, with no lock held: NULL when the entry       *)
(* itself cannot be allocated, otherwise an entry, whatever was found in   *)
(* the binary.                                                             *)
Create(t) ==
  /\ Alive
  /\ pc[t] = "create"
  /\ \/ /\ Return(t, "error")
        /\ UNCHANGED built
     \/ \E d \in {"none", "empty", "lines"} :
          LET e == [module |-> binFile[t], by |-> t, call |-> calls[t], debug |-> d]
          IN /\ built' = built \cup {e}
             /\ entry' = [entry EXCEPT ![t] = e]
             /\ pc' = [pc EXCEPT ![t] = "wrlock"]
             /\ UNCHANGED <<binFile, item, refused, result>>
  /\ UNCHANGED <<process, readers, writer, table, calls>>

(* Mutant: the insertion takes the lock for reading.                       *)
WrLockShared(t) ==
  /\ MutexReady
  /\ writer = Null
  /\ Goto(t, "wrlock", "add")
  /\ writer' = t
  /\ UNCHANGED <<process, readers, table, built, calls,
                 binFile, item, entry, refused, result>>

WrLock(t) ==
  /\ MutexReady
  /\ writer = Null /\ readers = {}
  /\ Goto(t, "wrlock", "add")
  /\ writer' = t
  /\ UNCHANGED <<process, readers, table, built, calls,
                 binFile, item, entry, refused, result>>

(* Mutant: the data and key arguments are swapped.                         *)
AddSwapped(t) ==
  /\ TableReady
  /\ Goto(t, "add", "wrunlock")
  /\ table[binFile[t]] = Null
  /\ table' = [table EXCEPT ![binFile[t]] = binFile[t]]
  /\ item' = [item EXCEPT ![t] = entry[t]]
  /\ UNCHANGED <<process, readers, writer, built, calls,
                 binFile, entry, refused, result>>

(* Mutant: CInternalDLLHashAddData, which stores the entry whether or not  *)
(* the key is there.                                                       *)
AddOverwrites(t) ==
  /\ TableReady
  /\ Goto(t, "add", "wrunlock")
  /\ table' = [table EXCEPT ![binFile[t]] = entry[t]]
  /\ item' = [item EXCEPT ![t] = entry[t]]
  /\ UNCHANGED <<process, readers, writer, built, calls,
                 binFile, entry, refused, result>>

(* Mutant: a refused insertion removes the key it collided with.           *)
AddEvicts(t) ==
  /\ TableReady
  /\ Goto(t, "add", "wrunlock")
  /\ IF table[binFile[t]] = Null
     THEN /\ table' = [table EXCEPT ![binFile[t]] = entry[t]]
          /\ item' = [item EXCEPT ![t] = entry[t]]
     ELSE /\ table' = [table EXCEPT ![binFile[t]] = Null]
          /\ item' = [item EXCEPT ![t] = Null]
  /\ UNCHANGED <<process, readers, writer, built, calls,
                 binFile, entry, refused, result>>

(* CInternalDLLHashAddDataIfNotExists: NULL when the key is there, or when *)
(* the new item cannot be allocated.                                       *)
Add(t) ==
  /\ TableReady
  /\ Goto(t, "add", "wrunlock")
  /\ \/ /\ table[binFile[t]] = Null
        /\ table' = [table EXCEPT ![binFile[t]] = entry[t]]
        /\ item' = [item EXCEPT ![t] = entry[t]]
     \/ /\ table[binFile[t]] # Null \/ InsertMayFail
        /\ item' = [item EXCEPT ![t] = Null]
        /\ UNCHANGED table
  /\ UNCHANGED <<process, readers, writer, built, calls,
                 binFile, entry, refused, result>>

(* Mutant: a refused thread goes on with the entry it built itself.        *)
WrUnlockKeepsOwn(t) ==
  /\ MutexReady
  /\ Goto(t, "wrunlock", "details")
  /\ writer' = Null
  /\ UNCHANGED <<process, readers, table, built, calls,
                 binFile, item, entry, refused, result>>

(* Mutant: the write lock is not released on the refused path.             *)
WrUnlockForgets(t) ==
  /\ MutexReady
  /\ pc[t] = "wrunlock"
  /\ \/ /\ item[t] # Null
        /\ writer' = Null
        /\ pc' = [pc EXCEPT ![t] = "details"]
        /\ UNCHANGED <<entry, refused>>
     \/ /\ item[t] = Null
        /\ refused' = [refused EXCEPT ![t] = TRUE]
        /\ pc' = [pc EXCEPT ![t] = "rdlock"]
        /\ UNCHANGED <<writer, entry>>
  /\ UNCHANGED <<process, readers, table, built, calls, binFile, item, result>>

(* Releases the write lock; a thread whose entry was refused gives it to   *)
(* the deallocator, which does nothing, and looks the binary up again.     *)
WrUnlock(t) ==
  /\ MutexReady
  /\ pc[t] = "wrunlock"
  /\ writer' = Null
  /\ \/ /\ item[t] # Null
        /\ pc' = [pc EXCEPT ![t] = "details"]
        /\ UNCHANGED <<entry, refused>>
     \/ /\ item[t] = Null
        /\ refused' = [refused EXCEPT ![t] = TRUE]
        /\ pc' = [pc EXCEPT ![t] = "rdlock"]
        /\ UNCHANGED entry
  /\ UNCHANGED <<process, readers, table, built, calls, binFile, item, result>>

(* Reads the entry with no lock held and copies the answer out; each copy  *)
(* may fail to allocate.                                                   *)
Details(t) ==
  /\ Alive
  /\ pc[t] = "details"
  /\ \E r \in {Verdict(entry[t]), "error"} : Return(t, r)
  /\ UNCHANGED <<process, readers, writer, table, built, calls>>

(* A thread that reaches for the table, one of its cells or the mutex      *)
(* after the cleanup has destroyed it: the behaviour is undefined and is   *)
(* not followed further.                                                   *)
UseDestroyed(t) ==
  /\ \/ process = "exiting" /\ pc[t] \in TableSteps \cup CellSteps
     \/ process = "ended" /\ pc[t] \in LockSteps \cup TableSteps \cup CellSteps
  /\ process' = "crashed"
  /\ UNCHANGED <<readers, writer, table, built, calls, locals>>

-----------------------------------------------------------------------------
ThreadStep(t) ==
  \/ RdLock(t)
  \/ Find(t)
  \/ RdUnlock(t)
  \/ Load(t)
  \/ Create(t)
  \/ WrLock(t)
  \/ Add(t)
  \/ WrUnlock(t)
  \/ Details(t)
  \/ UseDestroyed(t)

Next ==
  \/ Initialize
  \/ CleanupTable
  \/ CleanupMutex
  \/ \E t \in Threads : Call(t) \/ ThreadStep(t)

Spec == Init /\ [][Next]_vars

(* A thread inside a call keeps being scheduled, and exit runs its handler *)
(* to the end.  Nothing obliges a thread to call or the process to exit.   *)
Fairness ==
  /\ WF_vars(CleanupMutex)
  /\ \A t \in Threads : WF_vars(ThreadStep(t))

FairSpec == Spec /\ Fairness

-----------------------------------------------------------------------------
Slot == Entry \cup {Null}

(* Every variable has its type; in particular the table holds entries of   *)
(* its own keys (the data and the key of an insertion are not mixed up).   *)
TypeOK ==
  /\ process \in Phases
  /\ readers \subseteq Threads /\ writer \in Threads \cup {Null}
  /\ table \in [Modules -> Slot]
  /\ built \subseteq Entry
  /\ pc \in [Threads -> Steps]
  /\ calls \in [Threads -> 0..MaxCalls]
  /\ binFile \in [Threads -> Modules \cup {Null}]
  /\ item \in [Threads -> Slot] /\ entry \in [Threads -> Slot]
  /\ refused \in [Threads -> BOOLEAN]
  /\ result \in [Threads -> {"none", "named", "unknown", "error"}]

(* While a thread inserts into s_dwarfModulesHash no other thread is       *)
(* looking a key up or inserting: the table has no synchronisation of its  *)
(* own and depends on s_pDwarfMutex around both.                           *)
TableAccessExclusive ==
  \A t, u \in Threads : t # u /\ pc[t] = "add" => pc[u] \notin TableSteps

(* A thread that reads an entry's lines reads the entry the table          *)
(* published for its binary, also when its own entry lost the race to be   *)
(* inserted: no two threads answer from different entries of one binary.   *)
AnswersFromPublished ==
  \A t \in Threads :
    pc[t] = "details" => /\ entry[t] # Null
                         /\ entry[t] = table[binFile[t]]
                         /\ entry[t].module = binFile[t]

(* A published entry is never replaced or withdrawn, so a pointer to it    *)
(* that a thread took under the read lock stays the current one.           *)
PublishedForGood ==
  [][\A m \in Modules : table[m] # Null => table'[m] = table[m]]_vars

(* When the table can store what it is given, a thread parses the debug    *)
(* info of one binary at most once in its life, races included; the        *)
(* entries that leak by losing a race are thereby bounded by the threads.  *)
BuiltOncePerThread ==
  \A e, f \in built : e.by = f.by /\ e.module = f.module => e = f

(* The comments of the refused path: an insertion is refused because       *)
(* "some other thread added this module", so that the second lookup        *)
(* missing "should never happen".                                          *)
RefusedFindsWinner ==
  \A t \in Threads : refused[t] /\ pc[t] = "rdunlock" => item[t] # Null

(* Every call returns, whatever the interleaving with insertions, failures *)
(* and exit, unless the process dies.                                      *)
CallsReturn ==
  \A t \in Threads : pc[t] # "idle" ~> (pc[t] = "idle" \/ process = "crashed")

(* The calls behave as AddrToDetails says: one verdict per binary for the  *)
(* life of the process, and every successful answer agrees with it.  The   *)
(* verdict is the published entry's.                                       *)
Service == INSTANCE AddrToDetails WITH
  verdict <- [m \in Modules |-> IF table[m] = Null THEN "undecided" ELSE Verdict(table[m])],
  request <- binFile,
  answer  <- result

ImplementsAddrToDetails == Service!Spec
=============================================================================
