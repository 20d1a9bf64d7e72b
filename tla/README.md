# Verification of stack_investigator

stack_investigator captures the stack of the calling thread and turns its
frames into names: binary, function, source file and line. The library is small
(about 1500 lines of C and C++ under `src/core`), but several threads use it at
once, it keeps a cache that lives until `exit`, and nearly every line of it can
run out of memory half way. This directory holds TLA+ models of it, TLC
configurations that check them on small instances, and TLAPS proofs of what
holds for every instance.

All paths below are relative to `src/` of the repository root, so `core/...` is
`src/core/...`. `dwarf.c` stands for
`core/stack_investigator_backtrace_addr_to_details_unix_dwarf.c`, `unix.c` for
`core/stack_investigator_backtrace_unix.c`, `common.c` for
`core/stack_investigator_backtrace_common.c`, `windows.c` for
`core/stack_investigator_backtrace_windows.c`, `mutex.c` for
`core/stack_investigator_backtrace_mutex_unix.c`, `cinvestigator.cpp` for
`core/cpp/stack_investigator_cinvestigator.cpp`.

## Inventory

| Component | State | Operations | What is hard | What makes it correct |
|---|---|---|---|---|
| Capture, clone, compare, hash (`unix.c` 56-80, `common.c` 41-99) | `StackInvestBacktrace`: frames, depth, lazily computed hash and its flag | init, clone, same, hash, free | bounds of the capture; hash computed into shared memory without a lock | a capture is of the caller's frames; a hash is right unless a race spoiled it, and a settled one stays; a clone agrees with its source |
| Conversion (`unix.c` 128-181) | the caller's items, the array of symbols | convert, free items | any allocation of any item can fail in the middle | a success is complete, a failure frees what it must and nothing twice |
| DWARF cache (`dwarf.c` 52-64, 115-172, 506-534) | `s_dwarfModulesHash`, `s_pDwarfMutex`, the locals of every thread in a call | lookup, insertion, creation, destruction at exit | threads race to build the same entry with no lock held; entries are read without the lock; exit | one entry per binary for everybody and for good |
| Collection (`dwarf.c` 178-252, 336-503) | file descriptor, libdwarf session, growing vector, items | one pass over units and lines | every libdwarf call and allocation can fail; the vector grows by counters of its own | nothing out of bounds, everything closed, a failure invisible |
| Line table (`dwarf.c` 84-112, 323-330, 500) | the sorted vector | qsort, nearest search | differences cut to `int`, unsigned indices, empty and tiny tables | the search stays in the table, ends, and finds the nearest of the entries it examines, which the last one of a table of three or more is not |
| Function names (`dwarf.c` 255-308) | DIEs of one unit | walk over the children | `high_pc` may stay uninitialised; DIEs given back on the way; `continue` jumps to the sibling call | DIEs used while held, one left at the end, the first match named |
| Read-write mutex (`mutex.c`) | a `pthread_rwlock_t`, or the embedder's hook | create, destroy, lock, unlock | readers are preferred | mutual exclusion |
| Backend without debug info (`..._unix_empty.c`) | none | placeholders | none | same contract as the DWARF backend |
| C++ `Backtrace` (`cinvestigator.cpp` 39-105, 181-198) | pointer to pointer to backtrace | construct, copy, move, assign, read | failing copy, moved-from objects, self assignment | every backtrace has exactly one owner |
| C++ `StackItems` (`cinvestigator.cpp` 111-176) | array of items and its count | construct, read, print, destroy | the conversion's result is ignored | all items readable, all strings freed |
| Optimal print (`unix.c` 83-125, not modelled) | array of symbols | create, print, clean | offset and count unchecked | reads frames that exist |
| Windows backend (`windows.c`) | DbgHelp session, a buffer of 62 frames | capture, convert, session at load and exit | `i - offset`; room that wraps; exit closes the session under a conversion | captures stay in the buffer; items are of the frames after the offset (they are not: a finding); every string null or allocated |

Interaction: `StackItems` calls the conversion, which calls a details backend
for each frame; the DWARF backend goes through the cache, which on a miss calls
the collection, whose vector later lookups search through the line table. The
only state shared by threads is the table and its mutex, and any backtrace or
object that the program itself shares.

`PROJECT.json` lists every hazard at its line with the properties that cover it,
or the reason why none does.

## The modules

```
AddrToDetails          what the details backend promises
   ^ implemented by
DwarfCache             the table, the lock, the threads, load and exit
   | Create stands for                | Details stands for
DwarfCollect           one entry      LineTable      one lookup
   | a line's function name stands for
FunctionNames          one walk

ConvertNames           one conversion; the backend's answers are its inputs
   ^ extended by
StackItems             the C++ class on top of it

BacktraceValues        what the C++ class Backtrace promises
   ^ implemented by
BacktraceObjects       the class, its pointers and the backtraces it owns
SharedBacktrace        backtraces that threads capture, hash and clone
WindowsBackend         the other implementation; extends ConvertNames for the
                       items and the caller
```

Each has an `MC*` module for the model checker, and `*Proofs` modules hold the
theorems. The levels are composed by abstraction: `DwarfCache!Create` has
exactly the outcomes that `DwarfCollect` ends in (`debug` "null", "no", "yes"),
`DwarfCache!Details` those of a search (a line, or none in an empty table), a
name found or not found by `FunctionNames` is a string of `DwarfCollect` that can
or cannot be stored, and `ConvertNames!DetailsAnswer` and `DetailsFail` those of `DwarfCache`.

### AddrToDetails and DwarfCache

`AddrToDetails` is the specification without locks or tables: a binary is
"undecided" until one of the calls that ask about it decides whether its frames
can be named; every call that succeeds is answered accordingly; a call may end
in an error at any time.

`DwarfCache` has one action per step of
`StackInvestDetailsFromFrameAddress_Dwarf` between two points where another
thread can observe something:

| action | code |
|---|---|
| `Call` | entry of the function, key length |
| `RdLock`, `Find`, `RdUnlock` | the lookup under the read lock (122-124 and 140-142) |
| `Load` | reading the entry from the cell with no lock held (127, 144) |
| `Create` | `CreateDwarfEntryForModule` with no lock held; fails or builds any entry |
| `WrLock`, `Add`, `WrUnlock` | the insertion if absent (134-136); a refused thread deallocates its entry and looks up again |
| `Details` | copying the answer out (148-172) |
| `Initialize` | load-time creation of mutex and table; failure exits |
| `CleanupTable`, `CleanupMutex` | the two steps of the `atexit` handler |
| `UseDestroyed` | a thread reaches for the table, a cell or the lock after exit destroyed it; the process is "crashed" and not followed further |

`table[m]` is the entry published for a binary. Entries carry who built them
and in which call, so that two entries of one binary are different values.
Entries are never freed: the library's deallocator, called for a refused entry and
for all of them at exit, has an empty body. So an entry loaded before exit can be
read after it, and only the table, its cells and the lock can be used too late,
which ends the modelled process as "crashed". No property speaks of that.

A failure of `Create`, also a temporary one, is remembered for good; the abstract
specification says so too ("one verdict per binary"), as nothing in the repository
promises that it is tried again.

### DwarfCollect

One call of `CreateDwarfEntryForModule`. A line is one action with one of the
outcomes the body of the loop has: skipped, dropped for lack of an item, item
without strings (the collection fails), vector that cannot grow (fails), stored.
Items are numbered in the order of their allocation. The two counters of the
code are kept apart (`next`, `entriesCount`) because the growth test uses one and
the store the other. `dwarf_finish` that fails is `FinishFails`; it dereferences
`pItem`, so with no item it ends in "crashed".

### FunctionNames

One call of `GetFunctionNames`. A child of the unit is described by what
libdwarf says of it: whether it is a function with both bounds (a failing
`dwarf_tag` or a missing attribute is "none"), where the address lies, whether
it has a name. "unwritten" bounds are those whose attribute is there without
being an address: the variable keeps what was on the stack and the comparison may
turn out either way. `TakeNext`, `Examine` and `Sibling` are the top of the body,
the body and its `while`; `live` is the set of children whose DIE is held, and
`misuse` becomes true when one is used or given back that is not.

### LineTable

The entries are their addresses. `QsortOutcomes` is external: every permutation
that is ordered by the comparator if the comparator is consistent on the table's
addresses, and every permutation at all if it is not, which is what the C
standard leaves. `CompareItems` cuts the difference to an `int` of
`2 * HalfInt` values. The loop is `Hit` and `Narrow`. It ends with two entries
left and answers with the lower one, so the last entry of a table of three or more
is never examined; `FindsNearest` is about the others. With no entries the code
computes `unIndex2 = 0 - 1`, which is -1 here and never used.

### ConvertNames and StackItems

Each string member of each item is unset, null, text, placeholder or freed.
`GiveUp` is the clean-up that the three error paths share. `misuse` becomes true
when a string is freed or read that is not allocated. After a success the caller
reads and releases the items. `StackItems` extends this with the object: the
constructor runs the conversion and becomes "alive" however it ended, or throws,
and is "leaked" when it had its `StackItems_p` already; printing
and destruction go over `m_itemsCount` items. A program of `StackItems` either
makes one object or calls the C interface itself (`CallDirectly`, every action of
`ConvertNames`), so the properties of the conversion are checked and proved for
both users of it.

The placeholders follow the code: `investigator.h` 29 says of `sourceFile` "empty means
unavailable", while both Unix backends write "UnknownSource" (`dwarf.c` 165,
`..._unix_empty.c` 39). A caller that follows the header takes that for a file name.

### SharedBacktrace

The C interface to backtraces, in a program of several threads. `Capture` is one
step, as nobody else has the backtrace before it is returned: `Initial` is what
`backtrace()` writes of a stack, `Depth` what is kept of it, `Copied` the memcpy
from the first frame not skipped, with `Garbage` for cells that were never
written or lie outside the buffer, in front of it when the skip is
negative. On Unix, a skip of 0 keeps the capturing function's own frame; on Windows
the capture always skips itself.

`StackInvestHashOfTheStack` is `Hash` (reads the flag), `Clear`, then `Load` and
`Add` for every round, `Lower` and `Answer`; a clone reads the hash and the flag
in two steps, in either order. The code has no lock, so two threads in it are a
data race, and what they see depends on the build: `inRegister` is a build that
keeps the sum in a register and stores it (`Store`) before or after the flag, the
other one goes to memory in every round. Either is fixed for a behaviour.
Two histories say where a race may have spoiled a hash. A backtrace is in
`raced` once two threads computed it at the same time in memory, into each other's
sum (`Contended`), or when it is a clone that claims a valid hash and whose
thread is in `torn`: it was cloning while the source's hash was computed, or
cloning a raced one (`Tears`), and may have an old hash with a new flag.
`HashRightUnlessRaced` says that everything else is right: the settled hash of every
backtrace that is not raced, every answer that was computed in a register, whoever
else computed at the time, and every answer read from memory unless the
backtrace is raced or another call has lowered the flag and not yet stored the hash
(`StoreToCome`). Computations in registers may overlap as they like: all of them
store the same hash. `HashSettles` says what holds in spite of every race. Right means
the exact sum of the frames the multiplier lets through, cut to a word.
`StackInvestIsTheSameStack` is a pure function of frames that are never
written after the capture, and has no action.

### WindowsBackend

The capture (`Skipped` and `Wanted` are the frames to skip and the room for frames
as DWORDs, `Written` the external `CaptureStackBackTrace`), the DbgHelp session, the
conversion with one action per call of DbgHelp, and exit (`Cleanup`) between any two
of them. The frames to skip are an `int`, so negative ones are included: -1 keeps
the capturing function, less than that wraps and captures nothing. Frames are places
in the stack, so that `ItemsAreAfterOffset` can say which frame an item should get.
The conversion is declared `void` in `windows.c` and `int` in `investigator.h` 42,
which the file includes: a C compiler rejects the file. It is modelled as it
reads, and its result (`Return`) is any, as a caller with the header's declaration
would find. A `sourceFile` that is unknown is a null here, neither the empty string of
`investigator.h` 29 nor the placeholder of the Unix backends. `ItemsAreWhole` takes
it for what a caller has to test for; `tests/other/main_stack_invest01_test.c` 50 does
not, and passes it to `strrchr`.

### BacktraceObjects

The variables of class `Backtrace` in one program, the `Backtrace_p` and the
backtraces they point to. Each constructor, assignment, accessor and the
destructor is an action that includes the C functions it calls (`Captured`,
`Cloned`, `Freed`); a call that throws and leaves nothing is a stutter, and a
copy assignment that throws leaves a null backtrace. A null pointer or freed
memory that is read or freed ends the program (`fault`); whether it is comes from
memory alone (`Whole`, `Bare`, `Sound`). What a program can know is a history of its
own (`known`): it constructed an object ("whole"), moved from it, its last
assignment threw ("failed"), or it is not alive ("dead"). `careful` chooses between two
kinds of program at the start: one that reads and copies only what it knows to
be whole, copies onto nothing it moved from and nothing onto itself, and one that
does whatever C++ lets it do. Neither looks at memory, so `CarefulIsSafe` fails as
soon as an operation leaves a dangling pointer, or shares or frees what it should not.

`BacktraceValues` is the same class without pointers: an object is one value,
the frames of a stack, or `Null` (moved from), `Empty` (its last assignment
failed) or `Unused` (not alive). `ValueOf` is the refinement mapping, what a program can read through
an object; a pointer to freed memory would be seen as `Unused`, so a copy that
shares, a destructor that frees another object's backtrace and an assignment
that fails half way through the wrong object all break `ImplementsValues`. The
hash is not part of the value: computing it is a stutter.

## The runs

| run | instance | what it shows |
|---|---|---|
| `cache_safety` | 3 threads, 2 binaries, 1 call each, insertion may fail, exit at any time | `TypeOK`, `TableAccessExclusive`, `AnswersFromPublished`, `PublishedForGood`, and the refinement `ImplementsAddrToDetails` |
| `cache_reliable` | 2 threads, 2 binaries, 2 calls each, insertion never fails, fair scheduling | `BuiltOncePerThread`, `RefusedFindsWinner`, and the liveness property `CallsReturn` |
| `cache_refused` | 2 threads, 1 binary, 1 call | finding: `RefusedFindsWinner` fails when the insertion fails for lack of memory |
| `line_table` | up to 5 entries, addresses 0..5, `int` of 3 bits | `StaysInTable`, `SortedWhenSpanFits`, `FindsNearest`, `Narrows`, `LookupReturns` |
| `collect` | 3 units of up to 4 lines, limit 3, growth by 2 | `MemorySafe`, `SessionReleased`, `EntryUsable`, `FailureHidesVector` |
| `function_names` | up to 3 children of every kind | `DiesUsedWhileHeld`, `OneDieLeft`, `FirstMatch` |
| `backtrace_objects` | 3 objects, 3 backtraces, 2 stacks, careful and careless programs | `OneOwner`, `NothingLeaks`, `HashIsOfFrames`, `CarefulIsSafe`, and the refinement `ImplementsValues` |
| `stack_items` | up to 4 frames, every offset, up to 5 items, direct calls and objects | `TypeOK`, `SuccessComplete`, `SymbolsReleased`, `ReleaseIsComplete`, `MisuseOnlyAfterFailure` |
| `shared_backtrace` | 2 threads, 2 backtraces, stacks of 0 and 4 frames, skips -1..4, buffer of 3, words of 8 values | `TypeOK`, `CaptureIsCallers`, `CopyStaysInside`, `HashRightUnlessRaced`, `HashSettles` |
| `windows` | stacks of up to 9 frames, skips -4..4, buffer of 3, conversions of up to 2 frames into up to 3 items | `WindowsTypeOK`, `CaptureFitsBuffer`, `ItemsAreWhole` |
| `windows_offset` | stacks of up to 4 frames, conversions of up to 2 | finding: `ItemsAreAfterOffset` fails with every offset above 0 |
| `items_readable` | up to 2 frames | finding: `ItemsReadable` fails after a failed conversion |

Why the bounds are enough. Cache: a race for one binary needs two threads; the
third is the reader that holds the published entry, or a second loser, and the
second binary keeps an answer of the wrong one possible. Two calls per thread
show a call that hits what an earlier one built. Line table: a table of three is
the first with a middle that is not an end, one of five leaves two rounds
on either side; addresses 0..5 span more than half of a
3-bit `int`, so inconsistent comparators occur. Collection: three units of up to
three lines fill and grow a vector of two slots four times, with a skipped unit
in between. Conversion: of four frames two can be done before the
failure and one left after it; a buffer of five is larger than any backtrace, one
of zero smaller. Shared backtraces: a race needs two threads, and a clone a second
address; a stack of four frames is deeper than the buffer of three, is skipped
in part and in whole, and is longer than the hash's reach: 12 = 4 * 3 in words of 8 values stands for
1000 = 8 * 125 in words of 2^64, its power 2 is zero as the power 22 of 1000 is
(`Significant`). A skip of -1 reads in front of the buffer. Windows: skips up to 4 pass the buffer of 3, negative ones wrap, and nine frames are
enough to overrun it with the wrapped room.
Function names: three children are one given back, one being
examined and one still to come. Backtrace: three objects are the two of an
assignment and a third that could share with either.
Bounds named in the modules: `MaxCalls`, `MaxEntries`, `MaxUnits`, `MaxLines`,
`MaxDepth`, `MaxItems`, `MaxChildren`, `MinSkip`, `MaxSkip`, `MaxStack`; `MaxSymbols`,
`Word` and `DWord` are smaller than in the source. `CHECK_DEADLOCK FALSE` is set where the system really
stops: threads use up their calls, the process ends, a single call returns.

Fairness. A thread inside a call keeps being scheduled (`WF` of its own step) and
`exit` runs its handler to the end (`WF` of `CleanupMutex`). Nothing obliges a
thread to call or the process to exit. Weak fairness is enough for the lock only
because the number of calls is bounded: `pthread_rwlock` prefers readers, and an
endless stream of them may keep a writer out, which no fairness of the scheduler
excludes. `CallsReturn` is checked where insertions do not fail; a failed insertion
only makes a call return earlier or look up once more. A search of the line table is sequential code.

Each property of a passing run has a mutant, an operator named in `PROJECT.json`
and marked `Mutant:` in the module, that changes one definition as a plausible
bug would; the property is violated when the mutant takes its place.

## What is proved

`DwarfCacheProofs`, for any set of threads, any set of binaries and any number of
calls. The inductive invariant adds to `TypeOK` who holds the lock at which
statement (a thread is a reader exactly between `RdLock` and `RdUnlock`, the
writer exactly between `WrLock` and `WrUnlock`, and never both), and what the
locals of a call mean at each statement (a found cell is the table's, an entry on
its way to be inserted is the thread's own of the same binary). From it:
`TypeCorrect`, `TableIsProtected`, `AnswersArePublished`, `PublishedStays`, and,
with the refinement mapping of `ImplementsAddrToDetails`, `Refinement`. With the
assumption `~InsertMayFail` a second invariant relates the history `built` to the
table (what a thread built and has left behind is for a published binary), giving
`ParsedOnce` and `RefusalIsALostRace`.

`LineTableProofs`, for tables of any length and any width of `int`: the two
indices always enclose a part of the table whose middle is strictly inside after
the first round, everything below the part is not above the address and
everything above it is. From it `LookupStaysInTable`, `LookupNarrows`,
`LookupFindsNearest`; `QsortSorts` rests on the lemma that cutting a difference
smaller than half the range keeps it.

`DwarfCollectProofs`, for any number of units and lines and any growth step: the
two counters agree while lines are collected and neither passes the room there
is; the items in the slots are exactly the live ones. From it
`CollectionIsMemorySafe`, `NothingStaysOpen`, `SuccessIsUsable`,
`FailureIsHidden`.

`FunctionNamesProofs`, for units of any size: at each statement it is known
exactly which DIEs are held (`AtTop` and its siblings) and that no child already
left behind matches. From it `WalkUsesHeldDies`, `WalkLeavesOneDie`,
`WalkFindsFirst`.

`BacktraceObjectsProofs`, for any number of objects and any order of operations:
ownership and the absence of leaks are inductive only together, as a copy is
safe because the address it takes is nobody's, and a destruction because its
backtrace is nobody else's. From it `BacktracesHaveOneOwner`, `NoBacktraceLeaks`,
`HashesAreRight`, and the refinement `ObjectsAreValues`:
`OthersKept` shows that a step at one `Backtrace_p` leaves what every other object
points to as it was, which is where ownership is used, and one lemma per operation
(`ConstructValue` to `DestroyValue`) maps its step to the operation on values, to
`Misuse`, or to a stutter. The invariant also says (`Knows`) that the history `known` of each
object is what memory holds of it, through every failure, move and assignment, and
`CarefulProgramsAreSafe` follows: what a careful program may do does not crash.

`StackItemsProofs`, for backtraces and buffers of any size: at every statement of
the loop the items before `i` are complete, item `i` has what the statements
before it wrote, and the later ones are untouched, so the clean-up frees only
binaries that are allocated. An object has an item for every frame of its
backtrace, which ties its count to the conversion's. From it `TypeCorrect`,
`ConvertsAll`, `SymbolsFreed`, `ReleaseFreesAll`, `NoMisuseButOfFailedObject`.

`SharedBacktraceProofs`, for any number of threads, backtraces and stacks: frames
are never written after the capture and a thread that computes works on a
backtrace in use. From it `TypeCorrect`, `CaptureTakesCallers`, `CopyReadsBuffer` and
`HashStays`: a settled hash has no thread that could still store to it, and the
next one to look at the flag does not start. `HashIsRight` proves
`HashRightUnlessRaced` from a second invariant, `HashInv`. The histories miss nothing
(`RacesAreSeen`). A thread that computes in a register, or in memory on a backtrace
that is not raced, has the power of the multiplier and the sum of the frames so
far, and one that clones without being torn has copied what the source still has
(`CallRight`). A backtrace that is not raced, with the flag down and no store to come,
has the right hash (`ValidIsRight`). That the sum in words, with a multiplier that becomes zero, is the
exact sum in a word is arithmetic of remainders (`ModUnique` to `ModProduct`,
`PowerFacts`, `ExactFacts`, `AccumulatedIs`). Where the sum is over all lengths the
proof takes the least length at which a statement would fail, from
`WellFoundedInduction`, so no step is an induction over an operator.

`WindowsBackendProofs`, for stacks, buffers and backtraces of any size: item `i` has
what the calls of DbgHelp before the statement wrote, and a capture is what the
system wrote for the room it was told of. From it `TypeCorrect`, `CaptureFits` and
`ItemsStayWhole`; `CaptureFits` needs that the buffer's size fits a DWORD
(`WindowsAssumption`). `ItemsWithoutOffset` shows that the finding about the offset
needs one: without it every item is of its frame.

The type invariants of the other modules are theorems too (`TypeCorrect` in each);
those of the line table, the collection, the function walk and `Backtrace` are
only proved, as their runs check stronger invariants of the same variables. That of
the line table says little beyond types: `index2` is -1 for an empty table, which is
the wrap of the code's `entriesCount - 1`. That no index is used out of the table is
`LookupStaysInTable`.

The assumptions are the named ones on the constants: bounds are natural numbers,
`Null` and `Unused` are not addresses, `Garbage` is not a stack, words have at
least two values, the multiplier's power `Significant` is zero in a word
(`SignificantAssumption`; 1000 to the 22nd is a multiple of 2^66), the values of an object without
frames are no frames (`ValueAssumption`), and (`ArrayAssumption`) an object's array
is a buffer within the bound.

Only model-checked: the two liveness properties, `CallsReturn` and
`LookupReturns`, as liveness is out of the prover's reach. The three findings
are counterexamples of TLC.

## Findings

- `cache_refused`: the comments of the refused path (`dwarf.c` 138 and 143) say
  that a refused insertion means another thread added the binary and that the
  second lookup cannot miss. An insertion that fails for lack of memory is
  refused as well, and the lookup misses.
- `items_readable`: `StackItems` ignores that its conversion failed, and prints and
  frees strings that were freed or never written (the trace has one that was never written).
- `windows_offset`: the Windows conversion counts the frames after the offset
  (`windows.c` 69) and then takes frame `i - offset` for item `i` (74), where the Unix one
  takes `i + offset` (`unix.c` 142): with an offset every item is of a wrong frame,
  and the first is read in front of the buffer.

## Not modelled

- Undefined behaviour after exit beyond "crashed".
- Captures on Unix with a skip of -256 or less, which ask `backtrace()` for no frame or fewer.
- The comparison of two backtraces, a pure function.
- Load addresses, and hence libraries unloaded and loaded again.
- Strings that libdwarf frees when its session ends.
- Optimal print: three straight-line functions on memory of their own; what can go
  wrong is the caller's offset and count, which nothing checks.
- A null backtrace passed to the conversion or to the clone, which return at once.
- The Windows hash, which the system computes, and DbgHelp entered by two threads
  at once, of which nothing can be said.
- Custom allocator and mutex hooks, and hooks that call back into the library.
- A backtrace that one thread frees while another uses it through the C interface:
  the caller's to exclude. `BacktraceObjects` has the frees of the C++ class.
- The older copy `..._unix_dwarf.c_locked`, which no build file compiles.
- Tests, utilities and project files hold no logic of the library. The addr2line
  backend that `common.c` can call has no source in the repository.

## Plan

1. Done: the cache with its refinement, the line table, the collection, the
   function walk, the conversion, `StackItems`, `Backtrace` with its refinement,
   the shared backtraces and the Windows backend; every safety property of the
   passing runs is a theorem.
2. `ConvertNames` refined to an abstract conversion (all items or none), and
   the refinement proved.
3. Libraries that are unloaded and loaded again elsewhere, with the load address
   in the entries of the cache.
