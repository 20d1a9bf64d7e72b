--------------------------- MODULE WindowsBackend ---------------------------
(***************************************************************************)
(* src/core/stack_investigator_backtrace_windows.c: the capture, the       *)
(* DbgHelp session that is opened at load and closed at exit, and the      *)
(* conversion, with the caller's use and release of the items as in        *)
(* ConvertNames.  A frame is its place in the stack, 0 for the capturing   *)
(* function itself.                                                        *)
(***************************************************************************)
EXTENDS ConvertNames

CONSTANTS
  MaxStack,     \* bound: frames of the stack
  MaxSkip,      \* bound: a_goBackInTheStackCalc, which may be negative
  MaxSymbols,   \* STACK_INVEST_SYMBOLS_COUNT_MAX: 62
  DWord         \* the number of values of DWORD: 2^32

ASSUME WindowsAssumption ==
  /\ MaxStack \in Nat /\ MaxSkip \in Nat
  /\ DWord \in Nat \ {0} /\ MaxSymbols \in 1..(DWord - 1)
  /\ MaxStack + MaxSkip < DWord - 1

VARIABLES
  session,   \* s_currentProcess: "open", "cleaned" until it is reset, or "null"
  taken      \* the capture: its stack, its skip, and the frames it wrote

windowsVars == <<vars, session, taken>>

NoCapture == [stack |-> 0, skip |-> 0, first |-> 0, written |-> 0]

-----------------------------------------------------------------------------
WindowsInit ==
  /\ Init
  /\ session \in {"open", "null"}
  /\ taken = NoCapture

(* What CaptureStackBackTrace writes into vpBuffer when asked to skip and  *)
(* to capture so many frames of a stack of n.                              *)
Written(n, skipped, wanted) ==
  IF n <= skipped THEN 0 ELSE IF n - skipped < wanted THEN n - skipped ELSE wanted

(* Mutant: the skipped frames are not taken off the room.                  *)
WantedWhole(skipped) == MaxSymbols

(* The room that is left, as a DWORD.                                      *)
Wanted(skipped) == (MaxSymbols - skipped) % DWord

(* The frames to skip, as a DWORD.                                         *)
Skipped(k) == (k + 1) % DWord

(* StackInvestInitBacktraceDataForCurrentStack skips itself too.  Without  *)
(* a frame, or without memory, it returns null.                            *)
Capture(n, k) ==
  /\ taken = NoCapture
  /\ taken' = [stack |-> n, skip |-> k, first |-> Skipped(k),
               written |-> Written(n, Skipped(k), Wanted(k + 1))]
  /\ UNCHANGED <<vars, session>>

(* The conversion is called for what was captured.                         *)
Call(off, n) ==
  /\ taken.written \in 1..MaxDepth
  /\ Begin(taken.written, off, n)
  /\ UNCHANGED <<session, taken>>

AtLoop == pc \in {"symbols", "item"}

(* The place in ppBuffer that item k is given, before its beginning when   *)
(* negative: the index is a size_t that wraps, and so does the address.    *)
FrameRead(k) == k - offset

(* Mutant: the loop goes one item too far.                                 *)
TakeFrameOneMore ==
  /\ AtLoop /\ i <= Count
  /\ pc' = "func"
  /\ items' = [items EXCEPT ![i].address = FrameRead(i)]
  /\ UNCHANGED <<args, i, symbols, rc, misuse, session, taken>>

TakeFrame ==
  /\ AtLoop /\ i < Count
  /\ pc' = "func"
  /\ items' = [items EXCEPT ![i].address = FrameRead(i)]
  /\ UNCHANGED <<args, i, symbols, rc, misuse, session, taken>>

(* A copy of what DbgHelp knows; null when it knows nothing, when the      *)
(* session is closed, or without memory.                                   *)
Answers == IF session = "open" THEN {"text", "null"} ELSE {"null"}

SymFromAddr ==
  /\ pc = "func"
  /\ pc' = "line"
  /\ \E name \in Answers : items' = [items EXCEPT ![i].funcName = name]
  /\ UNCHANGED <<args, i, symbols, rc, misuse, session, taken>>

(* Mutant: the file is left as it was when there is no line.               *)
SymGetLineFromAddrForgets ==
  /\ pc = "line"
  /\ pc' = "module"
  /\ \/ /\ session = "open"
        /\ \E file \in Answers :
             items' = [items EXCEPT ![i].sourceFile = file, ![i].line = "known"]
     \/ items' = [items EXCEPT ![i].line = "negative"]
  /\ UNCHANGED <<args, i, symbols, rc, misuse, session, taken>>

SymGetLineFromAddr ==
  /\ pc = "line"
  /\ pc' = "module"
  /\ \/ /\ session = "open"
        /\ \E file \in Answers :
             items' = [items EXCEPT ![i].sourceFile = file, ![i].line = "known"]
     \/ items' = [items EXCEPT ![i].sourceFile = "null", ![i].line = "negative"]
  /\ UNCHANGED <<args, i, symbols, rc, misuse, session, taken>>

SymGetModuleInfo ==
  /\ pc = "module"
  /\ pc' = "next"
  /\ \E file \in Answers : items' = [items EXCEPT ![i].binFile = file]
  /\ UNCHANGED <<args, i, symbols, rc, misuse, session, taken>>

(* The conversion is void here and int in the header that this file        *)
(* includes, which a compiler refuses.  For a caller that has the header's *)
(* declaration the result would be whatever a register holds: any value.   *)
Return ==
  /\ AtLoop /\ i >= Count
  /\ pc' = "returned" /\ rc' \in {"ok", "error"}
  /\ UNCHANGED <<args, items, i, symbols, misuse, session, taken>>

(* exit, in another thread: SymCleanup, then the handle is reset.          *)
Cleanup ==
  /\ \/ session = "open" /\ session' = "cleaned"
     \/ session = "cleaned" /\ session' = "null"
  /\ UNCHANGED <<vars, taken>>

WindowsNext ==
  \/ \E n \in 0..MaxStack, k \in (-MaxSkip)..MaxSkip : Capture(n, k)
  \/ \E off \in 0..(MaxDepth + 1), n \in 0..MaxItems : Call(off, n)
  \/ TakeFrame \/ SymFromAddr \/ SymGetLineFromAddr \/ SymGetModuleInfo \/ Return
  \/ Cleanup
  \/ (NextItem \/ Use \/ Release) /\ UNCHANGED <<session, taken>>

WindowsSpec == WindowsInit /\ [][WindowsNext]_windowsVars

-----------------------------------------------------------------------------
(* The items that the conversion is done with.                             *)
Filled == {k \in DOMAIN items : k < i}

WindowsTypeOK ==
  /\ session \in {"open", "cleaned", "null"}
  /\ i \in 0..Count
  /\ taken \in [stack : 0..MaxStack, skip : (-MaxSkip)..MaxSkip, first : Nat, written : Nat]
  /\ pc \in {"idle", "symbols", "item", "func", "line", "module", "next",
             "returned", "used", "released"}
  /\ items \in [0..(size - 1) -> [address : (-MaxDepth)..MaxDepth, line : Lines,
                 binFile : Pointer, funcName : Pointer, sourceFile : Pointer]]

(* A capture that skips fewer frames than the buffer has room for stays    *)
(* inside it: what it keeps are the frames of the caller and outwards, as  *)
(* many as there are and there is room for.  A negative skip keeps the     *)
(* capturing function too, when it is -1, and nothing when it is less, as  *)
(* the DWORD wraps.  A larger skip makes the room wrap, to nearly 2^32.    *)
CaptureFitsBuffer ==
  taken.skip < MaxSymbols =>
    /\ taken.written > 0 =>
         taken.first = taken.skip + 1 /\ taken.first + taken.written <= MaxSymbols
    /\ taken.first + taken.written < taken.stack => taken.first + taken.written = MaxSymbols

(* The source calls what it converts the frames after the offset: item k   *)
(* is frame k + offset of the backtrace, on Windows as on Unix.            *)
ItemsAreAfterOffset == \A k \in Filled : items[k].address = k + offset

(* Whatever DbgHelp knows, whenever exit closes the session, and whenever  *)
(* memory ends, each string of an item is null or allocated, so that it    *)
(* can be tested and freed, and a line that is unknown goes with no file.  *)
(* A null is not the empty string the header speaks of: a caller has to    *)
(* test for it.                                                            *)
ItemsAreWhole ==
  /\ ~misuse
  /\ pc \notin {"used", "released"} =>
       \A k \in Filled :
         /\ \A f \in Strings : items[k][f] \in Allocated \cup {"null"}
         /\ items[k].line = "negative" => items[k].sourceFile = "null"
=============================================================================
