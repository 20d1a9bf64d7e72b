---------------------------- MODULE ConvertNames ----------------------------
(***************************************************************************)
(* StackInvestConvertBacktraceToNamesRaw of                                *)
(* src/core/stack_investigator_backtrace_unix.c, with the call of the      *)
(* details backend for each frame and the caller's use and release of the  *)
(* items (StackInvestFreeStackItemData).                                   *)
(*                                                                         *)
(* The model follows each string of each item: not yet written, null,      *)
(* allocated or freed.  Every allocation may fail.                         *)
(***************************************************************************)
EXTENDS Integers

CONSTANTS
  MaxDepth,   \* bound: frames of a backtrace
  MaxItems    \* bound: items of the caller's buffer

ASSUME DepthAssumption == MaxDepth \in Nat
ASSUME ItemsAssumption == MaxItems \in Nat

VARIABLES
  pc,        \* the next statement
  depth,     \* a_data->stackDeepness
  offset,    \* cunOffset
  size,      \* a_bufferSize
  items,     \* a_pStack
  i,         \* the item being filled
  symbols,   \* ppStrings: "none", "live" or "freed"
  rc,        \* what the call returned: "none", "ok" or "error"
  misuse     \* has a string been read or freed that is not allocated?

args == <<depth, offset, size>>
vars == <<pc, args, items, i, symbols, rc, misuse>>

Strings == {"binFile", "funcName", "sourceFile"}

(* What a string member of an item can be.  "text" is the answer of the    *)
(* debug info or of backtrace_symbols, "Unknown" a placeholder.            *)
Pointer == {"unset", "null", "text", "Unknown", "freed"}
Allocated == {"text", "Unknown"}

Lines == {"unset", "known", "negative"}
NoFrame == -1
Unset == [address |-> NoFrame, line |-> "unset",
          binFile |-> "unset", funcName |-> "unset", sourceFile |-> "unset"]

(* The items the call fills.                                               *)
Count == IF depth - offset > size THEN size ELSE depth - offset

(* S frees the string s of the item.                                       *)
Freed(item, S) == [f \in DOMAIN item |-> IF f \in S THEN "freed" ELSE item[f]]
CanFree(item, S) == \A f \in S : item[f] \in Allocated \cup {"null"}

-----------------------------------------------------------------------------
Init ==
  /\ pc = "idle"
  /\ depth = 0 /\ offset = 0 /\ size = 0
  /\ items = [k \in {} |-> Unset]
  /\ i = 0
  /\ symbols = "none" /\ rc = "none"
  /\ misuse = FALSE

(* Called for d frames with an offset and a buffer of n items; an offset   *)
(* beyond the frames is taken as 0.                                        *)
Begin(d, off, n) ==
  /\ pc = "idle"
  /\ pc' = "symbols"
  /\ depth' = d /\ size' = n
  /\ offset' = IF off > d THEN 0 ELSE off
  /\ items' = [k \in 0..(n - 1) |-> Unset]
  /\ i' = 0
  /\ symbols' = "none" /\ rc' = "none"
  /\ UNCHANGED misuse

GetSymbols ==
  /\ pc = "symbols"
  /\ \/ pc' = "item" /\ symbols' = "live" /\ UNCHANGED rc
     \/ pc' = "returned" /\ rc' = "error" /\ UNCHANGED symbols
  /\ UNCHANGED <<args, items, i, misuse>>

(* Mutant: the buffer is indexed as in the Windows source.                 *)
FrameOfMinus(k) == k - offset

(* The frame whose address item k gets.                                    *)
FrameOf(k) == k + offset

(* Mutant: an error leaves the symbols allocated.                          *)
GiveUpKeepsSymbols(table) ==
  /\ items' = [k \in DOMAIN table |->
                IF k < i THEN Freed(table[k], {"binFile"}) ELSE table[k]]
  /\ misuse' = (misuse \/ \E k \in 0..(i - 1) : ~CanFree(table[k], {"binFile"}))
  /\ symbols' = symbols
  /\ pc' = "returned" /\ rc' = "error"

(* Mutant: the binary of the failed item is freed as well.                 *)
GiveUpFreesOneMore(table) ==
  /\ items' = [k \in DOMAIN table |->
                IF k <= i THEN Freed(table[k], {"binFile"}) ELSE table[k]]
  /\ misuse' = (misuse \/ \E k \in 0..i : ~CanFree(table[k], {"binFile"}))
  /\ symbols' = "freed"
  /\ pc' = "returned" /\ rc' = "error"

(* Every error in the loop: frees the binaries of the items before i, and  *)
(* nothing else of them, and the symbols.                                  *)
GiveUp(table) ==
  /\ items' = [k \in DOMAIN table |->
                IF k < i THEN Freed(table[k], {"binFile"}) ELSE table[k]]
  /\ misuse' = (misuse \/ \E k \in 0..(i - 1) : ~CanFree(table[k], {"binFile"}))
  /\ symbols' = "freed"
  /\ pc' = "returned" /\ rc' = "error"

(* Takes the next frame and copies the name of its binary.                 *)
CopyBinFile ==
  /\ pc = "item" /\ i < Count
  /\ LET addressed == [items EXCEPT ![i].address = FrameOf(i)]
     IN \/ GiveUp(addressed)
        \/ /\ items' = [addressed EXCEPT ![i].binFile = "text"]
           /\ pc' = "details"
           /\ UNCHANGED <<symbols, rc, misuse>>
  /\ UNCHANGED <<args, i>>

(* The details backend answers: the function, the file and the line, or    *)
(* the placeholders and a negative line.                                   *)
DetailsAnswer ==
  /\ pc = "details"
  /\ \/ /\ items' = [items EXCEPT ![i].funcName = "text", ![i].sourceFile = "text",
                                  ![i].line = "known"]
        /\ pc' = "next"
     \/ /\ items' = [items EXCEPT ![i].funcName = "Unknown", ![i].sourceFile = "Unknown",
                                  ![i].line = "negative"]
        /\ pc' = "whole"
  /\ UNCHANGED <<args, i, symbols, rc, misuse>>

(* Or it fails: before it touches the item, at the function's name, or at  *)
(* the file, when it frees the name.                                       *)
DetailsFail ==
  /\ pc = "details"
  /\ \E failed \in {items[i],
                    [items[i] EXCEPT !.funcName = "null"],
                    [items[i] EXCEPT !.funcName = "freed", !.sourceFile = "null"]} :
       GiveUp([items EXCEPT ![i] = failed])
  /\ UNCHANGED <<args, i>>

(* A frame without a line gets the whole symbol for its binary.            *)
CopyWholeSymbol ==
  /\ pc = "whole"
  /\ \/ /\ items' = [items EXCEPT ![i].binFile = "text"]
        /\ misuse' = (misuse \/ ~CanFree(items[i], {"binFile"}))
        /\ pc' = "next"
        /\ UNCHANGED <<symbols, rc>>
     \/ GiveUp([items EXCEPT ![i].binFile = "null"])
  /\ UNCHANGED <<args, i>>

NextItem ==
  /\ pc = "next"
  /\ pc' = "item"
  /\ i' = i + 1
  /\ UNCHANGED <<args, items, symbols, rc, misuse>>

(* Mutant: the loop ends one item early.                                   *)
FinishEarly ==
  /\ pc = "item" /\ i + 1 >= Count
  /\ pc' = "returned"
  /\ rc' = "ok" /\ symbols' = "freed"
  /\ UNCHANGED <<args, items, i, misuse>>

Finish ==
  /\ pc = "item" /\ i >= Count
  /\ pc' = "returned"
  /\ rc' = "ok" /\ symbols' = "freed"
  /\ UNCHANGED <<args, items, i, misuse>>

Convert ==
  \/ GetSymbols \/ CopyBinFile
  \/ DetailsAnswer \/ DetailsFail
  \/ CopyWholeSymbol \/ NextItem \/ Finish

-----------------------------------------------------------------------------
(* The strings of an item are read.                                        *)
Unreadable(item) == \E f \in Strings : item[f] \in {"unset", "freed"}

(* A caller reads the items it was given, when there are any.              *)
Use ==
  /\ pc = "returned" /\ rc = "ok"
  /\ pc' = "used"
  /\ misuse' = (misuse \/ \E k \in 0..(Count - 1) : Unreadable(items[k]))
  /\ UNCHANGED <<args, items, i, symbols, rc>>

(* Mutant: the function's name is not freed.                               *)
FreeStackItemDataForgets(item) == Freed(item, {"binFile", "sourceFile"})

(* StackInvestFreeStackItemData of one item.                               *)
FreeStackItemData(item) == Freed(item, Strings)

(* ... and frees them.                                                     *)
Release ==
  /\ pc = "used"
  /\ pc' = "released"
  /\ items' = [k \in DOMAIN items |->
                IF k < Count THEN FreeStackItemData(items[k]) ELSE items[k]]
  /\ misuse' = (misuse \/ \E k \in 0..(Count - 1) : ~CanFree(items[k], Strings))
  /\ UNCHANGED <<args, i, symbols, rc>>

Next ==
  \/ \E d \in 0..MaxDepth, off \in 0..(MaxDepth + 1), n \in 0..MaxItems : Begin(d, off, n)
  \/ Convert
  \/ Use \/ Release

Spec == Init /\ [][Next]_vars

-----------------------------------------------------------------------------
Item == [address : {NoFrame} \cup 0..(MaxDepth - 1), line : Lines,
         binFile : Pointer, funcName : Pointer, sourceFile : Pointer]

(* Every variable has its type; in particular the address of an item is    *)
(* read inside the buffer of the backtrace.                                *)
TypeOK ==
  /\ pc \in {"idle", "symbols", "item", "details", "whole", "next",
             "returned", "used", "released"}
  /\ depth \in 0..MaxDepth /\ size \in 0..MaxItems /\ offset \in 0..depth
  /\ items \in [0..(size - 1) -> Item]
  /\ i \in 0..Count
  /\ symbols \in {"none", "live", "freed"} /\ rc \in {"none", "ok", "error"}
  /\ misuse \in BOOLEAN

(* A conversion that returns 0 has filled the items it could, in the order *)
(* of the frames from the offset on, all their strings allocated, and has  *)
(* not touched the items after them.                                       *)
SuccessComplete ==
  pc = "returned" /\ rc = "ok" =>
    \A k \in DOMAIN items :
      IF k < Count
      THEN /\ items[k].address = k + offset /\ items[k].address < depth
           /\ items[k].line # "unset"
           /\ \A f \in Strings : items[k][f] \in Allocated
      ELSE items[k] = Unset

(* The array of symbols never outlives the call, on any path.              *)
SymbolsReleased == pc = "returned" => symbols # "live"

(* Whoever frees every item, a caller after a success or the destructor of *)
(* the C++ class after any conversion, leaves none of its strings behind.  *)
ReleaseIsComplete ==
  pc = "released" => \A k \in DOMAIN items : \A f \in Strings : items[k][f] \notin Allocated
=============================================================================
