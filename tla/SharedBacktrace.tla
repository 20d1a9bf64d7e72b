-------------------------- MODULE SharedBacktrace --------------------------
(***************************************************************************)
(* Backtraces that the threads of a program share through the C interface: *)
(* the capture of src/core/stack_investigator_backtrace_unix.c and the     *)
(* clone and the hash of src/core/stack_investigator_backtrace_common.c.   *)
(*                                                                         *)
(* The hash is computed on first use, into the backtrace and without a     *)
(* lock.  Its loads and stores are steps of their own.  Two threads in it  *)
(* are a data race, so the compiler's choices show: inRegister is a build  *)
(* that sums up in a register and stores the hash and the flag at the end, *)
(* in either order; the other build goes to memory in every round.         *)
(***************************************************************************)
EXTENDS Integers, Sequences

CONSTANTS
  Threads,      \* the threads of the program
  Backtraces,   \* addresses of struct StackInvestBacktrace
  Stacks,       \* the stacks a capture may meet, frames from the inside out
  MinSkip,      \* bound: the least a_goBackInTheStackCalc, a negative one
  MaxSkip,      \* bound: the greatest
  MaxSymbols,   \* STACK_INVEST_SYMBOLS_COUNT_MAX: 256
  Word,         \* the number of values of size_t: 2^64
  Multiplier,   \* 1000
  Significant,  \* the first power of the multiplier that is 0 in a word: 22
  Garbage,      \* what memory holds that was never written
  Unused        \* not a backtrace

ASSUME BoundsAssumption ==
  /\ MaxSymbols \in Nat \ {0} /\ MaxSkip \in Nat /\ Significant \in Nat
  /\ MinSkip \in (1 - MaxSymbols)..0  \* backtrace() is asked for a frame at least
  /\ Word \in Nat \ {0, 1} /\ Multiplier \in Nat

Words == 0..(Word - 1)
Skips == MinSkip..MaxSkip

(* struct StackInvestBacktrace; the depth is the number of frames.         *)
Backtrace == [frames : Seq(Words), hash : Words, hashIsNotValid : {0, 1}]

ASSUME StacksAssumption == Stacks \subseteq Seq(Words)
ASSUME GarbageAssumption == Garbage \subseteq Words
ASSUME UnusedAssumption == Unused \notin Backtrace

VARIABLES
  inRegister,  \* the build
  taken,       \* history: the stack and the skip that a backtrace comes from
  backtrace,   \* per address: the backtrace, or Unused
  pc,          \* per thread: its next step in a call
  target,      \* per thread: the backtrace it works on
  i,           \* per thread: the frame of the loop, 0 when it does not compute
  unMult,      \* per thread: the power of the multiplier
  sum,         \* per thread: the register with the hash
  copy,        \* per thread: the members its clone has copied
  raced,       \* history: the backtraces whose hash a race may have spoiled
  torn         \* history: the threads whose clone may mix an old hash and a new flag

locals == <<target, i, unMult, sum, copy>>
vars == <<inRegister, taken, backtrace, pc, locals, raced, torn>>

(* A member that a clone has not copied yet.                               *)
NotYet == -1
NoCopy == [hash |-> NotYet, hashIsNotValid |-> NotYet]

(* A call of t returns, and its locals are gone.                           *)
Return(t) ==
  /\ pc' = [pc EXCEPT ![t] = "idle"]
  /\ target' = [target EXCEPT ![t] = Unused]
  /\ i' = [i EXCEPT ![t] = 0]
  /\ unMult' = [unMult EXCEPT ![t] = 0]
  /\ sum' = [sum EXCEPT ![t] = 0]
  /\ copy' = [copy EXCEPT ![t] = NoCopy]

-----------------------------------------------------------------------------
(* Mutant: the buffer has no room for the frames to skip.                  *)
CountMaxForgetsSkip(k) == MaxSymbols

(* What backtrace() is asked for, and the cells of ppBuffer.               *)
CountMax(k) == MaxSymbols + k

(* What it writes of the stack s.                                          *)
Initial(s, k) == IF Len(s) > CountMax(k) THEN CountMax(k) ELSE Len(s)

(* Mutant: the depth is never reduced.                                     *)
DepthForgetsSkip(s, k) == Initial(s, k)

(* The frames that are kept.                                               *)
Depth(s, k) == IF Initial(s, k) > k THEN Initial(s, k) - k ELSE Initial(s, k)

(* The frames copied from ppBuffer[k] on, with g in the cells that         *)
(* backtrace() did not write, and in front of the buffer or beyond it.     *)
Copied(s, k, g) ==
  [n \in 1..Depth(s, k) |-> IF k + n \in 1..Initial(s, k) THEN s[k + n] ELSE g[n]]

ReadsOutside(s, k) == k < 0 \/ k + Depth(s, k) > CountMax(k)

(* A round of the loop, in words.                                          *)
Accumulated(h, frame, mult) == (h + frame * mult) % Word

NextMult(mult) == (mult * Multiplier) % Word

-----------------------------------------------------------------------------
Init ==
  /\ inRegister \in BOOLEAN
  /\ taken = [b \in Backtraces |-> Unused]
  /\ backtrace = [b \in Backtraces |-> Unused]
  /\ pc = [t \in Threads |-> "idle"]
  /\ target = [t \in Threads |-> Unused]
  /\ i = [t \in Threads |-> 0]
  /\ unMult = [t \in Threads |-> 0]
  /\ sum = [t \in Threads |-> 0]
  /\ copy = [t \in Threads |-> NoCopy]
  /\ raced = {} /\ torn = {}

(* StackInvestInitBacktraceDataForCurrentStack.  Its backtrace is nobody   *)
(* else's before it returns, so it is one step; without memory it returns  *)
(* null and changes nothing.                                               *)
Capture(b, s, k) ==
  /\ backtrace[b] = Unused
  /\ taken' = [taken EXCEPT ![b] = [stack |-> s, skip |-> k]]
  /\ \E h \in Garbage, g \in [1..Depth(s, k) -> Garbage] :
       backtrace' = [backtrace EXCEPT
         ![b] = [frames |-> Copied(s, k, g), hash |-> h, hashIsNotValid |-> 1]]
  /\ UNCHANGED <<pc, locals>>

(* Mutant: the flag is not looked at.                                      *)
HashAlways(t, b) ==
  /\ pc[t] = "idle" /\ backtrace[b] # Unused
  /\ target' = [target EXCEPT ![t] = b]
  /\ pc' = [pc EXCEPT ![t] = "clear"]
  /\ UNCHANGED <<taken, backtrace, i, unMult, sum, copy>>

(* StackInvestHashOfTheStack is called and reads the flag.                 *)
Hash(t, b) ==
  /\ pc[t] = "idle" /\ backtrace[b] # Unused
  /\ target' = [target EXCEPT ![t] = b]
  /\ pc' = [pc EXCEPT ![t] = IF backtrace[b].hashIsNotValid = 1 THEN "clear" ELSE "answer"]
  /\ UNCHANGED <<taken, backtrace, i, unMult, sum, copy>>

(* Mutant: the flag is lowered before the loop.                            *)
ClearLowers(t) ==
  /\ pc[t] = "clear"
  /\ pc' = [pc EXCEPT ![t] = "loop"]
  /\ i' = [i EXCEPT ![t] = 1]
  /\ unMult' = [unMult EXCEPT ![t] = 1]
  /\ sum' = [sum EXCEPT ![t] = 0]
  /\ backtrace' = [backtrace EXCEPT
       ![target[t]].hash = IF inRegister THEN @ ELSE 0, ![target[t]].hashIsNotValid = 0]
  /\ UNCHANGED <<taken, target, copy>>

(* hash = 0, with the loop's first values.                                 *)
Clear(t) ==
  /\ pc[t] = "clear"
  /\ pc' = [pc EXCEPT ![t] = "loop"]
  /\ i' = [i EXCEPT ![t] = 1]
  /\ unMult' = [unMult EXCEPT ![t] = 1]
  /\ sum' = [sum EXCEPT ![t] = 0]
  /\ backtrace' = IF inRegister THEN backtrace ELSE [backtrace EXCEPT ![target[t]].hash = 0]
  /\ UNCHANGED <<taken, target, copy>>

InLoop(t) == i[t] <= Len(backtrace[target[t]].frames)

(* A round loads the hash ...                                              *)
Load(t) ==
  /\ pc[t] = "loop" /\ InLoop(t)
  /\ pc' = [pc EXCEPT ![t] = "add"]
  /\ sum' = IF inRegister THEN sum ELSE [sum EXCEPT ![t] = backtrace[target[t]].hash]
  /\ UNCHANGED <<taken, backtrace, target, i, unMult, copy>>

(* ... and stores it with the frame added.                                 *)
Add(t) ==
  /\ pc[t] = "add"
  /\ pc' = [pc EXCEPT ![t] = "loop"]
  /\ sum' = [sum EXCEPT ![t] = Accumulated(@, backtrace[target[t]].frames[i[t]], unMult[t])]
  /\ backtrace' = IF inRegister THEN backtrace
                  ELSE [backtrace EXCEPT ![target[t]].hash = sum'[t]]
  /\ unMult' = [unMult EXCEPT ![t] = NextMult(@)]
  /\ i' = [i EXCEPT ![t] = @ + 1]
  /\ UNCHANGED <<taken, target, copy>>

(* The register is stored, before or after the flag.                       *)
Store(t) ==
  /\ inRegister
  /\ \/ pc[t] = "loop" /\ ~InLoop(t) /\ pc' = [pc EXCEPT ![t] = "lower"]
     \/ pc[t] = "store" /\ pc' = [pc EXCEPT ![t] = "answer"]
  /\ backtrace' = [backtrace EXCEPT ![target[t]].hash = sum[t]]
  /\ UNCHANGED <<taken, locals>>

(* hashIsNotValid = 0                                                      *)
Lower(t) ==
  /\ \/ /\ pc[t] = "loop" /\ ~InLoop(t)
        /\ pc' = [pc EXCEPT ![t] = IF inRegister THEN "store" ELSE "answer"]
     \/ pc[t] = "lower" /\ pc' = [pc EXCEPT ![t] = "answer"]
  /\ backtrace' = [backtrace EXCEPT ![target[t]].hashIsNotValid = 0]
  /\ UNCHANGED <<taken, locals>>

(* return hash: the register, where it was computed there.                 *)
Answered(t) == IF inRegister /\ i[t] > 0 THEN sum[t] ELSE backtrace[target[t]].hash

Answer(t) ==
  /\ pc[t] = "answer"
  /\ Return(t)
  /\ UNCHANGED <<taken, backtrace>>

(* StackInvestCloneBackTrace.  The hash and the flag are read one after    *)
(* the other, in any order; the frames are never written.                  *)
Clone(t, from) ==
  /\ pc[t] = "idle" /\ backtrace[from] # Unused
  /\ pc' = [pc EXCEPT ![t] = "clone"]
  /\ target' = [target EXCEPT ![t] = from]
  /\ UNCHANGED <<taken, backtrace, i, unMult, sum, copy>>

CopyMember(t) ==
  /\ pc[t] = "clone"
  /\ \E member \in DOMAIN NoCopy :
       /\ copy[t][member] = NotYet
       /\ copy' = [copy EXCEPT ![t][member] = backtrace[target[t]][member]]
  /\ UNCHANGED <<taken, backtrace, pc, target, i, unMult, sum>>

(* Mutant: a member of the clone is left as malloc gave it.                *)
ClonedForgetsMember(t, b) ==
  /\ pc[t] = "clone" /\ backtrace[b] = Unused
  /\ Return(t)
  /\ taken' = [taken EXCEPT ![b] = taken[target[t]]]
  /\ backtrace' = [backtrace EXCEPT
       ![b] = [frames |-> backtrace[target[t]].frames,
               hash |-> copy[t].hash, hashIsNotValid |-> copy[t].hashIsNotValid]]

(* The clone is returned, at the address b.                                *)
Cloned(t, b) ==
  /\ pc[t] = "clone" /\ backtrace[b] = Unused
  /\ \A member \in DOMAIN NoCopy : copy[t][member] # NotYet
  /\ Return(t)
  /\ taken' = [taken EXCEPT ![b] = taken[target[t]]]
  /\ backtrace' = [backtrace EXCEPT
       ![b] = [frames |-> backtrace[target[t]].frames,
               hash |-> copy[t].hash, hashIsNotValid |-> copy[t].hashIsNotValid]]

-----------------------------------------------------------------------------
(* t is between reading a raised flag and the last of its stores.          *)
Computing(t) == pc[t] \in {"clear", "loop", "add", "store", "lower"}

(* Two threads add up the hash of b in memory, into each other's sum.      *)
Contended(b) ==
  /\ ~inRegister
  /\ \E t, u \in Threads :
       t # u /\ Computing(t) /\ Computing(u) /\ target[t] = b /\ target[u] = b

(* t clones a backtrace while its hash is computed, or one that was raced. *)
Tears(t) ==
  /\ pc[t] = "clone"
  /\ \/ target[t] \in raced
     \/ \E u \in Threads : Computing(u) /\ target[u] = target[t]

(* A torn clone that claims a valid hash is put at b.                      *)
TornClone(b) == \E t \in torn : copy[t].hashIsNotValid = 0 /\ Cloned(t, b)

Next ==
  /\ UNCHANGED inRegister
  /\ \/ \E b \in Backtraces, s \in Stacks, k \in Skips : Capture(b, s, k)
     \/ \E t \in Threads :
          \/ Clear(t) \/ Load(t) \/ Add(t) \/ Store(t) \/ Lower(t) \/ Answer(t)
          \/ CopyMember(t)
          \/ \E b \in Backtraces : Hash(t, b) \/ Clone(t, b) \/ Cloned(t, b)
  /\ raced' = raced \cup {b \in Backtraces : Contended(b)' \/ TornClone(b)}
  /\ torn' = {t \in Threads : pc'[t] = "clone" /\ (t \in torn \/ Tears(t)')}

Spec == Init /\ [][Next]_vars

-----------------------------------------------------------------------------
TypeOK ==
  /\ inRegister \in BOOLEAN /\ raced \subseteq Backtraces /\ torn \subseteq Threads
  /\ backtrace \in [Backtraces -> Backtrace \cup {Unused}]
  /\ taken \in [Backtraces -> [stack : Stacks, skip : Skips] \cup {Unused}]
  /\ pc \in [Threads -> {"idle", "clear", "loop", "add", "store", "lower", "answer", "clone"}]
  /\ target \in [Threads -> Backtraces \cup {Unused}]
  /\ i \in [Threads -> Nat]
  /\ unMult \in [Threads -> Words] /\ sum \in [Threads -> Words]
  /\ copy \in [Threads -> [hash : Words \cup {NotYet}, hashIsNotValid : {0, 1, NotYet}]]

InUse == {b \in Backtraces : backtrace[b] # Unused}

(* The flag is down and no call is still storing.                          *)
Settled(b) ==
  /\ b \in InUse /\ backtrace[b].hashIsNotValid = 0
  /\ \A t \in Threads : Computing(t) => target[t] # b

(* A capture that skips fewer frames than the stack has keeps the frames   *)
(* of the caller and outwards, the first of them when there are too many:  *)
(* none is missing and none is made up.  Otherwise, or with a negative     *)
(* skip, nothing is said of the frames, some of which then come from       *)
(* memory that is not the capture's or was never written.                  *)
CaptureIsCallers ==
  \A b \in InUse :
    LET s == taken[b].stack
        k == taken[b].skip
        n == IF Len(s) - k > MaxSymbols THEN MaxSymbols ELSE Len(s) - k
    IN k \in 0..(Len(s) - 1) => backtrace[b].frames = SubSeq(s, k + 1, k + n)

(* A capture reads outside ppBuffer only with a negative skip, or when it  *)
(* skips the whole of a stack that is deeper than the room for frames.     *)
CopyStaysInside ==
  \A b \in InUse :
    ReadsOutside(taken[b].stack, taken[b].skip) =>
      \/ taken[b].skip < 0
      \/ taken[b].skip >= Len(taken[b].stack) /\ Len(taken[b].stack) > MaxSymbols

(* The powers of the multiplier in exact numbers, up to the first of them  *)
(* that is 0 in a word.                                                    *)
Power[k \in 0..Significant] == IF k = 0 THEN 1 ELSE Power[k - 1] * Multiplier

ASSUME SignificantAssumption == Power[Significant] % Word = 0

(* The frames that the hash depends on: the wrapping multiplier has come   *)
(* to ignore the others.                                                   *)
Counted(frames) == IF Len(frames) > Significant THEN Significant ELSE Len(frames)

(* What the first k frames add up to in exact numbers, and the hash.       *)
Exact(frames) ==
  LET exact[k \in 0..Counted(frames)] ==
        IF k = 0 THEN 0 ELSE exact[k - 1] + frames[k] * Power[k - 1]
  IN exact

HashOf(frames) == Exact(frames)[Counted(frames)] % Word

(* Somebody has lowered the flag of b and has the hash still to store.     *)
StoreToCome(b) == \E t \in Threads : pc[t] = "store" /\ target[t] = b

(* The hash of a backtrace is that of its frames once it has settled, on   *)
(* clones and whatever memory held before, unless two computations of it   *)
(* met in memory or it is a clone, made while a computation ran, that      *)
(* claims a valid hash.  So is every answer of a call that computed it in  *)
(* a register, whoever else did, and of one that found the flag down, with *)
(* the same exceptions and while no other call has its store to come.      *)
HashRightUnlessRaced ==
  /\ \A b \in InUse \ raced :
       Settled(b) => backtrace[b].hash = HashOf(backtrace[b].frames)
  /\ \A t \in Threads :
       /\ pc[t] = "answer"
       /\ (inRegister /\ i[t] > 0) \/ (target[t] \notin raced /\ ~StoreToCome(target[t]))
       => Answered(t) = HashOf(backtrace[target[t]].frames)

(* Once the flag of a hash is down and nobody is storing, it stays as it   *)
(* is, right or wrong, whatever runs: all later calls agree, and a program *)
(* that hashes a backtrace before it shares it is safe.                    *)
HashSettles ==
  [][\A b \in Backtraces : Settled(b) => Settled(b)' /\ backtrace'[b] = backtrace[b]]_vars
=============================================================================
