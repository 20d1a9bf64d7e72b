---------------------------- MODULE AddrToDetails ----------------------------
(***************************************************************************)
(* What StackInvestDetailsFromFrameAddress_Dwarf promises its callers,     *)
(* without locks, tables or line vectors: for each binary the process      *)
(* decides once whether its frames can be named, and every call that       *)
(* succeeds is answered according to that one decision.  DwarfCache        *)
(* implements this specification.                                          *)
(***************************************************************************)
CONSTANTS
  Threads,   \* threads that translate frames
  Modules,   \* binaries (the text of a_pStack->binFile)
  Null       \* no binary is being asked about

VARIABLES
  verdict,   \* per binary: "undecided", "named" or "unknown"
  request,   \* per thread: the binary its call is about, or Null
  answer     \* per thread: how its last call ended

vars == <<verdict, request, answer>>

Init ==
  /\ verdict = [m \in Modules |-> "undecided"]
  /\ request = [t \in Threads |-> Null]
  /\ answer  = [t \in Threads |-> "none"]

Ask(t) ==
  /\ request[t] = Null
  /\ \E m \in Modules : request' = [request EXCEPT ![t] = m]
  /\ answer' = [answer EXCEPT ![t] = "none"]
  /\ UNCHANGED verdict

(* A binary's verdict is fixed by one of the calls that ask about it.      *)
Decide(t) ==
  /\ request[t] # Null
  /\ verdict[request[t]] = "undecided"
  /\ \E v \in {"named", "unknown"} : verdict' = [verdict EXCEPT ![request[t]] = v]
  /\ UNCHANGED <<request, answer>>

(* A call that succeeds reports the verdict; one that runs out of memory   *)
(* reports an error and decides nothing.                                   *)
Reply(t) ==
  /\ request[t] # Null
  /\ \/ /\ verdict[request[t]] # "undecided"
        /\ answer' = [answer EXCEPT ![t] = verdict[request[t]]]
     \/ answer' = [answer EXCEPT ![t] = "error"]
  /\ request' = [request EXCEPT ![t] = Null]
  /\ UNCHANGED verdict

Next == \E t \in Threads : Ask(t) \/ Decide(t) \/ Reply(t)

Spec == Init /\ [][Next]_vars
=============================================================================
