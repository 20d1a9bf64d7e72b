-------------------------- MODULE DwarfCacheProofs --------------------------
(***************************************************************************)
(* Proofs about DwarfCache for every set of threads, every set of          *)
(* binaries and every number of calls.                                     *)
(***************************************************************************)
EXTENDS DwarfCache, TLAPS

(* s_pDwarfMutex is held exactly by the threads between its lock and       *)
(* unlock calls, and a writer excludes readers.                            *)
LockInv ==
  /\ writer # Null => readers = {}
  /\ \A t \in Threads : t \in readers <=> pc[t] \in {"find", "rdunlock"}
  /\ \A t \in Threads : writer = t <=> pc[t] \in {"add", "wrunlock"}

(* What each thread's locals mean at each step of its call: in particular  *)
(* a pointer taken from the table is still the table's.                    *)
CallInv ==
  \A t \in Threads :
    /\ pc[t] = "idle" <=> binFile[t] = Null
    /\ pc[t] \in {"rdunlock", "load"} /\ item[t] # Null => item[t] = table[binFile[t]]
    /\ pc[t] = "load" => item[t] # Null
    /\ pc[t] \in {"wrlock", "add"} => entry[t] \in Entry /\ entry[t].module = binFile[t]
    /\ pc[t] = "wrunlock" /\ item[t] # Null =>
         entry[t] = item[t] /\ item[t] = table[binFile[t]]
    /\ pc[t] = "details" => entry[t] # Null /\ entry[t] = table[binFile[t]]

(* The table files every entry under the binary it describes.              *)
TableInv == \A m \in Modules : table[m] # Null => table[m].module = m

IInv == TypeOK /\ LockInv /\ CallInv /\ TableInv

(* When insertions cannot fail: a refusal means that the binary is         *)
(* published, an entry is published or on its way to be, and a thread that *)
(* is about to build a binary's entry has built none before.               *)
RefusalInv ==
  \A t \in Threads :
    /\ pc[t] \in {"create", "wrlock", "add", "wrunlock"} => ~refused[t]
    /\ pc[t] = "wrunlock" /\ item[t] = Null => table[binFile[t]] # Null
    /\ refused[t] => pc[t] # "idle" /\ table[binFile[t]] # Null

BuildInv ==
  /\ \A e \in built :
       table[e.module] # Null \/ (pc[e.by] \in {"wrlock", "add"} /\ entry[e.by] = e)
  /\ \A t \in Threads :
       pc[t] = "create" \/ (pc[t] = "rdunlock" /\ item[t] = Null) =>
         \A e \in built : e.by = t => e.module # binFile[t]

ReliableInv == IInv /\ RefusalInv /\ RefusedFindsWinner /\ BuildInv /\ BuiltOncePerThread

-----------------------------------------------------------------------------
(* Every step of the process is one of these; each proof below has one     *)
(* step per case.                                                          *)
LEMMA StepCases ==
  ASSUME [Next]_vars
  PROVE  \/ Initialize \/ CleanupTable \/ CleanupMutex \/ UNCHANGED vars
         \/ \E t \in Threads :
              \/ Call(t) \/ RdLock(t) \/ Find(t) \/ RdUnlock(t) \/ Load(t) \/ Create(t)
              \/ WrLock(t) \/ Add(t) \/ WrUnlock(t) \/ Details(t) \/ UseDestroyed(t)
  BY Zenon DEF Next, ThreadStep

(* CreateDwarfEntryForModule either gives up, or the thread holds a new    *)
(* entry for its binary.                                                   *)
LEMMA CreateCases ==
  ASSUME TypeOK, CallInv, NEW t \in Threads, Create(t)
  PROVE  /\ UNCHANGED <<process, readers, writer, table, calls>>
         /\ pc[t] = "create"
         /\ \/ Return(t, "error") /\ UNCHANGED built
            \/ \E e \in Entry :
                 /\ e.module = binFile[t] /\ e.by = t
                 /\ built' = built \cup {e}
                 /\ entry' = [entry EXCEPT ![t] = e]
                 /\ pc' = [pc EXCEPT ![t] = "wrlock"]
                 /\ UNCHANGED <<binFile, item, refused, result>>
<1>1. binFile[t] \in Modules /\ calls[t] \in Nat
  BY CallsAssumption DEF TypeOK, CallInv, Create
<1>2. ASSUME NEW d \in {"none", "empty", "lines"}
      PROVE  [module |-> binFile[t], by |-> t, call |-> calls[t], debug |-> d] \in Entry
  BY <1>1 DEF Entry
<1>3. QED
  BY <1>2 DEF Create

(* Every variable keeps its type in every step.  A thread inside its call  *)
(* has a binary, so what it reads at that key is an entry or Null.         *)
LEMMA TypeStep ==
  ASSUME TypeOK, CallInv, [Next]_vars
  PROVE  TypeOK'
<1>0. \A t \in Threads : pc[t] # "idle" => binFile[t] \in Modules
  BY DEF TypeOK, CallInv
<1> USE CallsAssumption DEF TypeOK, Slot, Phases, Steps, locals
<1>1. CASE Initialize
  BY <1>1 DEF Initialize
<1>2. CASE CleanupTable
  BY <1>2 DEF CleanupTable
<1>3. CASE CleanupMutex
  BY <1>3 DEF CleanupMutex
<1>4. ASSUME NEW t \in Threads, Call(t)
      PROVE  TypeOK'
  BY <1>4 DEF Call, Goto
<1>5. ASSUME NEW t \in Threads, RdLock(t)
      PROVE  TypeOK'
  BY <1>5 DEF RdLock, Goto
<1>6. ASSUME NEW t \in Threads, Find(t)
      PROVE  TypeOK'
  BY <1>0, <1>6 DEF Find, Goto
<1>7. ASSUME NEW t \in Threads, RdUnlock(t)
      PROVE  TypeOK'
  BY <1>7 DEF RdUnlock, Return
<1>8. ASSUME NEW t \in Threads, Load(t)
      PROVE  TypeOK'
  BY <1>8 DEF Load, Goto
<1>9. ASSUME NEW t \in Threads, Create(t)
      PROVE  TypeOK'
  <2>1. CASE Return(t, "error") /\ UNCHANGED built
    BY <1>9, <2>1, CreateCases DEF Return
  <2>2. ASSUME NEW e \in Entry,
               built' = built \cup {e},
               entry' = [entry EXCEPT ![t] = e],
               pc' = [pc EXCEPT ![t] = "wrlock"],
               UNCHANGED <<binFile, item, refused, result>>
        PROVE  TypeOK'
    BY <1>9, <2>2, CreateCases
  <2>3. QED
    BY <1>9, <2>1, <2>2, CreateCases
<1>10. ASSUME NEW t \in Threads, WrLock(t)
       PROVE  TypeOK'
  BY <1>10 DEF WrLock, Goto
<1>11. ASSUME NEW t \in Threads, Add(t)
       PROVE  TypeOK'
  BY <1>11 DEF Add, Goto
<1>12. ASSUME NEW t \in Threads, WrUnlock(t)
       PROVE  TypeOK'
  BY <1>12 DEF WrUnlock
<1>13. ASSUME NEW t \in Threads, Details(t)
       PROVE  TypeOK'
  BY <1>13 DEF Details, Return, Verdict
<1>14. ASSUME NEW t \in Threads, UseDestroyed(t)
       PROVE  TypeOK'
  BY <1>14 DEF UseDestroyed
<1>15. CASE UNCHANGED vars
  BY <1>15 DEF vars
<1>16. QED
  BY <1>1, <1>2, <1>3, <1>4, <1>5, <1>6, <1>7, <1>8, <1>9, <1>10, <1>11, <1>12, <1>13,
     <1>14, <1>15, StepCases
(* The lock is taken and released as the steps say, by its holder only.    *)
LEMMA LockStep ==
  ASSUME TypeOK, LockInv, [Next]_vars
  PROVE  LockInv'
<1> USE NullAssumption DEF TypeOK, LockInv, locals, Steps
<1>1. CASE Initialize
  BY <1>1 DEF Initialize
<1>2. CASE CleanupTable
  BY <1>2 DEF CleanupTable
<1>3. CASE CleanupMutex
  BY <1>3 DEF CleanupMutex
<1>4. ASSUME NEW t \in Threads, Call(t)
      PROVE  LockInv'
  BY <1>4 DEF Call, Goto
<1>5. ASSUME NEW t \in Threads, RdLock(t)
      PROVE  LockInv'
  BY <1>5 DEF RdLock, Goto
<1>6. ASSUME NEW t \in Threads, Find(t)
      PROVE  LockInv'
  BY <1>6 DEF Find, Goto
<1>7. ASSUME NEW t \in Threads, RdUnlock(t)
      PROVE  LockInv'
  BY <1>7 DEF RdUnlock, Return
<1>8. ASSUME NEW t \in Threads, Load(t)
      PROVE  LockInv'
  BY <1>8 DEF Load, Goto
<1>9. ASSUME NEW t \in Threads, Create(t)
      PROVE  LockInv'
  BY <1>9 DEF Create, Return
<1>10. ASSUME NEW t \in Threads, WrLock(t)
       PROVE  LockInv'
  BY <1>10 DEF WrLock, Goto
<1>11. ASSUME NEW t \in Threads, Add(t)
       PROVE  LockInv'
  BY <1>11 DEF Add, Goto
<1>12. ASSUME NEW t \in Threads, WrUnlock(t)
       PROVE  LockInv'
  BY <1>12 DEF WrUnlock
<1>13. ASSUME NEW t \in Threads, Details(t)
       PROVE  LockInv'
  BY <1>13 DEF Details, Return
<1>14. ASSUME NEW t \in Threads, UseDestroyed(t)
       PROVE  LockInv'
  BY <1>14 DEF UseDestroyed
<1>15. CASE UNCHANGED vars
  BY <1>15 DEF vars
<1>16. QED
  BY <1>1, <1>2, <1>3, <1>4, <1>5, <1>6, <1>7, <1>8, <1>9, <1>10, <1>11, <1>12, <1>13, <1>14, <1>15,
     StepCases

(* Pointers into the table stay good: nothing that is in the table leaves  *)
(* it, and only the holder of the write lock adds to it.                   *)
LEMMA CallStep ==
  ASSUME IInv, [Next]_vars
  PROVE  CallInv'
<1> USE NullAssumption DEF IInv, TypeOK, CallInv, LockInv, Slot, locals, Steps
<1>1. CASE Initialize
  BY <1>1 DEF Initialize
<1>2. CASE CleanupTable
  BY <1>2 DEF CleanupTable
<1>3. CASE CleanupMutex
  BY <1>3 DEF CleanupMutex
<1>4. ASSUME NEW t \in Threads, Call(t)
      PROVE  CallInv'
  BY <1>4 DEF Call, Goto
<1>5. ASSUME NEW t \in Threads, RdLock(t)
      PROVE  CallInv'
  BY <1>5 DEF RdLock, Goto
<1>6. ASSUME NEW t \in Threads, Find(t)
      PROVE  CallInv'
  BY <1>6 DEF Find, Goto
<1>7. ASSUME NEW t \in Threads, RdUnlock(t)
      PROVE  CallInv'
  BY <1>7 DEF RdUnlock, Return
<1>8. ASSUME NEW t \in Threads, Load(t)
      PROVE  CallInv'
  BY <1>8 DEF Load, Goto
<1>9. ASSUME NEW t \in Threads, Create(t)
      PROVE  CallInv'
  BY <1>9, CreateCases DEF Return
<1>10. ASSUME NEW t \in Threads, WrLock(t)
       PROVE  CallInv'
  BY <1>10 DEF WrLock, Goto
<1>11. ASSUME NEW t \in Threads, Add(t)
       PROVE  CallInv'
  BY <1>11 DEF Add, Goto
<1>12. ASSUME NEW t \in Threads, WrUnlock(t)
       PROVE  CallInv'
  BY <1>12 DEF WrUnlock
<1>13. ASSUME NEW t \in Threads, Details(t)
       PROVE  CallInv'
  BY <1>13 DEF Details, Return
<1>14. ASSUME NEW t \in Threads, UseDestroyed(t)
       PROVE  CallInv'
  BY <1>14 DEF UseDestroyed
<1>15. CASE UNCHANGED vars
  BY <1>15 DEF vars
<1>16. QED
  BY <1>1, <1>2, <1>3, <1>4, <1>5, <1>6, <1>7, <1>8, <1>9, <1>10, <1>11, <1>12, <1>13, <1>14, <1>15,
     StepCases

LEMMA TableStep ==
  ASSUME IInv, [Next]_vars
  PROVE  TableInv'
<1> USE NullAssumption DEF IInv, TypeOK, CallInv, TableInv, Slot, locals, Steps
<1>1. CASE Initialize
  BY <1>1 DEF Initialize
<1>2. CASE CleanupTable
  BY <1>2 DEF CleanupTable
<1>3. CASE CleanupMutex
  BY <1>3 DEF CleanupMutex
<1>4. ASSUME NEW t \in Threads, Call(t)
      PROVE  TableInv'
  BY <1>4 DEF Call, Goto
<1>5. ASSUME NEW t \in Threads, RdLock(t)
      PROVE  TableInv'
  BY <1>5 DEF RdLock, Goto
<1>6. ASSUME NEW t \in Threads, Find(t)
      PROVE  TableInv'
  BY <1>6 DEF Find, Goto
<1>7. ASSUME NEW t \in Threads, RdUnlock(t)
      PROVE  TableInv'
  BY <1>7 DEF RdUnlock, Return
<1>8. ASSUME NEW t \in Threads, Load(t)
      PROVE  TableInv'
  BY <1>8 DEF Load, Goto
<1>9. ASSUME NEW t \in Threads, Create(t)
      PROVE  TableInv'
  BY <1>9 DEF Create, Return
<1>10. ASSUME NEW t \in Threads, WrLock(t)
       PROVE  TableInv'
  BY <1>10 DEF WrLock, Goto
<1>11. ASSUME NEW t \in Threads, Add(t)
       PROVE  TableInv'
  BY <1>11 DEF Add, Goto
<1>12. ASSUME NEW t \in Threads, WrUnlock(t)
       PROVE  TableInv'
  BY <1>12 DEF WrUnlock
<1>13. ASSUME NEW t \in Threads, Details(t)
       PROVE  TableInv'
  BY <1>13 DEF Details, Return
<1>14. ASSUME NEW t \in Threads, UseDestroyed(t)
       PROVE  TableInv'
  BY <1>14 DEF UseDestroyed
<1>15. CASE UNCHANGED vars
  BY <1>15 DEF vars
<1>16. QED
  BY <1>1, <1>2, <1>3, <1>4, <1>5, <1>6, <1>7, <1>8, <1>9, <1>10, <1>11, <1>12, <1>13, <1>14, <1>15,
     StepCases

LEMMA InvInit ==
  ASSUME Init
  PROVE  IInv
BY CallsAssumption, NullAssumption
   DEF Init, IInv, TypeOK, LockInv, CallInv, TableInv, Slot, Phases, Steps

LEMMA InvStep ==
  ASSUME IInv, [Next]_vars
  PROVE  IInv'
BY TypeStep, LockStep, CallStep, TableStep DEF IInv

THEOREM Invariance == Spec => []IInv
<1>1. Init => IInv
  BY InvInit
<1>2. IInv /\ [Next]_vars => IInv'
  BY InvStep
<1>3. QED
  BY <1>1, <1>2, PTL DEF Spec

-----------------------------------------------------------------------------
(* Every variable of the cache has its type in every reachable state: the  *)
(* table only ever holds module entries, under keys that are binaries.     *)
THEOREM TypeCorrect == Spec => []TypeOK
<1>1. IInv => TypeOK
  BY DEF IInv
<1>2. QED
  BY <1>1, Invariance, PTL

(* s_pDwarfMutex protects s_dwarfModulesHash for any number of threads:    *)
(* nobody is in the table while an entry is inserted.                      *)
THEOREM TableIsProtected == Spec => []TableAccessExclusive
<1>1. IInv => TableAccessExclusive
  <2> SUFFICES ASSUME IInv, NEW t \in Threads, NEW u \in Threads,
                      t # u, pc[t] = "add"
               PROVE  pc[u] \notin {"find", "add"}
    BY DEF TableAccessExclusive, TableSteps
  <2>1. writer = t /\ t # Null
    BY NullAssumption DEF IInv, LockInv
  <2>2. readers = {}
    BY <2>1 DEF IInv, LockInv
  <2>3. QED
    BY <2>1, <2>2 DEF IInv, LockInv
<1>2. QED
  BY <1>1, Invariance, PTL

(* Every answer is read from the entry the table holds for the binary,     *)
(* whichever thread built it and however many raced to.                    *)
THEOREM AnswersArePublished == Spec => []AnswersFromPublished
<1>1. IInv => AnswersFromPublished
  <2> SUFFICES ASSUME IInv, NEW t \in Threads, pc[t] = "details"
               PROVE  /\ entry[t] # Null
                      /\ entry[t] = table[binFile[t]]
                      /\ entry[t].module = binFile[t]
    BY DEF AnswersFromPublished
  <2>1. entry[t] # Null /\ entry[t] = table[binFile[t]]
    BY DEF IInv, CallInv
  <2>2. binFile[t] \in Modules
    BY DEF IInv, TypeOK, CallInv
  <2>3. QED
    BY <2>1, <2>2 DEF IInv, TableInv
<1>2. QED
  BY <1>1, Invariance, PTL

(* What is in the table stays in the table, in every step.                 *)
LEMMA TableGrows ==
  ASSUME IInv, [Next]_vars, NEW m \in Modules, table[m] # Null
  PROVE  table'[m] = table[m]
<1> USE DEF locals
<1>1. ASSUME NEW t \in Threads, Add(t)
      PROVE  table'[m] = table[m]
  BY <1>1 DEF Add, IInv, TypeOK
<1>2. CASE UNCHANGED table
  BY <1>2
<1>3. QED
  BY <1>1, <1>2, StepCases
     DEF Initialize, CleanupTable, CleanupMutex, Call, RdLock, Find, RdUnlock, Load, Create,
         WrLock, WrUnlock, Details, UseDestroyed, vars

(* No step of any thread, nor exit, replaces or withdraws an entry that    *)
(* another thread may hold a pointer to.                                   *)
THEOREM PublishedStays == Spec => PublishedForGood
<1>1. IInv /\ [Next]_vars =>
        [\A m \in Modules : table[m] # Null => table'[m] = table[m]]_vars
  BY TableGrows
<1>2. QED
  BY <1>1, Invariance, PTL DEF Spec, PublishedForGood

-----------------------------------------------------------------------------
(* A table that can always store an item: the rest of RefusalInv, then     *)
(* BuildInv.                                                               *)
LEMMA RefusalStep ==
  ASSUME ~InsertMayFail, IInv, RefusalInv, RefusedFindsWinner, [Next]_vars
  PROVE  RefusalInv' /\ RefusedFindsWinner'
<1> USE NullAssumption
    DEF IInv, TypeOK, CallInv, LockInv, RefusalInv, RefusedFindsWinner, locals, Steps, Slot
<1>1. CASE Initialize
  BY <1>1 DEF Initialize
<1>2. CASE CleanupTable
  BY <1>2 DEF CleanupTable
<1>3. CASE CleanupMutex
  BY <1>3 DEF CleanupMutex
<1>4. ASSUME NEW t \in Threads, Call(t)
      PROVE  RefusalInv' /\ RefusedFindsWinner'
  BY <1>4 DEF Call, Goto
<1>5. ASSUME NEW t \in Threads, RdLock(t)
      PROVE  RefusalInv' /\ RefusedFindsWinner'
  BY <1>5 DEF RdLock, Goto
<1>6. ASSUME NEW t \in Threads, Find(t)
      PROVE  RefusalInv' /\ RefusedFindsWinner'
  BY <1>6 DEF Find, Goto
<1>7. ASSUME NEW t \in Threads, RdUnlock(t)
      PROVE  RefusalInv' /\ RefusedFindsWinner'
  BY <1>7 DEF RdUnlock, Return
<1>8. ASSUME NEW t \in Threads, Load(t)
      PROVE  RefusalInv' /\ RefusedFindsWinner'
  BY <1>8 DEF Load, Goto
<1>9. ASSUME NEW t \in Threads, Create(t)
      PROVE  RefusalInv' /\ RefusedFindsWinner'
  BY <1>9 DEF Create, Return
<1>10. ASSUME NEW t \in Threads, WrLock(t)
       PROVE  RefusalInv' /\ RefusedFindsWinner'
  BY <1>10 DEF WrLock, Goto
<1>11. ASSUME NEW t \in Threads, Add(t)
       PROVE  RefusalInv' /\ RefusedFindsWinner'
  BY <1>11 DEF Add, Goto
<1>12. ASSUME NEW t \in Threads, WrUnlock(t)
       PROVE  RefusalInv' /\ RefusedFindsWinner'
  BY <1>12 DEF WrUnlock
<1>13. ASSUME NEW t \in Threads, Details(t)
       PROVE  RefusalInv' /\ RefusedFindsWinner'
  BY <1>13 DEF Details, Return
<1>14. ASSUME NEW t \in Threads, UseDestroyed(t)
       PROVE  RefusalInv' /\ RefusedFindsWinner'
  BY <1>14 DEF UseDestroyed
<1>15. CASE UNCHANGED vars
  BY <1>15 DEF vars
<1>16. QED
  BY <1>1, <1>2, <1>3, <1>4, <1>5, <1>6, <1>7, <1>8, <1>9, <1>10, <1>11, <1>12, <1>13, <1>14, <1>15,
     StepCases

LEMMA BuildStep ==
  ASSUME ~InsertMayFail, IInv, RefusalInv, RefusedFindsWinner, BuildInv, [Next]_vars
  PROVE  BuildInv'
<1> USE NullAssumption DEF IInv, TypeOK, CallInv, LockInv, TableInv, RefusalInv,
      RefusedFindsWinner, BuildInv, Entry, Slot, locals, Steps
<1>1. CASE Initialize
  BY <1>1 DEF Initialize
<1>2. CASE CleanupTable
  BY <1>2 DEF CleanupTable
<1>3. CASE CleanupMutex
  BY <1>3 DEF CleanupMutex
<1>4. ASSUME NEW t \in Threads, Call(t)
      PROVE  BuildInv'
  BY <1>4 DEF Call, Goto
<1>5. ASSUME NEW t \in Threads, RdLock(t)
      PROVE  BuildInv'
  BY <1>5 DEF RdLock, Goto
<1>6. ASSUME NEW t \in Threads, Find(t)
      PROVE  BuildInv'
  BY <1>6 DEF Find, Goto
<1>7. ASSUME NEW t \in Threads, RdUnlock(t)
      PROVE  BuildInv'
  BY <1>7 DEF RdUnlock, Return
<1>8. ASSUME NEW t \in Threads, Load(t)
      PROVE  BuildInv'
  BY <1>8 DEF Load, Goto
<1>9. ASSUME NEW t \in Threads, Create(t)
      PROVE  BuildInv'
  BY <1>9, CreateCases DEF Return
<1>10. ASSUME NEW t \in Threads, WrLock(t)
       PROVE  BuildInv'
  BY <1>10 DEF WrLock, Goto
<1>11. ASSUME NEW t \in Threads, Add(t)
       PROVE  BuildInv'
  BY <1>11 DEF Add, Goto
<1>12. ASSUME NEW t \in Threads, WrUnlock(t)
       PROVE  BuildInv'
  BY <1>12 DEF WrUnlock
<1>13. ASSUME NEW t \in Threads, Details(t)
       PROVE  BuildInv'
  BY <1>13 DEF Details, Return
<1>14. ASSUME NEW t \in Threads, UseDestroyed(t)
       PROVE  BuildInv'
  BY <1>14 DEF UseDestroyed
<1>15. CASE UNCHANGED vars
  BY <1>15 DEF vars
<1>16. QED
  BY <1>1, <1>2, <1>3, <1>4, <1>5, <1>6, <1>7, <1>8, <1>9, <1>10, <1>11, <1>12, <1>13, <1>14, <1>15,
     StepCases

LEMMA BuiltOnceStep ==
  ASSUME ~InsertMayFail, ReliableInv, [Next]_vars
  PROVE  BuiltOncePerThread'
<1>1. ASSUME NEW t \in Threads, Create(t)
      PROVE  BuiltOncePerThread'
  <2>1. CASE UNCHANGED built
    BY <2>1 DEF ReliableInv, BuiltOncePerThread
  <2>2. ASSUME NEW e \in Entry, e.module = binFile[t], e.by = t, built' = built \cup {e}
        PROVE  BuiltOncePerThread'
    <3>1. \A f \in built : f.by = t => f.module # binFile[t]
      BY <1>1 DEF ReliableInv, BuildInv, Create
    <3>2. QED
      BY <2>2, <3>1 DEF ReliableInv, BuiltOncePerThread
  <2>3. QED
    BY <1>1, <2>1, <2>2, CreateCases DEF ReliableInv, IInv
<1>2. CASE UNCHANGED built
  BY <1>2 DEF ReliableInv, BuiltOncePerThread
<1>3. QED
  BY <1>1, <1>2, StepCases
     DEF Initialize, CleanupTable, CleanupMutex, Call, RdLock, Find, RdUnlock, Load,
         WrLock, Add, WrUnlock, Details, UseDestroyed, vars, locals

LEMMA ReliableInvariance ==
  ASSUME ~InsertMayFail
  PROVE  Spec => []ReliableInv
<1>1. Init => ReliableInv
  BY InvInit DEF Init, ReliableInv, RefusalInv, RefusedFindsWinner, BuildInv, BuiltOncePerThread
<1>2. ReliableInv /\ [Next]_vars => ReliableInv'
  BY InvStep, RefusalStep, BuildStep, BuiltOnceStep DEF ReliableInv
<1>3. QED
  BY <1>1, <1>2, PTL DEF Spec

(* With a table that can always store an item, a thread parses a binary's  *)
(* debug info at most once, however many threads race for it.              *)
THEOREM ParsedOnce ==
  ASSUME ~InsertMayFail
  PROVE  Spec => []BuiltOncePerThread
<1>1. ReliableInv => BuiltOncePerThread
  BY DEF ReliableInv
<1>2. QED
  BY <1>1, ReliableInvariance, PTL

(* With such a table the comments of the refused path are right: a refused *)
(* thread finds the winner's entry, the second return of 1 is unreachable. *)
THEOREM RefusalIsALostRace ==
  ASSUME ~InsertMayFail
  PROVE  Spec => []RefusedFindsWinner
<1>1. ReliableInv => RefusedFindsWinner
  BY DEF ReliableInv
<1>2. QED
  BY <1>1, ReliableInvariance, PTL

-----------------------------------------------------------------------------
(* The refinement.  The binary of an insertion is decided, an answer is    *)
(* the verdict of the published entry, and every other step is invisible.  *)
LEMMA RefinementInit ==
  ASSUME Init
  PROVE  Service!Init
BY DEF Init, Service!Init

LEMMA RefinementStep ==
  ASSUME IInv, [Next]_vars
  PROVE  [Service!Next]_(Service!vars)
<1> DEFINE bar(T) == [m \in Modules |-> IF T[m] = Null THEN "undecided" ELSE Verdict(T[m])]
<1> SUFFICES ASSUME Next
             PROVE  Service!Next \/ UNCHANGED <<bar(table), binFile, result>>
  BY DEF Service!vars, vars, locals
<1>1. ASSUME NEW t \in Threads, Call(t)
      PROVE  Service!Ask(t)
  BY <1>1 DEF Call, Goto, Service!Ask, IInv, TypeOK, CallInv
<1>2. ASSUME NEW t \in Threads, RdUnlock(t)
      PROVE  Service!Reply(t) \/ UNCHANGED <<bar(table), binFile, result>>
  BY <1>2 DEF RdUnlock, Return, Service!Reply, IInv, TypeOK, CallInv
<1>3. ASSUME NEW t \in Threads, Create(t)
      PROVE  Service!Reply(t) \/ UNCHANGED <<bar(table), binFile, result>>
  BY <1>3, CreateCases DEF Return, Service!Reply, IInv, CallInv
<1>4. ASSUME NEW t \in Threads, Add(t)
      PROVE  Service!Decide(t) \/ UNCHANGED <<bar(table), binFile, result>>
  <2>1. CASE UNCHANGED table
    BY <1>4, <2>1 DEF Add
  <2>2. CASE /\ table[binFile[t]] = Null
             /\ table' = [table EXCEPT ![binFile[t]] = entry[t]]
    <3>1. binFile[t] \in Modules /\ entry[t] \in Entry /\ entry[t] # Null
      BY <1>4, NullAssumption DEF Add, Goto, IInv, TypeOK, CallInv
    <3>2. Verdict(entry[t]) \in {"named", "unknown"}
      BY DEF Verdict
    <3>3. bar(table)[binFile[t]] = "undecided"
      BY <2>2, <3>1
    <3>4. bar(table') = [bar(table) EXCEPT ![binFile[t]] = Verdict(entry[t])]
      BY <2>2, <3>1 DEF IInv, TypeOK
    <3>5. QED
      BY <1>4, <3>1, <3>2, <3>3, <3>4, NullAssumption DEF Add, Goto, Service!Decide
  <2>3. QED
    BY <1>4, <2>1, <2>2 DEF Add
<1>5. ASSUME NEW t \in Threads, Details(t)
      PROVE  Service!Reply(t)
  <2>1. binFile[t] \in Modules /\ entry[t] # Null /\ entry[t] = table[binFile[t]]
    BY <1>5 DEF Details, IInv, TypeOK, CallInv
  <2>2. bar(table)[binFile[t]] = Verdict(entry[t]) /\ Verdict(entry[t]) # "undecided"
    BY <2>1 DEF Verdict
  <2>3. QED
    BY <1>5, <2>1, <2>2, NullAssumption DEF Details, Return, Service!Reply
<1>6. CASE UNCHANGED <<table, binFile, result>>
  BY <1>6
<1>7. QED
  BY <1>1, <1>2, <1>3, <1>4, <1>5, <1>6, StepCases
     DEF Service!Next, Initialize, CleanupTable, CleanupMutex, RdLock, Find, Load,
         WrLock, WrUnlock, UseDestroyed, vars, locals, Goto

(* The cache implements AddrToDetails: races, failures and exit included,  *)
(* a binary is decided once and every successful answer is that decision.  *)
THEOREM Refinement == Spec => ImplementsAddrToDetails
<1>1. Init => Service!Init
  BY RefinementInit
<1>2. IInv /\ [Next]_vars => [Service!Next]_(Service!vars)
  BY RefinementStep
<1>3. QED
  BY <1>1, <1>2, Invariance, PTL DEF Spec, ImplementsAddrToDetails, Service!Spec
=============================================================================
