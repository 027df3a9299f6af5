---------------------------- MODULE JsonStoreProofs ----------------------------
(***************************************************************************)
(* Proofs about JsonStore, for any number of goroutines, sweepers, methods *)
(* and changes, and any number of crashes and disk errors.                 *)
(***************************************************************************)
EXTENDS JsonStore, TLAPS

LEMMA Names ==
  /\ Main \in Goroutines /\ Nobody \notin Goroutines
  /\ \A p \in Callers : p \in Goroutines /\ p # Main
  /\ \A p \in Sweepers : p \in Goroutines /\ p # Main
  /\ Methods \subseteq AllMethods
  BY ProcessAssumption, StoreAssumption DEF Goroutines

LEMMA InitStoreInv == Init => StoreInv
  BY Names DEF Init, StoreInv, TypeOK, SnapshotIsCurrent, ChangeIsApplied,
    AnsweredIsDurable, Stages, Statuses, Changes

\* A step that leaves data, lock and saves in progress alone, and moves p at
\* most between the stages outside a save.
LEMMA MoveStep ==
  ASSUME StoreInv, NEW p \in Goroutines, pc[p] \in {"idle", "lock"},
         NEW s \in {"idle", "lock", "done"}, pc' = [pc EXCEPT ![p] = s],
         mem' = mem, file' = file, writer' = writer, answered' = answered,
         \A q \in Goroutines \ {p} : snap'[q] = snap[q] /\ torn'[q] = torn[q] /\ change'[q] = change[q],
         TypeOK'
  PROVE  StoreInv'
  BY Names DEF StoreInv, TypeOK, SnapshotIsCurrent, ChangeIsApplied, AnsweredIsDurable

LEMMA BeginStep ==
  ASSUME StoreInv, NEW p \in Goroutines,
         Request(p) \/ TickerFires(p) \/ StopSweeper(p) \/ Read(p) \/ NothingToDo(p)
  PROVE  StoreInv'
<1>1. CASE \E m \in AllMethods : Enter(p, m)
  <2>1. PICK m \in AllMethods : Enter(p, m)
    BY <1>1
  <2>2. TypeOK'
    BY <2>1 DEF StoreInv, TypeOK, Enter, store, history, Stages
  <2>. QED
    BY <2>1, <2>2, MoveStep DEF Enter, store, history
<1>2. CASE StopSweeper(p)
  <2>1. TypeOK'
    BY <1>2 DEF StoreInv, TypeOK, StopSweeper, store, history, Stages
  <2>. QED
    BY <1>2, <2>1, MoveStep DEF StopSweeper, store, history
<1>3. CASE Read(p) \/ NothingToDo(p)
  <2>1. pc[p] = "lock" /\ Return(p)
        /\ UNCHANGED <<store, writer, history, status, faults>>
    BY <1>3 DEF Read, NothingToDo
  <2>2. TypeOK'
    BY <2>1 DEF StoreInv, TypeOK, Return, store, history, Stages, Changes
  <2>3. PICK s \in {"idle", "lock", "done"} : pc' = [pc EXCEPT ![p] = s]
    BY <2>1 DEF Return
  <2>. QED
    BY <2>1, <2>2, <2>3, MoveStep DEF StoreInv, TypeOK, Return, store, history
<1>. QED
  BY <1>1, <1>2, <1>3, Names DEF Request, TickerFires

\* While the lock is free nobody is between the marshalling and the rename.
LEMMA NobodyWrites ==
  ASSUME StoreInv, Free
  PROVE  \A q \in Goroutines : pc[q] \notin {"write", "rename"}
  BY Names DEF StoreInv, SnapshotIsCurrent, Free

LEMMA ChangeStep ==
  ASSUME StoreInv, NEW p \in Goroutines,
         ChangeThenSave(p) \/ ChangeAndHold(p) \/ ChangeUnderLock(p)
  PROVE  StoreInv'
<1>1. Apply(p) /\ Free
  BY DEF ChangeThenSave, ChangeAndHold, ChangeUnderLock, Apply
<1>2. \A q \in Goroutines : pc[q] \notin {"write", "rename"}
  BY <1>1, NobodyWrites
<1>3. issued + 1 \in mem' /\ mem \subseteq mem' /\ mem' \in SUBSET Changes
  BY <1>1 DEF Apply, StoreInv, TypeOK, Changes
<1>4. TypeOK'
  <2>1. CASE ChangeThenSave(p)
    BY <1>1, <1>3, <2>1 DEF StoreInv, TypeOK, Apply, ChangeThenSave, Stages, Changes
  <2>2. CASE ChangeAndHold(p)
    BY <1>1, <1>3, <2>2 DEF StoreInv, TypeOK, Apply, ChangeAndHold, Stages, Changes
  <2>3. CASE ChangeUnderLock(p)
    BY <1>1, <1>3, <2>3 DEF StoreInv, TypeOK, Apply, ChangeUnderLock, Stages, Changes
  <2>. QED
    BY <2>1, <2>2, <2>3
<1>5. SnapshotIsCurrent'
  <2>1. CASE ChangeThenSave(p)
    BY <1>2, <2>1 DEF StoreInv, TypeOK, ChangeThenSave, SnapshotIsCurrent
  <2>2. CASE ChangeAndHold(p)
    BY <1>2, <2>2 DEF StoreInv, TypeOK, ChangeAndHold, SnapshotIsCurrent
  <2>3. CASE ChangeUnderLock(p)
    BY <1>2, <2>3 DEF StoreInv, TypeOK, ChangeUnderLock, SnapshotIsCurrent
  <2>. QED
    BY <2>1, <2>2, <2>3
<1>6. ChangeIsApplied'
  <2>1. \A q \in Goroutines \ {p} : pc'[q] = pc[q] /\ change'[q] = change[q]
    BY <1>1 DEF StoreInv, TypeOK, Apply, ChangeThenSave, ChangeAndHold, ChangeUnderLock
  <2>2. change'[p] = issued + 1
    BY <1>1 DEF StoreInv, TypeOK, Apply
  <2>. QED
    BY <1>3, <2>1, <2>2, Names DEF StoreInv, ChangeIsApplied
<1>. QED
  BY <1>1, <1>3, <1>4, <1>5, <1>6 DEF StoreInv, AnsweredIsDurable, Apply

LEMMA SaveStep ==
  ASSUME StoreInv, NEW p \in Goroutines, SaveLock(p) \/ WriteTemp(p) \/ FinalSave
  PROVE  StoreInv'
<1>1. CASE SaveLock(p)
  <2>1. \A q \in Goroutines : pc[q] \notin {"write", "rename"}
    BY <1>1, NobodyWrites DEF SaveLock
  <2>. QED
    BY <1>1, <2>1 DEF StoreInv, TypeOK, SaveLock, store, history, Stages,
      SnapshotIsCurrent, ChangeIsApplied, AnsweredIsDurable
<1>2. CASE WriteTemp(p)
  BY <1>2 DEF StoreInv, TypeOK, WriteTemp, store, history, Stages,
    SnapshotIsCurrent, ChangeIsApplied, AnsweredIsDurable
<1>3. CASE FinalSave
  <2>1. \A q \in Goroutines : pc[q] \notin {"write", "rename"}
    BY <1>3, NobodyWrites DEF FinalSave
  <2>. QED
    BY <1>3, <2>1, Names DEF StoreInv, TypeOK, FinalSave, store, history, Stages,
      SnapshotIsCurrent, ChangeIsApplied, AnsweredIsDurable
<1>. QED
  BY <1>1, <1>2, <1>3

\* The end of a save, with or without the rename.
LEMMA EndStep ==
  ASSUME StoreInv, NEW p \in Goroutines, Rename(p) \/ DiskError(p)
  PROVE  StoreInv'
<1>1. pc[p] \in {"write", "rename"} /\ Return(p) /\ Release(p) /\ mem' = mem
  BY DEF Rename, DiskError, store
<1>2. writer = p /\ snap[p] = mem /\ ~torn[p]
  BY <1>1 DEF StoreInv, SnapshotIsCurrent
<1>3. file \subseteq file' /\ file' \subseteq mem /\ answered' \subseteq file'
  <2>1. CASE Rename(p)
    <3>1. file' = mem
      BY <1>2, <2>1 DEF Rename, FileAfter
    <3>2. p \in Callers => change[p] \in mem
      BY <2>1 DEF Rename, StoreInv, ChangeIsApplied
    <3>. QED
      BY <2>1, <3>1, <3>2 DEF Rename, StoreInv, AnsweredIsDurable
  <2>2. CASE DiskError(p)
    BY <2>2 DEF DiskError, store, history, StoreInv, AnsweredIsDurable
  <2>. QED
    BY <2>1, <2>2
<1>4. \A q \in Goroutines \ {p} : pc[q] \notin {"write", "rename"}
  BY <1>2 DEF StoreInv, SnapshotIsCurrent
<1>5. TypeOK'
  <2>1. CASE Rename(p)
    <3>1. file' \in SUBSET Changes /\ answered' \in SUBSET Changes
      BY <1>1, <1>3 DEF StoreInv, TypeOK
    <3>2. writer' \in Goroutines \cup {Nobody}
      BY <1>1 DEF StoreInv, TypeOK, Release
    <3>. QED
      BY <1>1, <2>1, <3>1, <3>2 DEF StoreInv, TypeOK, Rename, Return, Stages, Changes
  <2>2. CASE DiskError(p)
    BY <1>1, <2>2 DEF StoreInv, TypeOK, DiskError, Return, Release, store, history, Stages, Changes
  <2>. QED
    BY <2>1, <2>2
<1>6. \A q \in Goroutines \ {p} : pc'[q] = pc[q] /\ change'[q] = change[q]
  BY <1>1 DEF StoreInv, TypeOK, Return
<1>7. pc'[p] \in {"idle", "done"}
  BY <1>1 DEF StoreInv, TypeOK, Return
<1>8. SnapshotIsCurrent' /\ ChangeIsApplied'
  BY <1>1, <1>4, <1>6, <1>7, Names DEF StoreInv, SnapshotIsCurrent, ChangeIsApplied
<1>. QED
  BY <1>1, <1>3, <1>5, <1>8 DEF StoreInv, AnsweredIsDurable

LEMMA BootStep ==
  ASSUME StoreInv, Boot, faults' \in Nat
  PROVE  StoreInv'
  BY Names DEF StoreInv, TypeOK, Boot, history, Stages, Statuses, Changes,
    SnapshotIsCurrent, ChangeIsApplied, AnsweredIsDurable

LEMMA ProcessStep ==
  ASSUME StoreInv, Signal \/ Exit \/ UNCHANGED vars
  PROVE  StoreInv'
  BY DEF StoreInv, TypeOK, Signal, Exit, vars, store, calls, history, Statuses,
    SnapshotIsCurrent, ChangeIsApplied, AnsweredIsDurable

\* The strengthening is inductive: it holds because a save keeps the lock from
\* its snapshot to its rename.
THEOREM StoreInvariant == Spec => []StoreInv
<1>1. ASSUME StoreInv, [Next]_vars
      PROVE  StoreInv'
  <2>1. CASE \E p \in Goroutines : Step(p) \/ Request(p) \/ TickerFires(p) \/ DiskError(p)
    BY <1>1, <2>1, BeginStep, ChangeStep, SaveStep, EndStep DEF Step
  <2>2. CASE FinalSave
    BY <1>1, <2>2, SaveStep, Names
  <2>3. CASE Crash \/ Restart
    <3>1. Boot /\ faults' \in Nat
      BY <1>1, <2>3 DEF Crash, Restart, StoreInv, TypeOK
    <3>. QED
      BY <1>1, <3>1, BootStep
  <2>4. CASE Signal \/ Exit \/ UNCHANGED vars
    BY <1>1, <2>4, ProcessStep
  <2>. QED
    BY <1>1, <2>1, <2>2, <2>3, <2>4 DEF Next
<1>. QED
  BY <1>1, InitStoreInv, PTL DEF Spec

\* A change whose caller was told of success is in the file for good, whatever
\* crashes, fails or is shut down.
THEOREM AnsweredChangesSurvive == Spec => []AnsweredIsDurable
<1>1. StoreInv => AnsweredIsDurable
  BY DEF StoreInv
<1>. QED
  BY <1>1, StoreInvariant, PTL

\* A step of the store is a save of the contract, or is not seen there.
LEMMA StepKeepsContract ==
  ASSUME StoreInv, [Next]_vars
  PROVE  [Contract!Save]_(Contract!contractVars)
<1>1. ASSUME NEW p \in Goroutines, Rename(p)
      PROVE  Contract!Save
  <2>1. file' = mem
    BY <1>1 DEF Rename, FileAfter, StoreInv, SnapshotIsCurrent
  <2>2. p \in Callers => change[p] \in file'
    BY <1>1, <2>1 DEF Rename, StoreInv, ChangeIsApplied
  <2>3. file \subseteq file' /\ file' \subseteq Nat
    BY <2>1 DEF StoreInv, TypeOK, Changes
  <2>. QED
    BY <1>1, <2>2, <2>3 DEF Rename, Contract!Save
<1>2. ASSUME NEW p \in Goroutines,
             Step(p) \/ Request(p) \/ TickerFires(p) \/ DiskError(p), ~Rename(p)
      PROVE  file' = file /\ answered' = answered
  BY <1>2 DEF Step, Request, TickerFires, DiskError, Enter, StopSweeper, Read, NothingToDo,
    ChangeThenSave, ChangeAndHold, ChangeUnderLock, Apply, SaveLock, WriteTemp, store, history
<1>3. ASSUME Signal \/ FinalSave \/ Exit \/ Crash \/ Restart \/ UNCHANGED vars
      PROVE  file' = file /\ answered' = answered
  BY <1>3 DEF Signal, FinalSave, Exit, Crash, Restart, Boot, vars, store, history
<1>. QED
  BY <1>1, <1>2, <1>3 DEF Next, Contract!contractVars

\* The file store implements the contract of StoreContract: what is durable
\* stays durable, and only what is durable is promised.
THEOREM StoreKeepsItsPromises == Spec => KeepsItsPromises
<1>1. Init => Contract!ContractInit
  BY DEF Init, Contract!ContractInit
<1>. QED
  BY <1>1, StepKeepsContract, StoreInvariant, PTL DEF Spec, KeepsItsPromises, Contract!Spec
=============================================================================
