------------------------------- MODULE JsonStore -------------------------------
(***************************************************************************)
(* The JSON file store: what the server keeps its data in when no          *)
(* DATABASE_URL is set or PostgreSQL cannot be reached.  All data is in    *)
(* memory under one mutex, db.mu; a method changes it and then writes the  *)
(* whole store to a temporary file that it renames over the database.      *)
(*                                                                         *)
(* The data is the set of the changes that were applied to it, each change *)
(* a number of its own, so that a snapshot is a set of changes too (that   *)
(* PurgeData empties the maps is one more change).  What is modelled is    *)
(* who holds the lock when, which snapshot reaches the file, and what is   *)
(* left of it after a crash, a failed write or a shutdown.                 *)
(*                                                                         *)
(* A critical section that only touches memory is one step; the lock is    *)
(* seen to be held while its holder writes the file, or waits.             *)
(***************************************************************************)
EXTENDS Naturals, FiniteSets

CONSTANTS
  Callers,     \* goroutines that serve requests
  Tracked,     \* background sweepers that main waits for (wg)
  Untracked,   \* background sweepers that it does not wait for
  Main,        \* the goroutine of main
  Nobody,      \* holds the lock when it is free
  Methods,     \* the methods of DB that are called
  MaxChanges,  \* bound: changes of a behaviour
  MaxFaults    \* bound: crashes and disk errors of a behaviour

Sweepers   == Tracked \cup Untracked
Goroutines == Callers \cup Sweepers \cup {Main}

\* Lock; change; Unlock; save, the usual method ...
SaveAfterUnlock == {"StoreDelta", "InviteMember", "SendFriendRequest", "AcceptFriendRequest",
                    "CreateProject", "UpdateProject", "DeleteProject", "UpdatePresence"}
\* ... Lock; change; saveUnderLock; Unlock ...
SaveUnderLock   == {"GetPendingSignalsForPeer", "PurgeData"}
\* ... and Lock; defer Unlock; change; save, which takes the lock it holds.
SaveWhileHolding == {"DowngradeUserTier", "UpdateProjectToken", "RemoveProjectMember", "AckDelta"}
Sweeps          == {"HeartbeatSweep", "SweepExpiredDeltas", "SweepOrphanedProjects"}
Reads           == {"GetProject", "GetDeltas"}
AllMethods      == SaveAfterUnlock \cup SaveUnderLock \cup SaveWhileHolding \cup Sweeps \cup Reads

ASSUME ProcessAssumption ==
  /\ Callers \cap Sweepers = {}
  /\ Tracked \cap Untracked = {}
  /\ Main \notin Callers \cup Sweepers
  /\ Nobody \notin Goroutines

ASSUME StoreAssumption ==
  /\ Methods \subseteq AllMethods
  /\ MaxChanges \in Nat
  /\ MaxFaults \in Nat

VARIABLES
  mem,       \* db.data, as the set of changes applied to it
  file,      \* the file at db.path, likewise
  writer,    \* who holds db.mu across a step
  pc,        \* what each goroutine does next
  method,    \* the method it is in
  change,    \* the change it made in that call, 0 for none
  snap,      \* the snapshot it marshalled
  torn,      \* whether its temporary file misses part of the snapshot
  answered,  \* the changes whose caller was told of success
  issued,    \* how many changes were made so far
  status,    \* of the process: "serving", "stopping" (after the signal), "exited"
  faults     \* crashes and disk errors so far

store   == <<mem, file>>
calls   == <<pc, method, change, snap, torn>>
history == <<answered, issued>>
vars    == <<mem, file, writer, pc, method, change, snap, torn, answered, issued, status, faults>>

Changes  == Nat
Stages   == {"idle", "lock", "saveLock", "write", "rename", "done"}
Statuses == {"serving", "stopping", "exited"}

TypeOK ==
  /\ mem \in SUBSET Changes
  /\ file \in SUBSET Changes
  /\ writer \in Goroutines \cup {Nobody}
  /\ pc \in [Goroutines -> Stages]
  /\ method \in [Goroutines -> AllMethods \cup {"none", "Shutdown"}]
  /\ change \in [Goroutines -> Changes]
  /\ snap \in [Goroutines -> SUBSET Changes]
  /\ torn \in [Goroutines -> BOOLEAN]
  /\ answered \in SUBSET Changes
  /\ issued \in Nat
  /\ status \in Statuses
  /\ faults \in Nat

Init ==
  /\ mem = {} /\ file = {}
  /\ writer = Nobody
  /\ pc = [p \in Goroutines |-> "idle"]
  /\ method = [p \in Goroutines |-> "none"]
  /\ change = [p \in Goroutines |-> 0]
  /\ snap = [p \in Goroutines |-> {}]
  /\ torn = [p \in Goroutines |-> FALSE]
  /\ answered = {} /\ issued = 0
  /\ status = "serving"
  /\ faults = 0

Running == status # "exited"
Free    == writer = Nobody

\* The end of a call; what it left in its variables is garbage.
Return(p) ==
  /\ pc' = [pc EXCEPT ![p] = IF p = Main THEN "done" ELSE "idle"]
  /\ method' = [method EXCEPT ![p] = "none"]
  /\ change' = [change EXCEPT ![p] = 0]
  /\ snap' = [snap EXCEPT ![p] = {}]
  /\ torn' = [torn EXCEPT ![p] = FALSE]

\* Mutants: the bugs that the properties would catch.
MutSaveLock(p) ==  \* the lock was released between the snapshot and the write
  /\ Running /\ Free
  /\ pc[p] = "saveLock"
  /\ snap' = [snap EXCEPT ![p] = mem]
  /\ torn' = [torn EXCEPT ![p] = FALSE]
  /\ pc' = [pc EXCEPT ![p] = "write"]
  /\ UNCHANGED <<store, writer, method, change, history, status, faults>>
MutNothingToDo(p) ==  \* an early return forgets its Unlock
  /\ Running /\ Free
  /\ pc[p] = "lock" /\ method[p] \notin Reads
  /\ writer' = p
  /\ Return(p)
  /\ UNCHANGED <<store, history, status, faults>>
MutStopSweeper(p) ==  \* a sweeper without a case for ctx.Done
  /\ FALSE
  /\ pc[p] = "idle" /\ UNCHANGED vars

-----------------------------------------------------------------------------
(* The start of a call *)

Enter(p, m) ==
  /\ pc[p] = "idle"
  /\ pc' = [pc EXCEPT ![p] = "lock"]
  /\ method' = [method EXCEPT ![p] = m]
  /\ UNCHANGED <<store, writer, change, snap, torn, history, status, faults>>

\* A request arrives; once the signal was handled no new one is accepted.
Request(p) ==
  /\ status = "serving"
  /\ p \in Callers
  /\ \E m \in Methods \ Sweeps : Enter(p, m)

\* The ticker of a sweeper fires.  The select may still choose it after the
\* context was cancelled.
TickerFires(p) ==
  /\ Running
  /\ p \in Sweepers
  /\ \E m \in Methods \cap (Sweeps \cup {"DowngradeUserTier"}) : Enter(p, m)

\* `case <-ctx.Done(): return`
StopSweeper(p) ==
  /\ status = "stopping"
  /\ p \in Sweepers
  /\ pc[p] = "idle"
  /\ pc' = [pc EXCEPT ![p] = "done"]
  /\ UNCHANGED <<store, writer, method, change, snap, torn, history, status, faults>>

-----------------------------------------------------------------------------
(* The critical section in memory *)

\* RLock; copy; RUnlock
Read(p) ==
  /\ Running /\ Free
  /\ pc[p] = "lock" /\ method[p] \in Reads
  /\ Return(p)
  /\ UNCHANGED <<store, writer, history, status, faults>>

\* An early return: the user or the project is unknown, or there is nothing to do.
NothingToDo(p) ==
  /\ Running /\ Free
  /\ pc[p] = "lock" /\ method[p] \notin Reads
  /\ Return(p)
  /\ UNCHANGED <<store, writer, history, status, faults>>

\* A change that PurgeData or an UpdatePresence makes is as good as any other.
Apply(p) ==
  /\ Running /\ Free
  /\ pc[p] = "lock"
  /\ issued < MaxChanges
  /\ issued' = issued + 1
  /\ mem' = mem \cup {issued + 1}
  /\ change' = [change EXCEPT ![p] = issued + 1]
  /\ UNCHANGED <<file, method, answered, status, faults>>

ChangeThenSave(p) ==
  /\ method[p] \in SaveAfterUnlock \cup Sweeps
  /\ Apply(p)
  /\ pc' = [pc EXCEPT ![p] = "saveLock"]
  /\ UNCHANGED <<writer, snap, torn>>

\* The deferred Unlock has not run when save is called.
ChangeAndHold(p) ==
  /\ method[p] \in SaveWhileHolding
  /\ Apply(p)
  /\ writer' = p
  /\ pc' = [pc EXCEPT ![p] = "saveLock"]
  /\ UNCHANGED <<snap, torn>>

ChangeUnderLock(p) ==
  /\ method[p] \in SaveUnderLock
  /\ Apply(p)
  /\ writer' = p
  /\ snap' = [snap EXCEPT ![p] = mem']
  /\ torn' = [torn EXCEPT ![p] = FALSE]
  /\ pc' = [pc EXCEPT ![p] = "write"]

-----------------------------------------------------------------------------
(* save and saveUnderLock *)

\* save: Lock, then MarshalIndent.  The mutex is not reentrant.
SaveLock(p) ==
  /\ Running /\ Free
  /\ pc[p] = "saveLock"
  /\ writer' = p
  /\ snap' = [snap EXCEPT ![p] = mem]
  /\ torn' = [torn EXCEPT ![p] = FALSE]
  /\ pc' = [pc EXCEPT ![p] = "write"]
  /\ UNCHANGED <<store, method, change, history, status, faults>>

\* CreateTemp, Write and Sync
WriteTemp(p) ==
  /\ Running
  /\ pc[p] = "write"
  /\ pc' = [pc EXCEPT ![p] = "rename"]
  /\ UNCHANGED <<store, writer, method, change, snap, torn, history, status, faults>>

Release(p) == writer' = IF writer = p THEN Nobody ELSE writer

\* The file gets what the temporary file holds.
FileAfter(p) == IF torn[p] THEN {} ELSE snap[p]

\* Rename, Unlock, and the answer to the request.
Rename(p) ==
  /\ Running
  /\ pc[p] = "rename"
  /\ file' = FileAfter(p)
  /\ Release(p)
  /\ answered' = IF p \in Callers THEN answered \cup {change[p]} ELSE answered
  /\ Return(p)
  /\ UNCHANGED <<mem, issued, status, faults>>

\* A full disk fails one of the three steps before the rename: the error is
\* returned, the change stays in memory, the file is untouched.
DiskError(p) ==
  /\ Running
  /\ pc[p] = "write"
  /\ faults < MaxFaults
  /\ faults' = faults + 1
  /\ Release(p)
  /\ Return(p)
  /\ UNCHANGED <<store, history, status>>

-----------------------------------------------------------------------------
(* Shutdown, crash and restart *)

\* SIGTERM: cancel() and srv.Shutdown in a goroutine of their own, while main,
\* whose ListenAndServe returns at once, goes on to wg.Wait.
Signal ==
  /\ status = "serving"
  /\ status' = "stopping"
  /\ UNCHANGED <<store, writer, calls, history, faults>>

\* wg.Wait returns and main calls db.Shutdown, which takes the lock.
FinalSave ==
  /\ status = "stopping" /\ Free
  /\ \A s \in Tracked : pc[s] = "done"
  /\ pc[Main] = "idle"
  /\ writer' = Main
  /\ snap' = [snap EXCEPT ![Main] = mem]
  /\ torn' = [torn EXCEPT ![Main] = FALSE]
  /\ pc' = [pc EXCEPT ![Main] = "write"]
  /\ method' = [method EXCEPT ![Main] = "Shutdown"]
  /\ UNCHANGED <<store, change, history, status, faults>>

\* main returns, and every other goroutine ends with it.
Exit ==
  /\ status = "stopping"
  /\ pc[Main] = "done"
  /\ status' = "exited"
  /\ UNCHANGED <<store, writer, calls, history, faults>>

\* A new process loads the file.
Boot ==
  /\ mem' = file
  /\ writer' = Nobody
  /\ pc' = [p \in Goroutines |-> "idle"]
  /\ method' = [p \in Goroutines |-> "none"]
  /\ change' = [p \in Goroutines |-> 0]
  /\ snap' = [p \in Goroutines |-> {}]
  /\ torn' = [p \in Goroutines |-> FALSE]
  /\ status' = "serving"
  /\ UNCHANGED <<file, history>>

Crash ==
  /\ Running
  /\ faults < MaxFaults
  /\ faults' = faults + 1
  /\ Boot

Restart ==
  /\ status = "exited"
  /\ faults < MaxFaults
  /\ faults' = faults + 1
  /\ Boot

-----------------------------------------------------------------------------

Step(p) ==
  \/ StopSweeper(p)
  \/ Read(p) \/ NothingToDo(p)
  \/ ChangeThenSave(p) \/ ChangeAndHold(p) \/ ChangeUnderLock(p)
  \/ SaveLock(p) \/ WriteTemp(p) \/ Rename(p)

Next ==
  \/ \E p \in Goroutines :
       Step(p) \/ Request(p) \/ TickerFires(p) \/ DiskError(p)
  \/ Signal \/ FinalSave \/ Exit \/ Crash \/ Restart

Spec == Init /\ [][Next]_vars

\* The mutex hands itself over in turn to whoever waits long enough, disks and
\* the scheduler make progress, a select with two ready cases chooses either;
\* nobody has to send a request or a signal.
Fairness ==
  /\ \A p \in Callers \cup Sweepers : SF_vars(Step(p))
  /\ \A p \in Sweepers : SF_vars(StopSweeper(p))
  /\ WF_vars(Step(Main))
  /\ SF_vars(FinalSave)
  /\ WF_vars(Exit)

LiveSpec == Spec /\ Fairness

-----------------------------------------------------------------------------
(* Properties *)

\* A change that a caller was told has succeeded is in the file, so that it
\* survives every crash, disk error and restart from then on (save, db.go:167).
AnsweredIsDurable == answered \subseteq file

\* Whatever the goroutines do, the file and the answers behave like a store
\* that writes its changes down before it promises them and forgets none:
\* no stale snapshot overwrites a newer file (the lost update of db.go:168).
Contract == INSTANCE StoreContract WITH durable <- file, promised <- answered
KeepsItsPromises == Contract!Spec

\* "Every caller must call save() WITHOUT holding the lock" (db.go:172).
NobodyWaitsForItself == \A p \in Goroutines : ~(pc[p] = "saveLock" /\ writer = p)

\* Unless somebody does, every call ends, be it a request's or a sweeper's:
\* nobody waits for db.mu for ever, through disk errors, crashes and shutdown.
EveryCallReturns ==
  []NobodyWaitsForItself =>
    \A p \in Callers \cup Sweepers :
      pc[p] \notin {"idle", "done"} ~> (pc[p] \in {"idle", "done"} \/ status = "exited")

\* Likewise the process ends after SIGTERM: wg.Wait and the final save do not hang.
ShutdownCompletes ==
  []NobodyWaitsForItself => (status = "stopping" ~> status # "stopping")

\* "Shutdown performs a final save under write lock to guarantee all
\* modifications are persisted" (db.go:120): what is in memory when the process
\* ends is in the file.
FinalSaveCoversAll == status = "exited" => mem \subseteq file

-----------------------------------------------------------------------------
(* What the proofs rest on *)

\* Whoever is writing holds the lock, and its snapshot is still all of memory.
SnapshotIsCurrent ==
  \A p \in Goroutines : pc[p] \in {"write", "rename"} =>
    writer = p /\ snap[p] = mem /\ ~torn[p]

\* The change of a call in progress is in memory until its save has ended.
ChangeIsApplied ==
  \A p \in Callers : pc[p] \in {"saveLock", "write", "rename"} => change[p] \in mem

StoreInv ==
  /\ TypeOK
  /\ file \subseteq mem
  /\ SnapshotIsCurrent
  /\ ChangeIsApplied
  /\ AnsweredIsDurable
=============================================================================
