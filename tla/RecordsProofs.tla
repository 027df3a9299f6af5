----------------------------- MODULE RecordsProofs -----------------------------
(***************************************************************************)
(* Proofs about what the server keeps for a while: the mailbox of signals  *)
(* (Mailbox), a channel of direct messages (Chat), a project's tasks       *)
(* (Workspace), and what restarts find (Startup).  The four share no       *)
(* state; each has an inductive invariant of its own.                      *)
(***************************************************************************)
EXTENDS Mailbox, Chat, Workspace, Startup, FiniteSetTheorems, TLAPS

-----------------------------------------------------------------------------
(* The mailbox, for any peers, signals, polls and lifetimes. *)

\* What a poll is going to delete, it has read, or it was stored since.
PollsCover ==
  \A f \in Fetches : stage[f] \in {"selected", "deleted"} =>
    \A g \in box : to[g] = peer[f] => g \in taken[f] \cup crossed

\* Nothing is stored or read that was not sent, and a poll answers once.
Bookkeeping ==
  /\ box \subseteq sent
  /\ \A f \in Fetches :
       /\ taken[f] \subseteq sent /\ got[f] \subseteq sent
       /\ stage[f] # "over" => got[f] = {}
       /\ stage[f] \in {"new", "over"} => taken[f] = {}

MailboxInv == TypeOK /\ Bookkeeping /\ PollsCover /\ LostOnlyToAPoll

LEMMA MailboxInitInv == Init => MailboxInv
  BY MailboxAssumption DEF Init, MailboxInv, TypeOK, Bookkeeping, PollsCover, LostOnlyToAPoll

LEMMA SaveStep ==
  ASSUME MailboxInv, NEW g \in Signals, NEW u \in Peers, SaveSignal(g, u)
  PROVE  MailboxInv'
<1>1. TypeOK'
  BY DEF MailboxInv, TypeOK, SaveSignal, Old, pollVars
<1>2. Bookkeeping'
  BY DEF MailboxInv, TypeOK, Bookkeeping, SaveSignal, Old, pollVars
<1>3. PollsCover'
  BY DEF MailboxInv, TypeOK, Bookkeeping, PollsCover, SaveSignal, Old, pollVars, Polling
<1>4. LostOnlyToAPoll'
  BY DEF MailboxInv, LostOnlyToAPoll, InHand, Answered, SaveSignal, Old, pollVars
<1>. QED
  BY <1>1, <1>2, <1>3, <1>4 DEF MailboxInv

LEMMA ClockStep ==
  ASSUME MailboxInv, Tick \/ SweepExpiredSignals
  PROVE  MailboxInv'
<1>1. TypeOK'
  BY DEF MailboxInv, TypeOK, Tick, SweepExpiredSignals, Old, pollVars, history
<1>2. Bookkeeping'
  BY DEF MailboxInv, Bookkeeping, Tick, SweepExpiredSignals, Old, pollVars, history
<1>3. PollsCover'
  BY DEF MailboxInv, PollsCover, Tick, SweepExpiredSignals, Old, pollVars, history
<1>4. LostOnlyToAPoll'
  BY DEF MailboxInv, LostOnlyToAPoll, InHand, Answered, Tick, SweepExpiredSignals, Old, pollVars, history
<1>. QED
  BY <1>1, <1>2, <1>3, <1>4 DEF MailboxInv

\* The first step of a poll.
LEMMA BeginStep ==
  ASSUME MailboxInv, NEW f \in Fetches, NEW u \in Peers,
         FetchNothing(f, u) \/ Select(f, u) \/ Take(f, u) \/ TakeFails(f, u)
  PROVE  MailboxInv'
<1>1. TypeOK'
  BY DEF MailboxInv, TypeOK, FetchNothing, Select, Take, TakeFails, Over, Go, Pending, history
<1>2. Bookkeeping'
  BY DEF MailboxInv, TypeOK, Bookkeeping, FetchNothing, Select, Take, TakeFails, Over, Go, Pending, history
<1>3. PollsCover'
  BY DEF MailboxInv, TypeOK, PollsCover, FetchNothing, Select, Take, TakeFails, Over, Go, Pending, history
<1>4. LostOnlyToAPoll'
  <2>1. stage[f] = "new" /\ UNCHANGED <<sent, got, crossed, expired>>
    BY DEF FetchNothing, Select, Take, TakeFails, history
  <2>2. \A g \in sent : g \in box => g \in box' \cup dropped' \/ InHand(g)'
    BY DEF MailboxInv, TypeOK, InHand, FetchNothing, Select, Take, TakeFails, Over, Go, Pending, history
  <2>3. \A g \in sent : InHand(g) => InHand(g)'
    BY DEF MailboxInv, TypeOK, Bookkeeping, InHand, FetchNothing, Select, Take, TakeFails, Over, Go
  <2>4. dropped \subseteq dropped'
    BY DEF FetchNothing, Select, Take, TakeFails, history
  <2>. QED
    BY <2>1, <2>2, <2>3, <2>4 DEF MailboxInv, LostOnlyToAPoll, Answered
<1>. QED
  BY <1>1, <1>2, <1>3, <1>4 DEF MailboxInv

\* The deletions of a poll.
LEMMA DeleteStep ==
  ASSUME MailboxInv, NEW f \in Fetches, DeletePending(f) \/ ClearAgain(f) \/ ClearFails(f)
  PROVE  MailboxInv'
<1>1. TypeOK'
  BY DEF MailboxInv, TypeOK, DeletePending, ClearAgain, ClearFails, Go, Pending, history
<1>2. Bookkeeping'
  BY DEF MailboxInv, TypeOK, Bookkeeping, DeletePending, ClearAgain, ClearFails, Go, Pending, history
<1>3. PollsCover'
  BY DEF MailboxInv, TypeOK, PollsCover, DeletePending, ClearAgain, ClearFails, Go, Pending, history
<1>4. LostOnlyToAPoll'
  <2>1. UNCHANGED <<sent, got, taken, crossed, dropped, expired>>
    BY DEF DeletePending, ClearAgain, ClearFails, history
  <2>2. \A g \in box : g \in box' \cup taken[f] \cup crossed
    BY DEF MailboxInv, PollsCover, DeletePending, ClearAgain, ClearFails, Pending
  <2>3. stage'[f] # "selected" /\ \A h \in Fetches : stage[h] # "selected" => stage'[h] # "selected"
    BY DEF MailboxInv, TypeOK, DeletePending, ClearAgain, ClearFails, Go
  <2>. QED
    BY <2>1, <2>2, <2>3 DEF MailboxInv, LostOnlyToAPoll, InHand, Answered
<1>. QED
  BY <1>1, <1>2, <1>3, <1>4 DEF MailboxInv

\* The ends of a poll.
LEMMA EndStep ==
  ASSUME MailboxInv, NEW f \in Fetches, Rollback(f) \/ Answer(f) \/ AnswerLost(f)
  PROVE  MailboxInv'
<1>1. TypeOK'
  BY DEF MailboxInv, TypeOK, Rollback, Answer, AnswerLost, Over, Go, history
<1>2. Bookkeeping'
  BY DEF MailboxInv, TypeOK, Bookkeeping, Rollback, Answer, AnswerLost, Over, Go, history
<1>3. PollsCover'
  BY DEF MailboxInv, TypeOK, PollsCover, Rollback, Answer, AnswerLost, Over, Go, history
<1>4. LostOnlyToAPoll'
  <2>1. UNCHANGED <<box, sent, crossed, expired>> /\ dropped \subseteq dropped'
    BY DEF Rollback, Answer, AnswerLost, history
  <2>2. \A g \in sent : InHand(g) => InHand(g)' \/ Answered(g)' \/ g \in dropped'
    BY DEF MailboxInv, TypeOK, InHand, Answered, Rollback, Answer, AnswerLost, Over, Go, history
  <2>3. \A g \in sent : Answered(g) => Answered(g)'
    BY DEF MailboxInv, TypeOK, Bookkeeping, Answered, Rollback, Answer, AnswerLost, Over, Go, history
  <2>. QED
    BY <2>1, <2>2, <2>3 DEF MailboxInv, LostOnlyToAPoll
<1>. QED
  BY <1>1, <1>2, <1>3, <1>4 DEF MailboxInv

LEMMA MailboxStep == MailboxInv /\ [Next]_vars => MailboxInv'
<1>1. SUFFICES ASSUME MailboxInv, [Next]_vars PROVE MailboxInv'
  OBVIOUS
<1>2. CASE UNCHANGED vars
  BY <1>1, <1>2 DEF MailboxInv, TypeOK, Bookkeeping, PollsCover, LostOnlyToAPoll, InHand, Answered,
    vars, pollVars, history
<1>3. CASE Tick \/ SweepExpiredSignals
  BY <1>1, <1>3, ClockStep
<1>4. CASE \E g \in Signals, u \in Peers : SaveSignal(g, u)
  BY <1>1, <1>4, SaveStep
<1>5. CASE \E f \in Fetches : Poll(f)
  BY <1>1, <1>5, BeginStep, DeleteStep, EndStep DEF Poll
<1>. QED
  BY <1>1, <1>2, <1>3, <1>4, <1>5 DEF Next

LEMMA MailboxInvariant == Spec => []MailboxInv
  BY MailboxInitInv, MailboxStep, PTL DEF Spec

\* Every variable keeps its type.
THEOREM MailboxTypes == Spec => []TypeOK
<1>1. MailboxInv => TypeOK
  BY DEF MailboxInv
<1>. QED
  BY <1>1, MailboxInvariant, PTL

\* A stored signal is never lost but to a poll of its recipient that was going
\* on when it was stored, or with an answer that did not arrive.
THEOREM NothingElseIsLost == Spec => []LostOnlyToAPoll
<1>1. MailboxInv => LostOnlyToAPoll
  BY DEF MailboxInv
<1>. QED
  BY <1>1, MailboxInvariant, PTL

\* Whoever has a signal has it alone: the mailbox, a poll or an answer.
Exclusive ==
  \A f \in Fetches :
    /\ (taken[f] \cup got[f]) \cap box = {}
    /\ \A h \in Fetches : f # h => (taken[f] \cup got[f]) \cap (taken[h] \cup got[h]) = {}

\* In the JSON store, which takes signals out under one lock, no two polls
\* answer with the same signal.
THEOREM JsonNeverTwice == Spec => []JsonFetchesOnce
<1>1. Init => (mode = "json" => Exclusive)
  BY DEF Init, Exclusive
<1>2. [Next]_vars => mode' = mode
  BY DEF Next, vars, Poll, Tick, SweepExpiredSignals, SaveSignal, FetchNothing, Select,
    DeletePending, Rollback, Take, TakeFails, ClearAgain, ClearFails, Answer, AnswerLost
<1>3. MailboxInv /\ (mode = "json" => Exclusive) /\ [Next]_vars => (mode = "json" => Exclusive)'
  <2>1. SUFFICES ASSUME MailboxInv, Exclusive, [Next]_vars, mode = "json" PROVE Exclusive'
    BY <1>2
  <2>2. CASE \E g \in Signals, u \in Peers : SaveSignal(g, u)
    BY <2>1, <2>2 DEF SaveSignal, Old, pollVars, MailboxInv, Bookkeeping, Exclusive
  <2>3. CASE Tick \/ SweepExpiredSignals \/ UNCHANGED vars
    BY <2>1, <2>3 DEF Tick, SweepExpiredSignals, Old, vars, pollVars, history, Exclusive
  <2>4. CASE \E f \in Fetches, u \in Peers : FetchNothing(f, u) \/ Take(f, u) \/ TakeFails(f, u)
    BY <2>1, <2>4 DEF FetchNothing, Take, TakeFails, Over, Go, Pending, history, MailboxInv, TypeOK, Bookkeeping, Exclusive
  <2>5. CASE \E f \in Fetches : DeletePending(f) \/ ClearAgain(f) \/ ClearFails(f)
    BY <2>1, <2>5 DEF DeletePending, ClearAgain, ClearFails, Pending, history, Exclusive
  <2>6. CASE \E f \in Fetches : Rollback(f) \/ Answer(f) \/ AnswerLost(f)
    BY <2>1, <2>6 DEF Rollback, Answer, AnswerLost, Over, Go, history, MailboxInv, TypeOK, Exclusive
  <2>. QED
    BY <2>1, <2>2, <2>3, <2>4, <2>5, <2>6 DEF Next, Poll, Select
<1>4. (mode = "json" => Exclusive) => JsonFetchesOnce
  BY DEF Exclusive, FetchedOnce, JsonFetchesOnce
<1>. QED
  BY <1>1, <1>3, <1>4, MailboxInvariant, PTL DEF Spec

-----------------------------------------------------------------------------
(* A channel of direct messages, for any messages, page size and lifetime. *)

\* The channel holds what the last sweep left and what came since, so that no
\* message is older than Keep and the longest time between two sweeps.
SweptInTime ==
  /\ hour - sweptAt <= longest
  /\ \A m \in channel : written[m] <= hour /\ sweptAt - written[m] <= Keep

\* A message that nobody could read yet has a full page of older ones before it.
UnreadWait ==
  \A m \in channel \ readable :
    Cardinality({n \in channel : written[n] < written[m]}) >= PageSize

ChatInv ==
  ChatTypeOK /\ SweptInTime /\ IsFiniteSet(sentAlready) /\ UnreadWait /\ UnreadOnlyInABurst

LEMMA ChatInitInv == ChatInit => ChatInv
  BY ChatAssumption, FS_EmptySet DEF ChatInit, ChatInv, ChatTypeOK, SweptInTime, UnreadWait, UnreadOnlyInABurst

\* What every step of a channel does.
LEMMA ChatMoves ==
  ASSUME ChatInv, ChatNext
  PROVE  /\ ChatTypeOK' /\ SweptInTime' /\ IsFiniteSet(sentAlready')
         /\ sentAlready \subseteq sentAlready' /\ longest <= longest'
         /\ \A m \in sentAlready : written'[m] = written[m]
         /\ \A m \in sentAlready' \ sentAlready : m \in channel'
         /\ \A m \in channel \ channel' : TooOldToKeep(m)
         /\ Readable
<1>. USE ChatAssumption DEF ChatInv, ChatTypeOK, SweptInTime, Page, Readable, Longest
<1>1. CASE HourPasses
  BY <1>1 DEF HourPasses
<1>2. CASE MessageSweep
  BY <1>2 DEF MessageSweep, TooOldToKeep
<1>3. ASSUME NEW m \in Messages, SaveMessage(m)
      PROVE  /\ ChatTypeOK' /\ SweptInTime' /\ IsFiniteSet(sentAlready')
             /\ sentAlready \subseteq sentAlready' /\ longest <= longest'
             /\ \A n \in sentAlready : written'[n] = written[n]
             /\ \A n \in sentAlready' \ sentAlready : n \in channel'
             /\ \A n \in channel \ channel' : TooOldToKeep(n)
             /\ Readable
  BY <1>3, FS_AddElement DEF SaveMessage
<1>. QED
  BY <1>1, <1>2, <1>3 DEF ChatNext

\* Messages that are swept together with the hour of a later one are near it.
LEMMA ChatStep == ChatInv /\ [ChatNext]_chatVars => ChatInv'
<1>1. CASE UNCHANGED chatVars
  BY <1>1 DEF chatVars, ChatInv, ChatTypeOK, SweptInTime, UnreadWait, UnreadOnlyInABurst, Before
<1>2. ASSUME ChatInv, ChatNext PROVE ChatInv'
  <2>. USE ChatAssumption DEF ChatInv, ChatTypeOK
  <2>1. IsFiniteSet(sentAlready) /\ IsFiniteSet(sentAlready')
    BY <1>2, ChatMoves
  <2>2. UnreadWait'
    <3>1. SUFFICES ASSUME NEW m \in channel' \ readable'
                   PROVE  Cardinality({n \in channel' : written'[n] < written'[m]}) >= PageSize
      BY DEF UnreadWait
    <3>2. ~(Cardinality(Older(m, channel')) < PageSize)
      BY <1>2, <3>1, ChatMoves DEF Readable, Page
    <3>3. Cardinality(Older(m, channel')) \in Nat
      <4>1. IsFiniteSet(Older(m, channel'))
        BY <1>2, <2>1, ChatMoves, FS_Subset DEF Older
      <4>. QED
        BY <4>1, FS_CardinalityType
    <3>. QED
      BY <3>2, <3>3 DEF Older
  <2>3. UnreadOnlyInABurst'
    <3>1. SUFFICES ASSUME NEW m \in sentAlready' \ (channel' \cup readable')
                   PROVE  Cardinality(Before(m)' \ {m}) >= PageSize
      BY DEF UnreadOnlyInABurst
    <3>2. m \in sentAlready \ readable
      BY <1>2, <3>1, ChatMoves DEF Readable
    <3>3. IsFiniteSet(Before(m)' \ {m})
      BY <2>1, FS_Subset DEF Before
    \* A set of older messages that all count now, and fill a page.
    <3>4. PICK S \in SUBSET (Before(m)' \ {m}) : Cardinality(S) >= PageSize
      <4>1. CASE m \notin channel
        <5>1. Cardinality(Before(m) \ {m}) >= PageSize
          BY <1>2, <3>2, <4>1 DEF UnreadOnlyInABurst
        <5>2. Before(m) \ {m} \subseteq Before(m)' \ {m}
          BY <1>2, <3>2, ChatMoves DEF Before
        <5>. QED
          BY <5>1, <5>2
      <4>2. CASE m \in channel
        <5>. DEFINE Ahead == {n \in channel : written[n] < written[m]}
        <5>1. Cardinality(Ahead) >= PageSize
          BY <1>2, <3>2, <4>2 DEF UnreadWait
        <5>2. hour - written[m] > Keep
          BY <1>2, <3>1, <4>2, ChatMoves DEF TooOldToKeep
        <5>3. \A n \in Ahead : written[m] - written[n] < longest
          BY <1>2, <3>2, <5>2
        <5>4. Ahead \subseteq Before(m)' \ {m}
          BY <1>2, <3>2, <5>3, ChatMoves DEF Before
        <5>. QED
          BY <5>1, <5>4
      <4>. QED
        BY <4>1, <4>2
    <3>5. Cardinality(S) <= Cardinality(Before(m)' \ {m}) /\ Cardinality(S) \in Nat
          /\ Cardinality(Before(m)' \ {m}) \in Nat
      BY <3>3, FS_Subset, FS_CardinalityType
    <3>. QED
      BY <3>4, <3>5
  <2>. QED
    BY <1>2, <2>1, <2>2, <2>3, ChatMoves
<1>. QED
  BY <1>1, <1>2

LEMMA ChatInvariant == ChatSpec => []ChatInv
  BY ChatInitInv, ChatStep, PTL DEF ChatSpec

\* Every variable of a channel keeps its type, and no message stays longer than
\* Keep and the longest time between two sweeps.
THEOREM ChatTypes == ChatSpec => []ChatTypeOK
<1>1. ChatInv => ChatTypeOK
  BY DEF ChatInv
<1>. QED
  BY <1>1, ChatInvariant, PTL

\* A message that was swept unread had a full page of others before it, all of
\* them written within the time between two sweeps (user.go:251-254,
\* postgres_methods.go:1172-1179, 1212).
THEOREM UnreadInABurst == ChatSpec => []UnreadOnlyInABurst
<1>1. ChatInv => UnreadOnlyInABurst
  BY DEF ChatInv
<1>. QED
  BY <1>1, ChatInvariant, PTL

-----------------------------------------------------------------------------
(* A project's tasks, for any tasks and calls, in either store. *)

WorkspaceInv == WorkspaceTypeOK /\ StrayTaskIsARace

LEMMA WorkspaceInitInv == WorkspaceInit => WorkspaceInv
  BY WorkspaceAssumption DEF WorkspaceInit, WorkspaceInv, WorkspaceTypeOK, Stages, StrayTaskIsARace

LEMMA HandlerStep ==
  ASSUME WorkspaceInv, NEW c \in Callers, Handler(c)
  PROVE  WorkspaceInv'
<1>. USE WorkspaceAssumption
     DEF WorkspaceInv, WorkspaceTypeOK, StrayTaskIsARace, Stages, callerVars, workVars, Then, Return
<1>1. CASE Check(c) \/ CallFails(c) \/ LogFails(c)
  BY <1>1 DEF Check, CallFails, LogFails
<1>2. CASE LogActivity(c)
  <2>1. credits' \in [Tasks -> Nat]
    <3>1. \A t \in Tasks : credits[t] + 1 \in Nat
      OBVIOUS
    <3>2. credits' = [credits EXCEPT ![task[c]] = credits[task[c]] + 1]
      BY <1>2 DEF LogActivity
    <3>. QED
      BY <3>1, <3>2
  <2>2. /\ task' \in [Callers -> Tasks \cup {NoTask}]
        /\ doing' \in [Callers -> {"new", "checked", "log", "over"}]
        /\ UNCHANGED <<backend, alive, tasks, finished, stageOf, created, late>>
    BY <1>2 DEF LogActivity
  <2>3. alive \/ backend # "pg"
    BY <1>2 DEF LogActivity, Referable
  <2>. QED
    BY <2>1, <2>2, <2>3
<1>3. ASSUME NEW t \in Tasks, CreateTask(c, t) PROVE WorkspaceInv'
  BY <1>3 DEF CreateTask, Referable
<1>4. ASSUME NEW t \in Tasks, CompleteTask(c, t) PROVE WorkspaceInv'
  BY <1>4 DEF CompleteTask
<1>5. ASSUME NEW t \in Tasks, DeleteTask(c, t) PROVE WorkspaceInv'
  BY <1>5 DEF DeleteTask
<1>6. ASSUME NEW t \in Tasks, NEW s \in Stages, UpdateTask(c, t, s) PROVE WorkspaceInv'
  BY <1>6 DEF UpdateTask, StatusOf
<1>. QED
  BY <1>1, <1>2, <1>3, <1>4, <1>5, <1>6 DEF Handler

LEMMA WorkspaceStep == WorkspaceInv /\ [WorkspaceNext]_workspaceVars => WorkspaceInv'
<1>. SUFFICES ASSUME WorkspaceInv, [WorkspaceNext]_workspaceVars PROVE WorkspaceInv'
  OBVIOUS
<1>1. CASE DeleteProject
  BY <1>1 DEF DeleteProject, WorkspaceInv, WorkspaceTypeOK, StrayTaskIsARace, callerVars, workVars
<1>2. ASSUME NEW t \in Tasks, ActivityLogSweep(t) PROVE WorkspaceInv'
  <2>1. /\ credits[t] > 0 /\ credits' \in [Tasks -> Nat]
        /\ UNCHANGED <<backend, alive, tasks, finished, stageOf, doing, task, created, late>>
    BY <1>2 DEF ActivityLogSweep, callerVars, workVars, WorkspaceInv, WorkspaceTypeOK
  <2>. QED
    BY <2>1 DEF WorkspaceInv, WorkspaceTypeOK, StrayTaskIsARace
<1>3. CASE UNCHANGED workspaceVars
  BY <1>3 DEF workspaceVars, callerVars, workVars, WorkspaceInv, WorkspaceTypeOK, StrayTaskIsARace
<1>. QED
  BY <1>1, <1>2, <1>3, HandlerStep DEF WorkspaceNext

LEMMA WorkspaceInvariant == WorkspaceSpec => []WorkspaceInv
  BY WorkspaceInitInv, WorkspaceStep, PTL DEF WorkspaceSpec

\* Every variable keeps its type, and a task is completed as long as its stage
\* says so.
THEOREM WorkspaceTypes == WorkspaceSpec => []WorkspaceTypeOK
<1>1. WorkspaceInv => WorkspaceTypeOK
  BY DEF WorkspaceInv
<1>. QED
  BY <1>1, WorkspaceInvariant, PTL

\* What a deleted project still has, a call left behind that had found its
\* caller a member before; in PostgreSQL nothing (db.go:984-1000,
\* project.go:649-652).
THEOREM StrayTasksAreRaces == WorkspaceSpec => []StrayTaskIsARace
<1>1. WorkspaceInv => StrayTaskIsARace
  BY DEF WorkspaceInv
<1>. QED
  BY <1>1, WorkspaceInvariant, PTL

-----------------------------------------------------------------------------
(* Restarts, for any users and any number of starts and faults. *)

\* Only a process with a database gets to migrate.
OpensTables == phase = "connected" => url /\ open = "tables"

\* The kv table holds nobody who was purged, unless a purge is going on or has
\* failed to clear it.
NoneComesBack == kv \cap purged["tables"] # {} => purging \/ halfPurged

\* A store has the secret that was first used with it.
FirstIsSaved == unsaved \/ \A s \in StoreNames : saved[s] = first[s]

StartupInv ==
  StartupTypeOK /\ OpensTables /\ NoneComesBack /\ FirstIsSaved /\ PurgedStayPurged /\ SessionsSurvive

LEMMA StartupInitInv == StartupInit => StartupInv
<1>. SUFFICES ASSUME StartupInit PROVE StartupInv
  OBVIOUS
<1>1. StartupTypeOK
  <2>1. /\ data \in [StoreNames -> SUBSET People] /\ purged \in [StoreNames -> SUBSET People]
        /\ saved \in [StoreNames -> Nat] /\ first \in [StoreNames -> Nat]
        /\ starts \in 0 .. MaxStarts /\ faults \in 0 .. MaxFaults
    BY StartupAssumption DEF StartupInit
  <2>. QED
    BY <2>1, StartupAssumption DEF StartupInit, StartupTypeOK, StoreNames
<1>2. OpensTables /\ NoneComesBack /\ FirstIsSaved /\ PurgedStayPurged /\ SessionsSurvive
  BY DEF StartupInit, StoreNames, OpensTables, NoneComesBack, FirstIsSaved, PurgedStayPurged, SessionsSurvive
<1>. QED
  BY <1>1, <1>2 DEF StartupInv

LEMMA StartupStep == StartupInv /\ [StartupNext]_startupVars => StartupInv'
<1>. SUFFICES ASSUME StartupInv, [StartupNext]_startupVars PROVE StartupInv'
  OBVIOUS
<1>. USE StartupAssumption
     DEF StartupInv, StartupTypeOK, StoreNames, OpensTables, NoneComesBack, FirstIsSaved, PurgedStayPurged,
         SessionsSurvive, storeVars, restartVars, Fault
<1>1. CASE StartPg \/ StartJson \/ FallBack
  BY <1>1 DEF StartPg, StartJson, FallBack, Start
<1>2. CASE Migrate \/ MigrationFails
  BY <1>2 DEF Migrate, MigrationFails, NothingToMigrate
<1>3. CASE SecretFound \/ SecretMade
  BY <1>3 DEF SecretFound, SecretMade, Serve, Save
<1>4. CASE SecretFails
  BY <1>4 DEF SecretFails, Serve, Save
<1>5. ASSUME NEW u \in People, Register(u) PROVE StartupInv'
  BY <1>5 DEF Register
<1>6. CASE PurgeFile
  BY <1>6 DEF PurgeFile
<1>7. CASE Truncate
  BY <1>7 DEF Truncate
<1>8. CASE ClearKv
  BY <1>8 DEF ClearKv
<1>9. CASE ClearKvFails
  <2>1. UNCHANGED <<url, phase, open, data, kv, saved, secret, starts, made, first, unsaved, purged>>
    BY <1>9 DEF ClearKvFails
  <2>2. purging' = FALSE /\ halfPurged' = TRUE /\ faults' \in 0 .. MaxFaults
    BY <1>9 DEF ClearKvFails
  <2>. QED
    BY <2>1, <2>2
<1>10. CASE Crash
  BY <1>10 DEF Crash
<1>11. CASE UNCHANGED startupVars
  BY <1>11 DEF startupVars
<1>. QED
  BY <1>1, <1>2, <1>3, <1>4, <1>5, <1>6, <1>7, <1>8, <1>9, <1>10, <1>11 DEF StartupNext

LEMMA StartupInvariant == StartupSpec => []StartupInv
  BY StartupInitInv, StartupStep, PTL DEF StartupSpec

\* Every variable keeps its type; without a database the tables stay empty and
\* are never opened.
THEOREM StartupTypes == StartupSpec => []StartupTypeOK
<1>1. StartupInv => StartupTypeOK
  BY DEF StartupInv
<1>. QED
  BY <1>1, StartupInvariant, PTL

\* No restart brings back what was purged, but from a legacy table that a purge
\* could not clear (postgres_methods.go:1308-1318, 20-27).
THEOREM PurgesLast == StartupSpec => []PurgedStayPurged
<1>1. StartupInv => PurgedStayPurged
  BY DEF StartupInv
<1>. QED
  BY <1>1, StartupInvariant, PTL

\* The secret that signs sessions survives every restart with the same store,
\* unless one could not be read or stored (main.go:39-43, postgres.go:333-354).
THEOREM SecretsLast == StartupSpec => []SessionsSurvive
<1>1. StartupInv => SessionsSurvive
  BY DEF StartupInv
<1>. QED
  BY <1>1, StartupInvariant, PTL
=============================================================================
