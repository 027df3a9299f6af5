--------------------------- MODULE DeltaRelayProofs ---------------------------
(***************************************************************************)
(* Proofs about DeltaRelay for every set of users and deltas, every TTL    *)
(* and page limit, and any number of ticks, handlers and failures.         *)
(***************************************************************************)
EXTENDS DeltaRelay, FiniteSetTheorems, TLAPS

(***************************************************************************)
(* Type correctness.                                                       *)
(***************************************************************************)

(* A handler that answers leaves its local variables well typed. *)
LEMMA FinishType ==
  ASSUME TypeOK, NEW u \in Users, Finish(u)
  PROVE  /\ pc' \in [Users -> Handling]
         /\ target' \in [Users -> Deltas \union {NoDelta}]
         /\ \A v \in Users : pc'[v] \in {"ackChecked", "ackCounted"}
                               => target'[v] \in Deltas
         /\ ts' \in [Users -> Time]
         /\ counted' \in [Users -> SUBSET Users]
         /\ acked' \in [Users -> SUBSET Users]
         /\ page' \in [Users -> SUBSET Deltas]
BY DEF TypeOK, Finish, Handling, Time

(* The rows that cascade from a project leave the tables well typed. *)
LEMMA CascadeType ==
  ASSUME TypeOK, CascadeProject
  PROVE  /\ exists' \in BOOLEAN
         /\ members' \subseteq Users
         /\ fate' \in [Deltas -> {"new", "stored"} \union Purges]
         /\ author' \in [Deltas -> Users \union {Nobody}]
         /\ created' \in [Deltas -> Time]
         /\ acks' \in [Deltas -> SUBSET Users]
         /\ wm' \in Time
         /\ departed' \subseteq Users
         /\ basis' \in [Deltas -> SUBSET Users]
         /\ silent' \subseteq Deltas
         /\ faulted' \subseteq Deltas
BY DEF TypeOK, CascadeProject, Purges, Time

LEMMA InitType == Init => TypeOK
BY UsersAssumption, SweepersAssumption, NumbersAssumption
   DEF Init, TypeOK, Handling, Sweeping, Purges, Time

(* Requests, members and pulls. *)
LEMMA RequestType ==
  ASSUME TypeOK, NEW u \in Users, Member(u) \/ Request(u)
  PROVE  TypeOK'
<1> USE NumbersAssumption DEF TypeOK, store, local, sweep, ghost, Handling, Time
<1>1. CASE Join(u)
  BY <1>1 DEF Join
<1>2. CASE LeaveProject(u)
  BY <1>2 DEF LeaveProject, DropMember, SaysNo
<1>3. CASE RemoveMember(u)
  BY <1>3 DEF RemoveMember, DropMember
<1>4. CASE ClientMeetsForbidden(u)
  BY <1>4 DEF ClientMeetsForbidden, SaysNo
<1>5. CASE PushBegin(u)
  BY <1>5 DEF PushBegin, CanStart
<1>6. ASSUME NEW d \in Deltas, AckBegin(u, d) PROVE TypeOK'
  BY <1>6 DEF AckBegin, CanStart
<1>7. CASE PullRead(u)
  BY <1>7 DEF PullRead, CanStart, Stored
<1> QED
  BY <1>1, <1>2, <1>3, <1>4, <1>5, <1>6, <1>7 DEF Member, Request

(* What a pull's reply does to cursors and the record of silent losses. *)
LEMMA ReplyType ==
  ASSUME TypeOK, NEW u \in Users, NEW c \in NextCursor(u), AdvanceCursor(u, c)
  PROVE  /\ cursor' \in [Users -> Time]
         /\ PassedOver(u, c) \subseteq Deltas
<1>1. c \in Time
  BY DEF NextCursor, TypeOK
<1> QED
  BY <1>1 DEF AdvanceCursor, TypeOK, PassedOver, Gone

LEMMA ProceedType ==
  ASSUME TypeOK, NEW u \in Users, Proceed(u)
  PROVE  TypeOK'
<1>1. ASSUME NEW d \in Deltas, PushInsert(u, d) PROVE TypeOK'
  BY <1>1, FinishType DEF PushInsert, TypeOK, sweep, ghost, Purges
<1>2. CASE PushRefused(u)
  BY <1>2, FinishType DEF PushRefused, TypeOK, store, sweep, ghost
<1>3. CASE AckGone(u)
  BY <1>3, FinishType DEF AckGone, TypeOK, store, sweep, ghost
<1>4. CASE AckCount(u)
  BY <1>4 DEF AckCount, TypeOK, store, sweep, ghost, Handling, Recipients, OwnAck
<1>5. CASE AckCommit(u)
  <2>1. target[u] \in Deltas
    BY <1>5 DEF AckCommit, TypeOK
  <2>2. /\ acks' \in [Deltas -> SUBSET Users]
        /\ basis' \in [Deltas -> SUBSET Users]
        /\ fate' \in [Deltas -> {"new", "stored"} \union Purges]
        /\ wm' \in Time
    BY <1>5, <2>1 DEF AckCommit, TypeOK, OwnAck, Greatest, Time, Purges
  <2> QED
    BY <1>5, <2>2, FinishType DEF AckCommit, TypeOK, sweep
<1>6. CASE PullReply(u)
  <2>1. PICK c \in NextCursor(u) :
          /\ AdvanceCursor(u, c)
          /\ silent' = IF u \in members /\ ts[u] # 0 /\ ~GapFlag(u)
                         THEN silent \union PassedOver(u, c) ELSE silent
    BY <1>6 DEF PullReply
  <2>2. cursor' \in [Users -> Time] /\ silent' \subseteq Deltas
    BY <2>1, ReplyType DEF TypeOK
  <2> QED
    BY <1>6, <2>2, FinishType DEF PullReply, TypeOK, store, sweep
<1> QED
  BY <1>1, <1>2, <1>3, <1>4, <1>5, <1>6 DEF Proceed

LEMMA SweepType ==
  ASSUME TypeOK, NEW s \in Sweepers, SweepStep(s)
  PROVE  TypeOK'
<1>0. /\ AfterSweep(s) \in Sweeping
      /\ {"solo", "expired", "advance", "tally"} \subseteq Sweeping
      /\ {"tally", "solo", "expired"} \subseteq Purges
  BY DEF AfterSweep, Sweeping, Purges
<1>1. CASE SweepTally(s)
  BY <1>0, <1>1
     DEF SweepTally, SweepDelete, Purge, TypeOK, local, ghost
<1>2. CASE SweepSolo(s)
  BY <1>0, <1>2
     DEF SweepSolo, SweepDelete, Purge, TypeOK, local, ghost
<1>3. CASE SweepExpired(s)
  BY <1>0, <1>3
     DEF SweepExpired, Purge, Expired, Stored, TypeOK, local, ghost
<1>4. CASE SweepAdvance(s)
  <2>1. wm' \in Time
    BY <1>4 DEF SweepAdvance, TypeOK, Greatest, Time
  <2> QED
    BY <1>0, <1>4, <2>1 DEF SweepAdvance, TypeOK, local, ghost
<1>5. CASE ForcedOrphanSweep(s)
  BY <1>0, <1>5, CascadeType
     DEF ForcedOrphanSweep, RemoveOrphan, TypeOK, store, local, ghost
<1> QED
  BY <1>1, <1>2, <1>3, <1>4, <1>5 DEF SweepStep

LEMMA FailureType ==
  ASSUME TypeOK, Failure
  PROVE  TypeOK'
<1>0. faults > 0 => faults - 1 \in 0..MaxFaults
  BY NumbersAssumption DEF TypeOK
<1>1. ASSUME NEW u \in Users, PullReplyUnread(u) PROVE TypeOK'
  <2>1. PICK c \in NextCursor(u) :
          /\ AdvanceCursor(u, c)
          /\ IF u \in members /\ ts[u] # 0
               THEN /\ silent' = silent \union PassedOver(u, c)
                    /\ faulted' = faulted \union PassedOver(u, c)
               ELSE UNCHANGED <<silent, faulted>>
    BY <1>1 DEF PullReplyUnread
  <2>2. /\ cursor' \in [Users -> Time]
        /\ silent' \subseteq Deltas
        /\ faulted' \subseteq Deltas
    BY <2>1, ReplyType DEF TypeOK
  <2> QED
    BY <1>0, <1>1, <2>2, FinishType DEF PullReplyUnread, TypeOK, store, sweep
<1>2. ASSUME NEW u \in Users, HandlerFails(u) PROVE TypeOK'
  BY <1>0, <1>2, FinishType DEF HandlerFails, TypeOK, store, sweep, ghost
<1>3. ASSUME NEW s \in Sweepers, SweepFails(s) PROVE TypeOK'
  <2>1. spc' \in [Sweepers -> Sweeping]
    BY <1>3 DEF SweepFails, TypeOK, Sweeping, AfterSweep, NextStatement
  <2>2. /\ cut' \in [Sweepers -> SUBSET Deltas]
        /\ faulted' \subseteq Deltas
    BY <1>3 DEF SweepFails, TypeOK
  <2> QED
    BY <1>0, <1>3, <2>1, <2>2 DEF SweepFails, TypeOK, store, local
<1>4. CASE Crash
  <2>1. /\ spc' \in [Sweepers -> Sweeping]
        /\ cut' \in [Sweepers -> SUBSET Deltas]
        /\ faulted' \subseteq Deltas
    BY <1>4 DEF Crash, TypeOK, Sweeping
  <2>2. /\ pc' \in [Users -> Handling]
        /\ target' \in [Users -> Deltas \union {NoDelta}]
        /\ \A v \in Users : pc'[v] = "idle"
        /\ ts' \in [Users -> Time]
        /\ counted' \in [Users -> SUBSET Users]
        /\ acked' \in [Users -> SUBSET Users]
        /\ page' \in [Users -> SUBSET Deltas]
    BY <1>4 DEF Crash, Handling, Time
  <2> QED
    BY <1>0, <1>4, <2>1, <2>2 DEF Crash, TypeOK, store
<1> QED
  BY <1>1, <1>2, <1>3, <1>4 DEF Failure

(* Every state of the relay is well typed. *)
THEOREM TypeCorrect == Spec => []TypeOK
<1>1. ASSUME TypeOK, [Next]_vars PROVE TypeOK'
  <2>1. ASSUME NEW u \in Users, Member(u) \/ Request(u) PROVE TypeOK'
    BY <1>1, <2>1, RequestType
  <2>2. ASSUME NEW u \in Users, Proceed(u) PROVE TypeOK'
    BY <1>1, <2>2, ProceedType
  <2>3. ASSUME NEW s \in Sweepers, SweepStep(s) PROVE TypeOK'
    BY <1>1, <2>3, SweepType
  <2>4. CASE HourlyOrphanSweep
    BY <1>1, <2>4, CascadeType DEF HourlyOrphanSweep, TypeOK, local, sweep
  <2>5. CASE DeleteProject
    BY <1>1, <2>5, CascadeType DEF DeleteProject, TypeOK, local, sweep
  <2>6. CASE Failure
    BY <1>1, <2>6, FailureType
  <2>7. CASE Tick
    BY <1>1, <2>7 DEF Tick, TypeOK, Time, store, local, sweep, ghost
  <2>8. CASE UNCHANGED vars
    BY <1>1, <2>8 DEF vars, TypeOK, store, local, sweep, ghost
  <2> QED
    BY <1>1, <2>1, <2>2, <2>3, <2>4, <2>5, <2>6, <2>7, <2>8 DEF Next
<1> QED
  BY <1>1, InitType, PTL DEF Spec

(***************************************************************************)
(* Acknowledgements.                                                       *)
(***************************************************************************)

\* What the invariants on acknowledgements speak of, apart from the handlers.
ackTables == <<members, fate, author, acks, departed, basis>>
ackLocals == <<pc, target, counted, acked>>

(* A step that concerns none of this changes no invariant of it. *)
LEMMA AckStutter ==
  ASSUME AckInv, UNCHANGED <<ackTables, ackLocals>>
  PROVE  AckInv'
BY DEF AckInv, LockInv, AckerInv, CountInv, NoLostLastAck, Stored, OwnAck,
       PrematurePurgeNeedsDeparture, ackTables, ackLocals

(* Users only move from being members to having been members. *)
LEMMA AckMembership ==
  ASSUME AckInv, UNCHANGED <<fate, author, acks, basis, ackLocals>>,
         members \union departed \subseteq members' \union departed',
         departed \subseteq departed'
  PROVE  AckInv'
BY DEF AckInv, LockInv, AckerInv, CountInv, NoLostLastAck, Stored, OwnAck,
       PrematurePurgeNeedsDeparture, ackLocals

(* Deltas that nobody holds a lock on are deleted, by other than an ack. *)
LEMMA AckRetire ==
  ASSUME TypeOK, AckInv, UNCHANGED <<author, acks, basis, ackLocals>>,
         members \union departed \subseteq members' \union departed',
         departed \subseteq departed',
         NEW S \in SUBSET Stored, \A d \in S : ~Locked(d),
         NEW how \in {"tally", "solo", "expired", "project"},
         fate' = [d \in Deltas |-> IF d \in S THEN how ELSE fate[d]]
  PROVE  AckInv'
<1>1. \A u \in Users : pc[u] = "ackCounted" => target[u] \in Deltas \ S
  BY DEF Locked, TypeOK
<1>2. LockInv'
  BY <1>1 DEF AckInv, LockInv, ackLocals
<1>3. AckerInv'
  BY DEF AckInv, AckerInv, ackLocals
<1>4. CountInv'
  BY DEF AckInv, CountInv, OwnAck, ackLocals
<1>5. \A d \in Deltas : fate'[d] = "stored" => fate[d] = "stored"
  OBVIOUS
<1>6. \A d \in Deltas : fate'[d] = "ack" => fate[d] = "ack"
  OBVIOUS
<1>7. NoLostLastAck'
  BY <1>5 DEF AckInv, NoLostLastAck, Stored
<1>8. PrematurePurgeNeedsDeparture'
  BY <1>6 DEF AckInv, PrematurePurgeNeedsDeparture
<1> QED
  BY <1>2, <1>3, <1>4, <1>7, <1>8 DEF AckInv

(* A handler answers and touches no table. *)
LEMMA AckFinish ==
  ASSUME TypeOK, AckInv, NEW u \in Users, Finish(u), UNCHANGED ackTables
  PROVE  AckInv'
BY DEF TypeOK, Finish, AckInv, LockInv, AckerInv, CountInv, NoLostLastAck,
       Stored, OwnAck, PrematurePurgeNeedsDeparture, ackTables

(* Deleting a project while no acknowledgement holds one of its deltas. *)
LEMMA AckCascade ==
  ASSUME TypeOK, AckInv, CascadeProject, UNCHANGED ackLocals,
         \A d \in Stored : ~Locked(d)
  PROVE  AckInv'
<1>1. /\ Stored \in SUBSET Stored
      /\ "project" \in {"tally", "solo", "expired", "project"}
      /\ fate' = [d \in Deltas |-> IF d \in Stored THEN "project" ELSE fate[d]]
      /\ members \union departed \subseteq members' \union departed'
      /\ departed \subseteq departed'
      /\ UNCHANGED <<author, acks, basis>>
  BY DEF CascadeProject, Stored
<1> QED
  BY <1>1, AckRetire

(* Sets that are compared by their sizes: enough acknowledgements are all  *)
(* of them, or one of them is somebody else's.                             *)
LEMMA EnoughMeans ==
  ASSUME NEW S \in SUBSET Users, NEW T \in SUBSET Users,
         Cardinality(T) >= Cardinality(S)
  PROVE  S \subseteq T \/ T \ S # {}
<1>1. IsFiniteSet(S) /\ IsFiniteSet(T)
  BY UsersAssumption, FS_Subset
<1>2. SUFFICES ASSUME T \subseteq S PROVE S \subseteq T
  OBVIOUS
<1>3. /\ Cardinality(T) <= Cardinality(S)
      /\ Cardinality(T) = Cardinality(S) => T = S
  BY <1>1, <1>2, FS_Subset
<1>4. Cardinality(S) \in Nat /\ Cardinality(T) \in Nat
  BY <1>1, FS_CardinalityType
<1> QED
  BY <1>3, <1>4

(* Too few acknowledgements leave one out. *)
LEMMA TooFewMeans ==
  ASSUME NEW S \in SUBSET Users, NEW T \in SUBSET Users,
         ~(Cardinality(T) >= Cardinality(S))
  PROVE  ~(S \subseteq T)
<1>1. IsFiniteSet(S) /\ IsFiniteSet(T)
  BY UsersAssumption, FS_Subset
<1>2. Cardinality(S) \in Nat /\ Cardinality(T) \in Nat
  BY <1>1, FS_CardinalityType
<1>3. S \subseteq T => Cardinality(S) <= Cardinality(T)
  BY <1>1, FS_Subset
<1> QED
  BY <1>2, <1>3

LEMMA AckCountStep ==
  ASSUME TypeOK, AckInv, NEW u \in Users, AckCount(u)
  PROVE  AckInv'
<1>1. /\ target[u] \in Deltas
      /\ UNCHANGED <<ackTables, target>>
      /\ pc' = [pc EXCEPT ![u] = "ackCounted"]
      /\ fate[target[u]] = "stored"
      /\ ~Locked(target[u])
  BY DEF AckCount, TypeOK, store, ghost, ackTables
<1>2. LockInv'
  BY <1>1 DEF AckInv, LockInv, Locked, TypeOK, ackTables
<1>3. AckerInv'
  BY <1>1 DEF AckCount, AckInv, AckerInv, TypeOK, ackTables
<1>4. CountInv'
  <2>1. SUFFICES ASSUME NEW v \in Users, pc'[v] = "ackCounted"
                 PROVE  /\ acked'[v] = acks[target[v]] \union OwnAck(v, target[v])
                        /\ acked'[v] \subseteq counted'[v] \union departed
    BY <1>1 DEF CountInv, OwnAck, ackTables
  <2>2. CASE v # u
    BY <1>1, <2>1, <2>2 DEF AckCount, AckInv, CountInv, TypeOK
  <2>3. CASE v = u
    <3>1. /\ acked'[u] = acks[target[u]] \union OwnAck(u, target[u])
          /\ counted'[u] = members \ {author[target[u]]}
      BY DEF AckCount, TypeOK, Recipients
    <3>2. /\ acks[target[u]] \subseteq members \union departed
          /\ author[target[u]] \notin acks[target[u]]
          /\ u \in members \union departed
      BY <1>1 DEF AckCount, AckInv, AckerInv
    <3> QED
      BY <2>3, <3>1, <3>2 DEF OwnAck
  <2> QED
    BY <2>2, <2>3
<1>5. NoLostLastAck' /\ PrematurePurgeNeedsDeparture'
  BY <1>1 DEF AckInv, NoLostLastAck, PrematurePurgeNeedsDeparture, Stored, ackTables
<1> QED
  BY <1>2, <1>3, <1>4, <1>5 DEF AckInv

LEMMA AckCommitStep ==
  ASSUME TypeOK, AckInv, NEW u \in Users, AckCommit(u)
  PROVE  AckInv'
<1> DEFINE d == target[u]
<1>1. /\ d \in Deltas
      /\ fate[d] = "stored"
      /\ pc[u] = "ackCounted"
      /\ acked[u] = acks[d] \union OwnAck(u, d)
      /\ acked[u] \subseteq counted[u] \union departed
      /\ acked[u] \in SUBSET Users
      /\ counted[u] \in SUBSET Users
  BY DEF AckCommit, AckInv, LockInv, CountInv, TypeOK
<1>2. /\ acks' = [acks EXCEPT ![d] = acked[u]]
      /\ basis' = [basis EXCEPT ![d] = counted[u]]
      /\ fate' = IF Enough(u) THEN [fate EXCEPT ![d] = "ack"] ELSE fate
      /\ UNCHANGED <<members, author, departed>>
      /\ Finish(u)
  BY <1>1 DEF AckCommit
<1>3. \A v \in Users : pc'[v] = "ackCounted" =>
        /\ v # u /\ pc[v] = "ackCounted" /\ target[v] # d
        /\ target'[v] = target[v] /\ acked'[v] = acked[v]
        /\ counted'[v] = counted[v] /\ target[v] \in Deltas
  BY <1>1, <1>2 DEF Finish, TypeOK, AckInv, LockInv
<1>4. LockInv'
  BY <1>1, <1>2, <1>3 DEF AckInv, LockInv, TypeOK
<1>5. AckerInv'
  <2>1. \A v \in Users :
          pc'[v] \in {"ackChecked", "ackCounted"} => v \in members \union departed
    BY <1>2 DEF Finish, TypeOK, AckInv, AckerInv
  <2>2. /\ acked[u] \subseteq members \union departed
        /\ author[d] \notin acked[u]
    BY <1>1 DEF AckInv, AckerInv, OwnAck
  <2>3. \A e \in Deltas : fate'[e] = "new" => fate[e] = "new" /\ e # d
    BY <1>1, <1>2 DEF TypeOK
  <2> QED
    BY <1>1, <1>2, <2>1, <2>2, <2>3 DEF AckInv, AckerInv, TypeOK
<1>6. CountInv'
  BY <1>1, <1>2, <1>3 DEF AckInv, CountInv, OwnAck, TypeOK
<1>7. NoLostLastAck'
  <2>1. SUFFICES ASSUME NEW e \in Deltas, fate'[e] = "stored", basis'[e] # {}
                 PROVE  ~(basis'[e] \subseteq acks'[e])
    BY DEF NoLostLastAck, Stored
  <2>2. CASE e # d
    BY <1>1, <1>2, <2>1, <2>2 DEF AckInv, NoLostLastAck, Stored, TypeOK
  <2>3. CASE e = d
    <3>1. ~Enough(u)
      BY <1>1, <1>2, <2>1, <2>3 DEF TypeOK
    <3>2. counted[u] # {} /\ basis'[e] = counted[u] /\ acks'[e] = acked[u]
      BY <1>1, <1>2, <2>1, <2>3 DEF TypeOK
    <3>3. IsFiniteSet(counted[u])
      BY <1>1, UsersAssumption, FS_Subset
    <3>4. Cardinality(counted[u]) > 0
      BY <3>2, <3>3, FS_EmptySet, FS_CardinalityType
    <3>5. ~(counted[u] \subseteq acked[u])
      BY <1>1, <3>1, <3>4, TooFewMeans DEF Enough
    <3> QED
      BY <3>2, <3>5
  <2> QED
    BY <2>2, <2>3
<1>8. PrematurePurgeNeedsDeparture'
  <2>1. SUFFICES ASSUME NEW e \in Deltas, fate'[e] = "ack"
                 PROVE  \/ basis'[e] \subseteq acks'[e]
                        \/ acks'[e] \intersect departed # {}
    BY <1>2 DEF PrematurePurgeNeedsDeparture
  <2>2. CASE e # d
    BY <1>1, <1>2, <2>1, <2>2
       DEF AckInv, PrematurePurgeNeedsDeparture, TypeOK
  <2>3. CASE e = d
    <3>1. Enough(u)
      BY <1>1, <1>2, <2>1, <2>3
    <3>2. basis'[e] = counted[u] /\ acks'[e] = acked[u]
      BY <1>1, <1>2, <2>3 DEF TypeOK
    <3>3. counted[u] \subseteq acked[u] \/ acked[u] \ counted[u] # {}
      BY <1>1, <3>1, EnoughMeans DEF Enough
    <3> QED
      BY <1>1, <3>2, <3>3
  <2> QED
    BY <2>2, <2>3
<1> QED
  BY <1>4, <1>5, <1>6, <1>7, <1>8 DEF AckInv

LEMMA AckRequest ==
  ASSUME TypeOK, AckInv, NEW u \in Users, Member(u) \/ Request(u)
  PROVE  AckInv'
<1>1. CASE Join(u)
  BY <1>1, AckMembership DEF Join, ackLocals, local, ghost
<1>2. CASE LeaveProject(u) \/ RemoveMember(u)
  BY <1>2, AckMembership
     DEF LeaveProject, RemoveMember, DropMember, ackLocals, local
<1>3. CASE ClientMeetsForbidden(u)
  BY <1>3, AckStutter
     DEF ClientMeetsForbidden, ackLocals, ackTables, store, local, ghost
<1>4. CASE PushBegin(u)
  BY <1>4 DEF PushBegin, CanStart, TypeOK, store, ghost, AckInv, LockInv,
              AckerInv, CountInv, NoLostLastAck, Stored, OwnAck,
              PrematurePurgeNeedsDeparture
<1>5. ASSUME NEW d \in Deltas, AckBegin(u, d) PROVE AckInv'
  BY <1>5 DEF AckBegin, CanStart, TypeOK, store, ghost, AckInv, LockInv,
              AckerInv, CountInv, NoLostLastAck, Stored, OwnAck,
              PrematurePurgeNeedsDeparture
<1>6. CASE PullRead(u)
  <2>1. /\ pc[u] = "idle"
        /\ pc' = [pc EXCEPT ![u] = "pullRead"]
        /\ UNCHANGED <<ackTables, target, counted, acked>>
    BY <1>6 DEF PullRead, CanStart, store, ghost, ackTables
  <2> QED
    BY <2>1 DEF TypeOK, AckInv, LockInv, AckerInv, CountInv, NoLostLastAck,
                Stored, OwnAck, PrematurePurgeNeedsDeparture, ackTables
<1> QED
  BY <1>1, <1>2, <1>3, <1>4, <1>5, <1>6 DEF Member, Request

LEMMA AckProceed ==
  ASSUME TypeOK, AckInv, NEW u \in Users, Proceed(u)
  PROVE  AckInv'
<1>1. ASSUME NEW d \in Deltas, PushInsert(u, d) PROVE AckInv'
  <2>1. \A v \in Users : pc'[v] \in {"ackChecked", "ackCounted"} =>
          /\ v # u /\ pc[v] = pc'[v] /\ target'[v] = target[v]
          /\ acked'[v] = acked[v] /\ counted'[v] = counted[v]
          /\ target[v] \in Deltas
    BY <1>1 DEF PushInsert, Finish, TypeOK
  <2>2. /\ fate[d] = "new"
        /\ fate' = [fate EXCEPT ![d] = "stored"]
        /\ author' = [author EXCEPT ![d] = u]
        /\ UNCHANGED <<members, acks, departed, basis>>
    BY <1>1 DEF PushInsert, ghost
  <2>3. \A v \in Users : pc'[v] = "ackCounted" => target[v] # d
    BY <2>1, <2>2 DEF AckInv, LockInv
  <2>4. LockInv'
    BY <2>1, <2>2, <2>3 DEF AckInv, LockInv, TypeOK
  <2>5. AckerInv'
    BY <2>1, <2>2 DEF AckInv, AckerInv, TypeOK
  <2>6. CountInv'
    BY <2>1, <2>2, <2>3 DEF AckInv, CountInv, OwnAck, TypeOK
  <2>7. NoLostLastAck' /\ PrematurePurgeNeedsDeparture'
    BY <2>2 DEF AckInv, AckerInv, NoLostLastAck, Stored,
                PrematurePurgeNeedsDeparture, TypeOK
  <2> QED
    BY <2>4, <2>5, <2>6, <2>7 DEF AckInv
<1>2. CASE PushRefused(u) \/ AckGone(u)
  BY <1>2, AckFinish DEF PushRefused, AckGone, ackTables, store, ghost
<1>3. CASE AckCount(u)
  BY <1>3, AckCountStep
<1>4. CASE AckCommit(u)
  BY <1>4, AckCommitStep
<1>5. CASE PullReply(u)
  BY <1>5, AckFinish DEF PullReply, ackTables, store
<1> QED
  BY <1>1, <1>2, <1>3, <1>4, <1>5 DEF Proceed

LEMMA AckSweep ==
  ASSUME TypeOK, AckInv, NEW s \in Sweepers, SweepStep(s)
  PROVE  AckInv'
<1>1. CASE SweepTally(s)
  <2>1. Tallied \in SUBSET Stored
    BY DEF Tallied
  <2> QED
    BY <1>1, <2>1, AckRetire
       DEF SweepTally, SweepDelete, Purge, local, ghost, ackLocals
<1>2. CASE SweepSolo(s)
  <2>1. {d \in Stored : Recipients(d) = {} \/ ~exists} \in SUBSET Stored
    OBVIOUS
  <2> QED
    BY <1>2, <2>1, AckRetire
       DEF SweepSolo, SweepDelete, Purge, local, ghost, ackLocals
<1>3. CASE SweepExpired(s)
  <2>1. Expired(s) \in SUBSET Stored
    BY DEF Expired
  <2> QED
    BY <1>3, <2>1, AckRetire
       DEF SweepExpired, Purge, local, ghost, ackLocals
<1>4. CASE SweepAdvance(s)
  BY <1>4, AckStutter DEF SweepAdvance, ackTables, ackLocals, local, ghost
<1>5. CASE ForcedOrphanSweep(s)
  <2>1. CASE Orphaned
    BY <1>5, <2>1, AckCascade
       DEF ForcedOrphanSweep, RemoveOrphan, Orphaned, local, ackLocals
  <2>2. CASE ~Orphaned
    BY <1>5, <2>2, AckStutter
       DEF ForcedOrphanSweep, RemoveOrphan, ackTables, ackLocals, store, local,
           ghost
  <2> QED
    BY <2>1, <2>2
<1> QED
  BY <1>1, <1>2, <1>3, <1>4, <1>5 DEF SweepStep

LEMMA AckFailure ==
  ASSUME TypeOK, AckInv, Failure
  PROVE  AckInv'
<1>1. ASSUME NEW u \in Users, PullReplyUnread(u) \/ HandlerFails(u) PROVE AckInv'
  BY <1>1, AckFinish DEF PullReplyUnread, HandlerFails, ackTables, store, ghost
<1>2. ASSUME NEW s \in Sweepers, SweepFails(s) PROVE AckInv'
  BY <1>2, AckStutter DEF SweepFails, ackTables, ackLocals, store, local
<1>3. CASE Crash
  <2>1. (\A u \in Users : pc'[u] = "idle") /\ UNCHANGED ackTables
    BY <1>3 DEF Crash, store, ackTables
  <2> QED
    BY <2>1 DEF AckInv, LockInv, AckerInv, CountInv, NoLostLastAck, Stored,
                PrematurePurgeNeedsDeparture, ackTables
<1> QED
  BY <1>1, <1>2, <1>3 DEF Failure

LEMMA AckInductive == TypeOK /\ AckInv /\ [Next]_vars => AckInv'
<1> SUFFICES ASSUME TypeOK, AckInv, [Next]_vars PROVE AckInv'
  OBVIOUS
<1>1. ASSUME NEW u \in Users, Member(u) \/ Request(u) PROVE AckInv'
  BY <1>1, AckRequest
<1>2. ASSUME NEW u \in Users, Proceed(u) PROVE AckInv'
  BY <1>2, AckProceed
<1>3. ASSUME NEW s \in Sweepers, SweepStep(s) PROVE AckInv'
  BY <1>3, AckSweep
<1>4. CASE HourlyOrphanSweep
  BY <1>4, AckCascade DEF HourlyOrphanSweep, Orphaned, local, ackLocals
<1>5. CASE DeleteProject
  BY <1>5, AckCascade DEF DeleteProject, local, ackLocals
<1>6. CASE Failure
  BY <1>6, AckFailure
<1>7. CASE Tick
  BY <1>7, AckStutter DEF Tick, ackTables, ackLocals, store, local, ghost
<1>8. CASE UNCHANGED vars
  BY <1>8, AckStutter DEF vars, ackTables, ackLocals, store, local, ghost
<1> QED
  BY <1>1, <1>2, <1>3, <1>4, <1>5, <1>6, <1>7, <1>8 DEF Next

LEMMA AckInitially == Init => AckInv
BY DEF Init, AckInv, LockInv, AckerInv, CountInv, NoLostLastAck, Stored,
       PrematurePurgeNeedsDeparture

LEMMA AckAlways == Spec => []AckInv
BY AckInitially, AckInductive, TypeCorrect, PTL DEF Spec

(* FOR UPDATE does what it is for: acknowledgements that run at the same   *)
(* time never leave a stored delta acknowledged by everybody counted.      *)
THEOREM LastAckIsSeen == Spec => []NoLostLastAck
BY AckAlways, PTL DEF AckInv

(* A delta deleted by ackDelta before all counted recipients acknowledged  *)
(* it always bears the acknowledgement of a user who has left.             *)
THEOREM PrematurePurgeIsADeparture == Spec => []PrematurePurgeNeedsDeparture
BY AckAlways, PTL DEF AckInv

(***************************************************************************)
(* Watermark and gap flag.                                                 *)
(***************************************************************************)

gapTables == <<exists, members, fate, created, wm>>
gapOthers == <<spc, cut, silent, faulted>>

(* A step that concerns none of this changes no invariant of it. *)
LEMMA GapStutter ==
  ASSUME GapInv, UNCHANGED <<gapTables, gapOthers>>
  PROVE  GapInv'
BY DEF GapInv, WatermarkCovers, WatermarkNamesAPurgedDelta, AckPurgeIsFlagged,
       NoStrayDelta, Stored, Gone, gapTables, gapOthers

(* Deleting the project ends what the watermark promises about it. *)
LEMMA GapCascade ==
  ASSUME TypeOK, GapInv, CascadeProject, UNCHANGED cut,
         \A s \in Sweepers : spc[s] = "advance" => spc'[s] = "advance"
  PROVE  GapInv'
<1>1. \A d \in Deltas : /\ fate[d] \in Purges => fate'[d] = fate[d]
                        /\ fate[d] # "stored" => fate'[d] = fate[d]
                        /\ fate'[d] # "stored"
  BY DEF CascadeProject, Purges
<1>2. /\ \A s \in Sweepers :
           /\ cut'[s] # {} => spc'[s] = "advance"
           /\ cut'[s] \subseteq {d \in Deltas : fate'[d] = "expired"}
      /\ silent' \subseteq Gone'
      /\ NoStrayDelta'
  BY <1>1 DEF CascadeProject, GapInv, Gone, Stored, NoStrayDelta
<1>3. /\ members' = {} /\ exists' = FALSE /\ wm' = 0
      /\ UNCHANGED <<silent, faulted>>
  BY DEF CascadeProject
<1>4. \A d \in silent : fate'[d] = "ack" => fate[d] = "ack"
  BY <1>1 DEF TypeOK, CascadeProject
<1>5. AckPurgeIsFlagged'
  BY <1>3, <1>4 DEF GapInv, AckPurgeIsFlagged
<1> QED
  BY <1>2, <1>3, <1>5
     DEF GapInv, WatermarkCovers, WatermarkNamesAPurgedDelta

(* A watermark that only grows keeps what it covers, and its delta stays   *)
(* purged, as long as deltas that are gone stay gone the same way.         *)
LEMMA GapPurge ==
  ASSUME TypeOK, GapInv, UNCHANGED <<exists, members, created, silent, faulted>>,
         wm' \in Time, wm <= wm',
         wm' # wm => \E d \in Deltas : fate'[d] \in Purges /\ created[d] = wm',
         \A d \in Deltas : fate[d] # "stored" => fate'[d] = fate[d],
         \A d \in Deltas : /\ fate'[d] = "ack" /\ fate[d] = "stored"
                                => created[d] <= wm'
                           /\ fate'[d] = "expired" /\ fate[d] = "stored"
                                => \E s \in Sweepers : d \in cut'[s],
         \A s \in Sweepers :
           /\ cut'[s] # {} => spc'[s] = "advance"
           /\ cut'[s] \subseteq {d \in Deltas : fate'[d] = "expired"}
           /\ \A d \in cut[s] : d \in cut'[s] \/ (exists => created[d] <= wm')
  PROVE  GapInv'
<1>1. "stored" \notin Purges
  BY DEF Purges
<1>2. \A d \in Gone : fate'[d] = fate[d] /\ d \in Gone'
  BY <1>1 DEF Gone
<1>3. silent' \subseteq Gone'
  BY <1>2 DEF GapInv
<1>4. AckPurgeIsFlagged'
  BY <1>2 DEF GapInv, AckPurgeIsFlagged
<1>5. NoStrayDelta'
  BY DEF GapInv, NoStrayDelta, Stored
<1>6. WatermarkNamesAPurgedDelta'
  BY <1>2 DEF GapInv, WatermarkNamesAPurgedDelta, Gone
<1>7. WatermarkCovers'
  <2>1. SUFFICES ASSUME exists, NEW d \in Deltas
                 PROVE  /\ fate'[d] = "ack" => created[d] <= wm'
                        /\ fate'[d] = "expired" =>
                             \/ created[d] <= wm'
                             \/ d \in faulted
                             \/ \E s \in Sweepers : d \in cut'[s]
    BY DEF WatermarkCovers
  <2>2. /\ created[d] \in Nat /\ wm \in Nat /\ wm' \in Nat
        /\ created[d] <= wm => created[d] <= wm'
    BY DEF TypeOK, Time
  <2>3. CASE fate[d] = "stored"
    BY <2>3
  <2>4. CASE fate[d] # "stored"
    BY <2>1, <2>2, <2>4 DEF GapInv, WatermarkCovers
  <2> QED
    BY <2>3, <2>4
<1> QED
  BY <1>3, <1>4, <1>5, <1>6, <1>7 DEF GapInv

LEMMA GapRequest ==
  ASSUME TypeOK, GapInv, NEW u \in Users, Member(u) \/ Request(u)
  PROVE  GapInv'
<1>1. CASE Join(u)
  BY <1>1 DEF Join, sweep, ghost, GapInv, WatermarkCovers, Stored, Gone,
              WatermarkNamesAPurgedDelta, AckPurgeIsFlagged, NoStrayDelta
<1>2. CASE LeaveProject(u) \/ RemoveMember(u)
  BY <1>2 DEF LeaveProject, RemoveMember, DropMember, sweep, GapInv,
              WatermarkCovers, Stored, Gone, WatermarkNamesAPurgedDelta,
              AckPurgeIsFlagged, NoStrayDelta
<1>3. CASE ClientMeetsForbidden(u) \/ PushBegin(u) \/ PullRead(u)
  BY <1>3, GapStutter
     DEF ClientMeetsForbidden, PushBegin, PullRead, store, sweep, ghost,
         gapTables, gapOthers
<1>4. ASSUME NEW d \in Deltas, AckBegin(u, d) PROVE GapInv'
  BY <1>4, GapStutter DEF AckBegin, store, sweep, ghost, gapTables, gapOthers
<1> QED
  BY <1>1, <1>2, <1>3, <1>4 DEF Member, Request

LEMMA GapReply ==
  ASSUME TypeOK, GapInv, NEW u \in Users, PullReply(u)
  PROVE  GapInv'
<1>1. PICK c \in NextCursor(u) :
        silent' = IF u \in members /\ ts[u] # 0 /\ ~GapFlag(u)
                    THEN silent \union PassedOver(u, c) ELSE silent
  BY DEF PullReply
<1>2. /\ UNCHANGED <<gapTables, spc, cut, faulted>>
      /\ PassedOver(u, c) \subseteq Gone
  BY DEF PullReply, store, sweep, gapTables, PassedOver
<1>3. ASSUME u \in members, ts[u] # 0, ~GapFlag(u),
             NEW d \in PassedOver(u, c), fate[d] = "ack"
      PROVE  FALSE
  <2>1. /\ exists
        /\ d \in Deltas
        /\ ts[u] < created[d]
    BY <1>3 DEF GapInv, PassedOver, Gone
  <2>2. created[d] <= wm
    BY <1>3, <2>1 DEF GapInv, WatermarkCovers
  <2>3. created[d] \in Nat /\ wm \in Nat /\ ts[u] \in Nat
    BY <2>1 DEF TypeOK, Time
  <2> QED
    BY <1>3, <2>1, <2>2, <2>3 DEF GapFlag
<1>4. AckPurgeIsFlagged'
  BY <1>1, <1>2, <1>3 DEF GapInv, AckPurgeIsFlagged, gapTables
<1>5. silent' \subseteq Gone'
  BY <1>1, <1>2 DEF GapInv, Gone, gapTables
<1> QED
  BY <1>2, <1>4, <1>5
     DEF GapInv, WatermarkCovers, WatermarkNamesAPurgedDelta, NoStrayDelta,
         Stored, Gone, gapTables

LEMMA GapCommit ==
  ASSUME TypeOK, AckInv, GapInv, NEW u \in Users, AckCommit(u)
  PROVE  GapInv'
<1> DEFINE d == target[u]
<1>1. /\ d \in Deltas
      /\ fate[d] = "stored"
      /\ created[d] \in Nat /\ wm \in Nat
  BY DEF AckCommit, AckInv, LockInv, TypeOK, Time
<1>2. /\ UNCHANGED <<exists, members, created, silent, faulted, spc, cut>>
      /\ fate' = IF Enough(u) THEN [fate EXCEPT ![d] = "ack"] ELSE fate
      /\ wm' = IF Enough(u) THEN Greatest(wm, created[d]) ELSE wm
  BY DEF AckCommit, sweep
<1>3. CASE ~Enough(u)
  BY <1>2, <1>3, GapStutter DEF gapTables, gapOthers
<1>4. CASE Enough(u)
  <2>1. /\ wm' \in Time /\ wm <= wm' /\ created[d] <= wm'
        /\ wm' # wm => created[d] = wm'
    BY <1>1, <1>2, <1>4 DEF Greatest, Time
  <2>2. /\ fate'[d] = "ack"
        /\ \A e \in Deltas : e # d => fate'[e] = fate[e]
        /\ "ack" \in Purges
    BY <1>1, <1>2, <1>4 DEF TypeOK, Purges
  <2>3. wm' # wm => \E e \in Deltas : fate'[e] \in Purges /\ created[e] = wm'
    BY <1>1, <2>1, <2>2
  <2>4. \A e \in Deltas : fate[e] # "stored" => fate'[e] = fate[e]
    BY <1>1, <2>2
  <2>5. \A e \in Deltas : /\ fate'[e] = "ack" /\ fate[e] = "stored"
                                => created[e] <= wm'
                          /\ fate'[e] = "expired" /\ fate[e] = "stored"
                                => \E s \in Sweepers : e \in cut'[s]
    BY <1>1, <2>1, <2>2
  <2>6. \A s \in Sweepers :
          /\ cut'[s] # {} => spc'[s] = "advance"
          /\ cut'[s] \subseteq {e \in Deltas : fate'[e] = "expired"}
          /\ \A e \in cut[s] : e \in cut'[s] \/ (exists => created[e] <= wm')
    BY <1>2, <2>4 DEF GapInv
  <2> QED
    BY <1>2, <2>1, <2>3, <2>4, <2>5, <2>6, GapPurge
<1> QED
  BY <1>3, <1>4

LEMMA GapProceed ==
  ASSUME TypeOK, AckInv, GapInv, NEW u \in Users, Proceed(u)
  PROVE  GapInv'
<1>1. ASSUME NEW d \in Deltas, PushInsert(u, d) PROVE GapInv'
  <2>1. /\ exists
        /\ fate[d] = "new"
        /\ fate' = [fate EXCEPT ![d] = "stored"]
        /\ created' = [created EXCEPT ![d] = ts[u]]
        /\ UNCHANGED <<exists, members, wm, gapOthers>>
    BY <1>1 DEF PushInsert, sweep, ghost, gapOthers
  <2>2. \A e \in Deltas : e # d => fate'[e] = fate[e] /\ created'[e] = created[e]
    BY <2>1 DEF TypeOK
  <2>3. /\ \A e \in Gone : e # d /\ e \in Gone'
        /\ \A s \in Sweepers : d \notin cut[s]
        /\ fate'[d] = "stored"
    BY <2>1, <2>2 DEF Gone, Purges, GapInv, TypeOK
  <2>4. silent' \subseteq Gone' /\ AckPurgeIsFlagged' /\ NoStrayDelta'
    BY <2>1, <2>2, <2>3
       DEF GapInv, AckPurgeIsFlagged, NoStrayDelta, Gone, gapOthers
  <2>5. WatermarkNamesAPurgedDelta'
    BY <2>1, <2>2, <2>3 DEF GapInv, WatermarkNamesAPurgedDelta, Gone
  <2>6. WatermarkCovers'
    BY <2>1, <2>2, <2>3 DEF GapInv, WatermarkCovers, gapOthers
  <2>7. \A s \in Sweepers :
          /\ cut'[s] # {} => spc'[s] = "advance"
          /\ cut'[s] \subseteq {e \in Deltas : fate'[e] = "expired"}
    BY <2>1, <2>2, <2>3 DEF GapInv, gapOthers
  <2> QED
    BY <2>1, <2>4, <2>5, <2>6, <2>7 DEF GapInv
<1>2. CASE PushRefused(u) \/ AckGone(u) \/ AckCount(u)
  BY <1>2, GapStutter
     DEF PushRefused, AckGone, AckCount, store, sweep, ghost, gapTables,
         gapOthers
<1>3. CASE AckCommit(u)
  BY <1>3, GapCommit
<1>4. CASE PullReply(u)
  BY <1>4, GapReply
<1> QED
  BY <1>1, <1>2, <1>3, <1>4 DEF Proceed

(* Steps 1 and 2 of a sweep delete stored deltas and touch no watermark. *)
LEMMA GapDelete ==
  ASSUME TypeOK, GapInv, NEW s \in Sweepers, NEW how \in {"tally", "solo"},
         NEW next \in Sweeping, NEW S \in SUBSET Stored,
         SweepDelete(s, how, S, next)
  PROVE  GapInv'
<1>1. /\ spc[s] = how
      /\ fate' = [d \in Deltas |-> IF d \in S THEN how ELSE fate[d]]
      /\ spc' = [spc EXCEPT ![s] = next]
      /\ UNCHANGED <<exists, members, created, wm, cut, silent, faulted>>
  BY DEF SweepDelete, Purge, ghost
<1>2. \A d \in Deltas : fate[d] # "stored" => fate'[d] = fate[d]
  BY <1>1 DEF Stored
<1>3. \A t \in Sweepers :
        /\ cut'[t] # {} => spc'[t] = "advance"
        /\ cut'[t] \subseteq {d \in Deltas : fate'[d] = "expired"}
  BY <1>1, <1>2 DEF GapInv, TypeOK
<1>4. \A d \in Deltas :
        fate[d] = "stored" => fate'[d] # "ack" /\ fate'[d] # "expired"
  BY <1>1
<1>5. wm' \in Time /\ wm <= wm'
  BY <1>1 DEF TypeOK, Time
<1> QED
  BY <1>1, <1>2, <1>3, <1>4, <1>5, GapPurge

LEMMA GapExpire ==
  ASSUME TypeOK, GapInv, NEW s \in Sweepers, SweepExpired(s)
  PROVE  GapInv'
<1>1. /\ spc[s] = "expired"
      /\ fate' = [d \in Deltas |-> IF d \in Expired(s) THEN "expired" ELSE fate[d]]
      /\ cut' = [cut EXCEPT ![s] = Expired(s)]
      /\ spc' = [spc EXCEPT ![s] =
                   IF Expired(s) = {} THEN AfterSweep(s) ELSE "advance"]
      /\ UNCHANGED <<exists, members, created, wm, silent, faulted>>
      /\ Expired(s) \subseteq Stored
  BY DEF SweepExpired, Purge, Expired, ghost
<1>2. cut[s] = {}
  BY <1>1 DEF GapInv
<1>3. \A d \in Deltas : fate[d] # "stored" => fate'[d] = fate[d]
  BY <1>1 DEF Stored
<1>4. \A d \in Deltas :
        /\ fate'[d] = "ack" /\ fate[d] = "stored" => FALSE
        /\ fate'[d] = "expired" /\ fate[d] = "stored" => d \in cut'[s]
  BY <1>1 DEF TypeOK
<1>5. \A t \in Sweepers :
        /\ cut'[t] # {} => spc'[t] = "advance"
        /\ cut'[t] \subseteq {d \in Deltas : fate'[d] = "expired"}
        /\ cut[t] \subseteq cut'[t]
  <2>1. SUFFICES ASSUME NEW t \in Sweepers
                 PROVE  /\ cut'[t] # {} => spc'[t] = "advance"
                        /\ cut'[t] \subseteq {d \in Deltas : fate'[d] = "expired"}
                        /\ cut[t] \subseteq cut'[t]
    OBVIOUS
  <2>2. CASE t = s
    BY <1>1, <1>2, <2>2 DEF TypeOK, Stored
  <2>3. CASE t # s
    BY <1>1, <1>3, <2>3 DEF TypeOK, GapInv
  <2> QED
    BY <2>2, <2>3
<1>6. wm' \in Time /\ wm <= wm'
  BY <1>1 DEF TypeOK, Time
<1> QED
  BY <1>1, <1>3, <1>4, <1>5, <1>6, GapPurge

LEMMA GapAdvance ==
  ASSUME TypeOK, GapInv, NEW s \in Sweepers, SweepAdvance(s)
  PROVE  GapInv'
<1>1. /\ cut' = [cut EXCEPT ![s] = {}]
      /\ spc' = [spc EXCEPT ![s] = AfterSweep(s)]
      /\ UNCHANGED <<exists, members, fate, created, silent, faulted>>
  BY DEF SweepAdvance, ghost
<1>2. /\ wm' \in Time /\ wm <= wm'
      /\ wm' # wm => \E d \in Deltas : fate'[d] \in Purges /\ created[d] = wm'
      /\ \A e \in cut[s] : exists => created[e] <= wm'
  <2>1. CASE ~exists
    BY <2>1 DEF SweepAdvance, TypeOK, Time
  <2>2. CASE exists
    <3>1. PICK d \in cut[s] : /\ \A e \in cut[s] : created[e] <= created[d]
                              /\ wm' = Greatest(wm, created[d])
      BY <2>2 DEF SweepAdvance
    <3>2. /\ cut[s] \subseteq Deltas
          /\ d \in Deltas /\ fate[d] = "expired" /\ "expired" \in Purges
          /\ \A e \in Deltas : created[e] \in Nat
          /\ wm \in Nat
      BY <3>1 DEF GapInv, TypeOK, Time, Purges
    <3>3. /\ wm' \in Nat /\ wm <= wm' /\ created[d] <= wm'
          /\ wm' # wm => created[d] = wm'
      BY <3>1, <3>2 DEF Greatest
    <3> QED
      BY <1>1, <3>1, <3>2, <3>3 DEF Time
  <2> QED
    BY <2>1, <2>2
<1>3. \A t \in Sweepers :
        /\ cut'[t] # {} => spc'[t] = "advance"
        /\ cut'[t] \subseteq {d \in Deltas : fate'[d] = "expired"}
        /\ t # s => cut'[t] = cut[t]
  BY <1>1 DEF GapInv, TypeOK
<1> QED
  BY <1>1, <1>2, <1>3, GapPurge

LEMMA GapSweep ==
  ASSUME TypeOK, GapInv, NEW s \in Sweepers, SweepStep(s)
  PROVE  GapInv'
<1>1. CASE SweepTally(s)
  BY <1>1, GapDelete DEF SweepTally, Tallied, Sweeping
<1>2. CASE SweepSolo(s)
  BY <1>2, GapDelete DEF SweepSolo, Sweeping
<1>3. CASE SweepExpired(s)
  BY <1>3, GapExpire
<1>4. CASE SweepAdvance(s)
  BY <1>4, GapAdvance
<1>5. CASE ForcedOrphanSweep(s)
  <2>1. /\ spc[s] = "orphans"
        /\ spc' = [spc EXCEPT ![s] = "tally"]
        /\ UNCHANGED cut
    BY <1>5 DEF ForcedOrphanSweep
  <2>2. /\ \A t \in Sweepers : spc[t] = "advance" => spc'[t] = "advance"
        /\ \A t \in Sweepers : cut[t] # {} => spc'[t] = "advance"
    BY <2>1 DEF GapInv, TypeOK
  <2>3. CASE Orphaned
    BY <1>5, <2>1, <2>2, <2>3, GapCascade DEF ForcedOrphanSweep, RemoveOrphan
  <2>4. CASE ~Orphaned
    BY <1>5, <2>1, <2>2, <2>4
       DEF ForcedOrphanSweep, RemoveOrphan, store, ghost, GapInv,
           WatermarkCovers, WatermarkNamesAPurgedDelta, AckPurgeIsFlagged,
           NoStrayDelta, Stored, Gone
  <2> QED
    BY <2>3, <2>4
<1> QED
  BY <1>1, <1>2, <1>3, <1>4, <1>5 DEF SweepStep

LEMMA GapFailure ==
  ASSUME TypeOK, GapInv, Failure
  PROVE  GapInv'
<1>1. ASSUME NEW u \in Users, PullReplyUnread(u) PROVE GapInv'
  <2>1. PICK c \in NextCursor(u) :
          IF u \in members /\ ts[u] # 0
            THEN /\ silent' = silent \union PassedOver(u, c)
                 /\ faulted' = faulted \union PassedOver(u, c)
            ELSE UNCHANGED <<silent, faulted>>
    BY <1>1 DEF PullReplyUnread
  <2>2. /\ UNCHANGED <<gapTables, spc, cut>>
        /\ PassedOver(u, c) \subseteq Gone
    BY <1>1 DEF PullReplyUnread, store, sweep, gapTables, PassedOver
  <2>3. /\ silent' \subseteq Gone'
        /\ AckPurgeIsFlagged'
        /\ faulted \subseteq faulted'
    BY <2>1, <2>2 DEF GapInv, AckPurgeIsFlagged, Gone, gapTables
  <2> QED
    BY <2>2, <2>3
       DEF GapInv, WatermarkCovers, WatermarkNamesAPurgedDelta, NoStrayDelta,
           Stored, Gone, gapTables
<1>2. ASSUME NEW u \in Users, HandlerFails(u) PROVE GapInv'
  BY <1>2, GapStutter
     DEF HandlerFails, store, sweep, ghost, gapTables, gapOthers
<1>3. ASSUME NEW s \in Sweepers, SweepFails(s) PROVE GapInv'
  <2>1. /\ faulted' = faulted \union cut[s]
        /\ cut' = [cut EXCEPT ![s] = {}]
        /\ UNCHANGED <<gapTables, silent>>
        /\ \A t \in Sweepers : t # s => spc'[t] = spc[t]
    BY <1>3 DEF SweepFails, store, gapTables, TypeOK
  <2>2. \A t \in Sweepers : \A d \in cut[t] : d \in cut'[t] \/ d \in faulted'
    BY <2>1 DEF TypeOK
  <2>3. \A t \in Sweepers :
          /\ cut'[t] # {} => spc'[t] = "advance"
          /\ cut'[t] \subseteq {d \in Deltas : fate'[d] = "expired"}
    BY <2>1 DEF GapInv, TypeOK, gapTables
  <2>4. WatermarkCovers'
    BY <2>1, <2>2 DEF GapInv, WatermarkCovers, gapTables
  <2> QED
    BY <2>1, <2>3, <2>4
       DEF GapInv, WatermarkNamesAPurgedDelta, AckPurgeIsFlagged, NoStrayDelta,
           Stored, Gone, gapTables
<1>4. CASE Crash
  <2>1. /\ faulted' = faulted \union UNION {cut[s] : s \in Sweepers}
        /\ \A s \in Sweepers : cut'[s] = {}
        /\ UNCHANGED <<gapTables, silent>>
    BY <1>4 DEF Crash, store, gapTables
  <2>2. WatermarkCovers'
    BY <2>1 DEF GapInv, WatermarkCovers, gapTables
  <2> QED
    BY <2>1, <2>2
       DEF GapInv, WatermarkNamesAPurgedDelta, AckPurgeIsFlagged, NoStrayDelta,
           Stored, Gone, gapTables
<1> QED
  BY <1>1, <1>2, <1>3, <1>4 DEF Failure

LEMMA GapInductive == TypeOK /\ AckInv /\ GapInv /\ [Next]_vars => GapInv'
<1> SUFFICES ASSUME TypeOK, AckInv, GapInv, [Next]_vars PROVE GapInv'
  OBVIOUS
<1>1. ASSUME NEW u \in Users, Member(u) \/ Request(u) PROVE GapInv'
  BY <1>1, GapRequest
<1>2. ASSUME NEW u \in Users, Proceed(u) PROVE GapInv'
  BY <1>2, GapProceed
<1>3. ASSUME NEW s \in Sweepers, SweepStep(s) PROVE GapInv'
  BY <1>3, GapSweep
<1>4. CASE HourlyOrphanSweep
  BY <1>4, GapCascade DEF HourlyOrphanSweep, sweep
<1>5. CASE DeleteProject
  BY <1>5, GapCascade DEF DeleteProject, sweep
<1>6. CASE Failure
  BY <1>6, GapFailure
<1>7. CASE Tick
  BY <1>7, GapStutter DEF Tick, gapTables, gapOthers, store, sweep, ghost
<1>8. CASE UNCHANGED vars
  BY <1>8, GapStutter DEF vars, gapTables, gapOthers, store, sweep, ghost
<1> QED
  BY <1>1, <1>2, <1>3, <1>4, <1>5, <1>6, <1>7, <1>8 DEF Next

LEMMA GapInitially == Init => GapInv
BY DEF Init, GapInv, WatermarkCovers, WatermarkNamesAPurgedDelta,
       AckPurgeIsFlagged, NoStrayDelta, Stored, Gone, Purges

LEMMA GapAlways == Spec => []GapInv
BY GapInitially, GapInductive, TypeCorrect, AckAlways, PTL DEF Spec

(* The watermark covers every delta that was acknowledged away, and every  *)
(* expired one except between the two statements of a sweep.               *)
THEOREM WatermarkIsComplete == Spec => []WatermarkCovers
BY GapAlways, PTL DEF GapInv

(* The watermark is never ahead of what was purged. *)
THEOREM WatermarkIsHonest == Spec => []WatermarkNamesAPurgedDelta
BY GapAlways, PTL DEF GapInv

(* An unflagged reply never hides a delta that was acknowledged away,      *)
(* wherever the purge falls between the two reads of the pull.             *)
THEOREM AcknowledgedAwayIsFlagged == Spec => []AckPurgeIsFlagged
BY GapAlways, PTL DEF GapInv

(* No delta is stored for a project that is gone. *)
THEOREM NothingStray == Spec => []NoStrayDelta
BY GapAlways, PTL DEF GapInv

(* The watermark never goes back while the project exists. *)
THEOREM WatermarkOnlyGrows == Spec => WatermarkMonotone
<1>1. ASSUME TypeOK, [Next]_vars PROVE [exists' => wm <= wm']_vars
  <2>0. wm \in Nat /\ (wm' = wm => wm <= wm')
    BY <1>1 DEF TypeOK, Time
  <2>1. ASSUME NEW u \in Users, Member(u) \/ Request(u) PROVE wm' = wm
    BY <2>1 DEF Member, Request, Join, LeaveProject, RemoveMember, DropMember,
                ClientMeetsForbidden, PushBegin, AckBegin, PullRead, store
  <2>2. ASSUME NEW u \in Users, Proceed(u) PROVE wm <= wm'
    <3>1. CASE AckCommit(u)
      BY <1>1, <2>0, <3>1 DEF AckCommit, Greatest, TypeOK, Time
    <3> QED
      BY <2>0, <2>2, <3>1 DEF Proceed, PushInsert, PushRefused, AckGone, AckCount,
                              PullReply, store
  <2>3. ASSUME NEW s \in Sweepers, SweepStep(s) PROVE exists' => wm <= wm'
    <3>1. CASE SweepAdvance(s)
      BY <1>1, <2>0, <3>1 DEF SweepAdvance, Greatest, TypeOK, Time
    <3>2. CASE ForcedOrphanSweep(s)
      BY <2>0, <3>2 DEF ForcedOrphanSweep, RemoveOrphan, CascadeProject, store
    <3> QED
      BY <2>0, <2>3, <3>1, <3>2
         DEF SweepStep, SweepTally, SweepSolo, SweepExpired, SweepDelete
  <2>4. CASE HourlyOrphanSweep \/ DeleteProject
    BY <2>4 DEF HourlyOrphanSweep, DeleteProject, CascadeProject
  <2>5. CASE Failure
    BY <2>0, <2>5 DEF Failure, PullReplyUnread, HandlerFails, SweepFails, Crash,
                      store
  <2>6. CASE Tick
    BY <2>0, <2>6 DEF Tick, store
  <2> QED
    BY <1>1, <2>0, <2>1, <2>2, <2>3, <2>4, <2>5, <2>6 DEF Next, vars
<1> QED
  BY <1>1, TypeCorrect, PTL DEF Spec, WatermarkMonotone

-----------------------------------------------------------------------------
(* The relay implements RelayContract: every step is one of the log's, or  *)
(* is not seen there.                                                      *)

\* The deltas that acknowledgements purged, and those that left otherwise.
Delivered == {d \in Deltas : fate[d] = "ack"}
Dropped   == {d \in Deltas : fate[d] \in Purges \ {"ack"}}

(* A step that leaves the tables of the log alone. *)
LEMMA LogStutter ==
  ASSUME UNCHANGED <<exists, fate, created, wm>>
  PROVE  UNCHANGED Log!logVars
BY DEF Log!logVars, Stored

(* An INSERT brings a new entry in. *)
LEMMA LogPush ==
  ASSUME TypeOK, NEW u \in Users, NEW d \in Deltas, PushInsert(u, d)
  PROVE  Log!Append(d)
<1>1. /\ exists /\ exists' = exists /\ wm' = wm
      /\ fate[d] = "new" /\ fate' = [fate EXCEPT ![d] = "stored"]
      /\ created' = [created EXCEPT ![d] = ts[u]]
  BY DEF PushInsert
<1>2. ts[u] \in Nat /\ created'[d] = ts[u] /\ created' = [created EXCEPT ![d] = created'[d]]
  BY <1>1 DEF TypeOK, Time
<1>3. /\ Stored' = Stored \cup {d}
      /\ Delivered' = Delivered /\ Dropped' = Dropped
  BY <1>1 DEF TypeOK, Stored, Delivered, Dropped, Purges
<1>4. d \notin Stored \cup Delivered \cup Dropped
  BY <1>1 DEF Stored, Delivered, Dropped, Purges
<1> QED
  BY <1>1, <1>2, <1>3, <1>4 DEF Log!Append, Delivered, Dropped

(* A commit delivers its delta, or changes nothing the log has. *)
LEMMA LogCommit ==
  ASSUME TypeOK, AckInv, GapInv, NEW u \in Users, AckCommit(u)
  PROVE  (\E d \in Deltas : Log!Deliver(d)) \/ UNCHANGED Log!logVars
<1>t. PICK d \in Deltas : d = target[u]
  BY DEF AckCommit, TypeOK
<1>1. d \in Deltas /\ fate[d] = "stored" /\ exists
  BY <1>t DEF AckCommit, TypeOK, AckInv, LockInv, GapInv, NoStrayDelta, Stored
<1>2. exists' = exists /\ created' = created
  BY DEF AckCommit
<1>3. CASE Enough(u)
  <2>1. fate' = [fate EXCEPT ![d] = "ack"] /\ wm' = Greatest(wm, created[d])
    BY <1>3, <1>t DEF AckCommit
  <2>2. wm' \in {wm, created[d]} /\ wm <= wm' /\ created[d] <= wm'
    BY <1>1, <2>1 DEF Greatest, TypeOK, Time
  <2>3. /\ Stored' = Stored \ {d}
        /\ Delivered' = Delivered \cup {d} /\ Dropped' = Dropped
    BY <1>1, <2>1 DEF TypeOK, Stored, Delivered, Dropped, Purges
  <2>4. d \in Stored
    BY <1>1 DEF Stored
  <2>5. Log!Deliver(d)
    BY <1>1, <1>2, <2>2, <2>3, <2>4 DEF Log!Deliver, Delivered, Dropped
  <2> QED
    BY <1>1, <2>5
<1>4. CASE ~Enough(u)
  BY <1>2, <1>4, LogStutter DEF AckCommit
<1> QED
  BY <1>3, <1>4

(* A DELETE that writes no watermark drops entries. *)
LEMMA LogPurge ==
  ASSUME TypeOK, GapInv, NEW S \in SUBSET Stored, NEW how \in Purges \ {"ack"},
         Purge(S, how), UNCHANGED <<exists, created, wm>>
  PROVE  Log!Drop \/ UNCHANGED Log!logVars
<1>1. fate' = [d \in Deltas |-> IF d \in S THEN how ELSE fate[d]]
  BY DEF Purge
<1>2. CASE S = {}
  BY <1>1, <1>2, LogStutter DEF TypeOK
<1>3. CASE S # {}
  <2>1. exists
    BY <1>3 DEF GapInv, NoStrayDelta
  <2>2. /\ Stored' = Stored \ S
        /\ Delivered' = Delivered /\ Dropped' = Dropped \cup S
    BY <1>1 DEF TypeOK, Stored, Delivered, Dropped, Purges
  <2>3. Stored' \subseteq Stored /\ Dropped' = Dropped \cup (Stored \ Stored')
    BY <2>2
  <2> QED
    BY <2>1, <2>2, <2>3 DEF Log!Drop, Delivered, Dropped
<1> QED
  BY <1>2, <1>3

(* The deletion of a project closes the log. *)
LEMMA LogCascade ==
  ASSUME TypeOK, exists, CascadeProject
  PROVE  Log!Close
<1>1. /\ exists' = FALSE /\ wm' = 0 /\ created' = created
      /\ fate' = [d \in Deltas |-> IF fate[d] = "stored" THEN "project" ELSE fate[d]]
  BY DEF CascadeProject
<1>2. /\ Stored' = {} /\ Delivered' = Delivered /\ Dropped' = Dropped \cup Stored
  BY <1>1 DEF TypeOK, Stored, Delivered, Dropped, Purges
<1> QED
  BY <1>1, <1>2 DEF Log!Close, Delivered, Dropped

(* A watermark after a sweep raises the floor, or is none. *)
LEMMA LogAdvance ==
  ASSUME TypeOK, GapInv, NEW s \in Sweepers, SweepAdvance(s)
  PROVE  Log!Raise \/ UNCHANGED Log!logVars
<1>1. exists' = exists /\ fate' = fate /\ created' = created
  BY DEF SweepAdvance
<1>2. CASE wm' = wm
  BY <1>1, <1>2, LogStutter
<1>3. CASE wm' # wm
  <2>1. PICK d \in cut[s] : wm' = Greatest(wm, created[d])
    BY <1>3 DEF SweepAdvance
  <2>2. d \in Deltas /\ fate[d] = "expired"
    BY <2>1 DEF GapInv
  <2>3. wm < created[d] /\ wm' = created[d]
    BY <1>3, <2>1, <2>2 DEF Greatest, TypeOK, Time
  <2>4. d \in Dropped
    BY <2>2 DEF Dropped, Purges
  <2>5. exists
    BY <1>3 DEF SweepAdvance
  <2>6. /\ Stored' = Stored /\ Delivered' = Delivered /\ Dropped' = Dropped
    BY <1>1 DEF Stored, Delivered, Dropped
  <2> QED
    BY <1>1, <2>3, <2>4, <2>5, <2>6 DEF Log!Raise, Delivered, Dropped
<1> QED
  BY <1>2, <1>3

LEMMA LogSweep ==
  ASSUME TypeOK, GapInv, NEW s \in Sweepers, SweepStep(s)
  PROVE  Log!LogNext \/ UNCHANGED Log!logVars
<1>1. CASE SweepTally(s)
  <2>1. Tallied \in SUBSET Stored /\ "tally" \in Purges \ {"ack"}
    BY DEF Tallied, Purges
  <2> QED
    BY <1>1, <2>1, LogPurge DEF SweepTally, SweepDelete, Log!LogNext
<1>2. CASE SweepSolo(s)
  <2> DEFINE S == {d \in Stored : Recipients(d) = {} \/ ~exists}
  <2>1. S \in SUBSET Stored /\ "solo" \in Purges \ {"ack"}
    BY DEF Purges
  <2>2. Purge(S, "solo") /\ UNCHANGED <<exists, created, wm>>
    BY <1>2 DEF SweepSolo, SweepDelete
  <2> QED
    BY <2>1, <2>2, LogPurge DEF Log!LogNext
<1>3. CASE SweepExpired(s)
  <2>1. Expired(s) \in SUBSET Stored /\ "expired" \in Purges \ {"ack"}
    BY DEF Expired, Purges
  <2> QED
    BY <1>3, <2>1, LogPurge DEF SweepExpired, Log!LogNext
<1>4. CASE SweepAdvance(s)
  BY <1>4, LogAdvance DEF Log!LogNext
<1>5. CASE ForcedOrphanSweep(s)
  BY <1>5, LogCascade, LogStutter DEF ForcedOrphanSweep, RemoveOrphan, Orphaned, store, Log!LogNext
<1> QED
  BY <1>1, <1>2, <1>3, <1>4, <1>5 DEF SweepStep

LEMMA LogStep ==
  ASSUME TypeOK, AckInv, GapInv, [Next]_vars
  PROVE  [Log!LogNext]_(Log!logVars)
<1>1. ASSUME NEW u \in Users, Member(u) \/ Request(u)
      PROVE  UNCHANGED Log!logVars
  BY <1>1, LogStutter
     DEF Member, Request, Join, LeaveProject, RemoveMember, DropMember,
         ClientMeetsForbidden, PushBegin, AckBegin, PullRead, store
<1>2. ASSUME NEW u \in Users, Proceed(u)
      PROVE  Log!LogNext \/ UNCHANGED Log!logVars
  <2>1. ASSUME NEW d \in Deltas, PushInsert(u, d) PROVE Log!LogNext
    BY <2>1, LogPush DEF Log!LogNext
  <2>2. CASE AckCommit(u)
    BY <2>2, LogCommit DEF Log!LogNext
  <2>3. CASE PushRefused(u) \/ AckGone(u) \/ AckCount(u) \/ PullReply(u)
    BY <2>3, LogStutter DEF PushRefused, AckGone, AckCount, PullReply, store
  <2> QED
    BY <1>2, <2>1, <2>2, <2>3 DEF Proceed
<1>3. ASSUME NEW s \in Sweepers, SweepStep(s)
      PROVE  Log!LogNext \/ UNCHANGED Log!logVars
  BY <1>3, LogSweep
<1>4. CASE HourlyOrphanSweep \/ DeleteProject
  BY <1>4, LogCascade DEF HourlyOrphanSweep, Orphaned, DeleteProject, Log!LogNext
<1>5. CASE Failure
  BY <1>5, LogStutter DEF Failure, PullReplyUnread, HandlerFails, SweepFails, Crash, store
<1>6. CASE Tick \/ UNCHANGED vars
  BY <1>6, LogStutter DEF Tick, vars, store
<1> QED
  BY <1>1, <1>2, <1>3, <1>4, <1>5, <1>6 DEF Next

(* The relay implements the log with a floor of RelayContract: purged      *)
(* deltas never return, those acknowledged away are under the watermark at *)
(* once, and the watermark is honest and never goes back, for any sets of  *)
(* users and deltas and any number of failures.                            *)
THEOREM RelayKeepsTheLog == Spec => KeepsTheLog
<1>1. Init => Log!LogInit
  BY DEF Init, Log!LogInit, Stored, Purges
<1>2. TypeOK /\ AckInv /\ GapInv /\ [Next]_vars => [Log!LogNext]_(Log!logVars)
  BY LogStep
<1> QED
  BY <1>1, <1>2, TypeCorrect, AckAlways, GapAlways, PTL DEF Spec, KeepsTheLog, Log!Spec
=============================================================================
