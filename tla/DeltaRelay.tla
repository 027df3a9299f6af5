------------------------------ MODULE DeltaRelay ------------------------------
(***************************************************************************)
(* The encrypted cloud relay of one project, as the server runs it on      *)
(* PostgreSQL: members push deltas, pull them with a `since` cursor and    *)
(* acknowledge them; an acknowledgement transaction, an hourly sweeper, an *)
(* operator's forced sweep and the orphan sweeper delete them again.       *)
(*                                                                         *)
(* Every SQL statement outside a transaction is one step; the transaction  *)
(* of ackDelta is the two steps that matter, the one that locks the row    *)
(* and counts, and the one that deletes and commits.  Handlers of several  *)
(* members and the sweepers interleave between the steps.                  *)
(*                                                                         *)
(* Time is a natural number that Tick advances; 0 is Go's zero time, which *)
(* here is "no cursor" or "no watermark".                                  *)
(***************************************************************************)
EXTENDS Naturals, FiniteSets

CONSTANTS
  Users,        \* everybody who may be a member of the project
  Owner,        \* the owner, who cannot be removed, nor leave as long as no query fails
  Nobody,       \* the author of a delta that does not exist yet
  Deltas,       \* the identities that deltas may get
  NoDelta,      \* "no delta", for a handler that works on none
  TTL,          \* the rolling window (3 days) in ticks
  OrphanAge,    \* the age after which an empty project is swept (24 hours)
  Sweepers,     \* the sweeps that run: "hourly", "forced" or both
  PageLimit,    \* deltas in a reply to a pull that sends a cursor
  MaxTime,      \* bound: the clock stops here
  LastPush,     \* bound: no push begins later
  MaxInFlight,  \* bound: handlers in progress at once
  MaxFaults     \* bound: failed statements and crashes of a behaviour

ASSUME UsersAssumption ==
  /\ IsFiniteSet(Users)
  /\ Owner \in Users
  /\ Nobody \notin Users

ASSUME DeltasAssumption == NoDelta \notin Deltas

ASSUME SweepersAssumption == Sweepers \subseteq {"hourly", "forced"}

ASSUME NumbersAssumption ==
  /\ {TTL, OrphanAge, MaxTime, LastPush, MaxInFlight, MaxFaults} \subseteq Nat
  /\ PageLimit \in Nat \ {0}

Time     == Nat
Handling == {"idle", "pushStamped", "ackChecked", "ackCounted", "pullRead"}
Sweeping == {"tally", "solo", "expired", "advance", "orphans"}
\* How a delta came to be deleted; "ack" is the transaction of ackDelta.
Purges   == {"ack", "tally", "solo", "expired", "project"}

VARIABLES
  now,      \* time.Now()
  exists,   \* the row in projects
  members,  \* the rows in project_members
  fate,     \* per delta: "new", "stored" (a row in deltas) or how it was purged
  author,   \* deltas.author_id
  created,  \* deltas.created_at
  acks,     \* delta_acks, kept after the purge for the properties
  wm,       \* delta_watermarks.purged_through, 0 when there is no row
  pc,       \* what the handler of a user's request does next
  target,   \* the delta of the user's acknowledgement
  ts,       \* created_at of a push under way, since of a pull under way
  counted,  \* the recipients behind `needed` in a user's acknowledgement
  acked,    \* the rows behind `acked` in a user's acknowledgement
  page,     \* the deltas that a user's pull has read
  cursor,   \* the client's `since` cursor, 0 when it has none
  spc,      \* the statement a sweeper executes next
  cut,      \* the rows that a sweeper's DELETE ... RETURNING gave back
  faults,   \* how many failures may still happen
  \* What the properties need to remember and the program does not:
  departed, \* users whose membership row was deleted at some time
  basis,    \* the recipients counted by the last acknowledgement of a delta
  silent,   \* deltas that an unflagged reply passed over for good
  faulted   \* deltas of which a failure lost the watermark

store == <<exists, members, fate, author, created, acks, wm>>
local == <<pc, target, ts, counted, acked, page>>
sweep == <<spc, cut>>
ghost == <<departed, basis, silent, faulted>>
vars  == <<now, store, local, cursor, sweep, faults, ghost>>

-----------------------------------------------------------------------------
Init ==
  /\ now = 1
  /\ exists = TRUE
  /\ members = {Owner}
  /\ fate = [d \in Deltas |-> "new"]
  /\ author = [d \in Deltas |-> Nobody]
  /\ created = [d \in Deltas |-> 0]
  /\ acks = [d \in Deltas |-> {}]
  /\ wm = 0
  /\ pc = [u \in Users |-> "idle"]
  /\ target = [u \in Users |-> NoDelta]
  /\ ts = [u \in Users |-> 0]
  /\ counted = [u \in Users |-> {}]
  /\ acked = [u \in Users |-> {}]
  /\ page = [u \in Users |-> {}]
  /\ cursor = [u \in Users |-> 0]
  /\ spc = [s \in Sweepers |-> "tally"]
  /\ cut = [s \in Sweepers |-> {}]
  /\ faults = MaxFaults
  /\ departed = {}
  /\ basis = [d \in Deltas |-> {}]
  /\ silent = {}
  /\ faulted = {}

Stored == {d \in Deltas : fate[d] = "stored"}
Gone   == {d \in Deltas : fate[d] \in Purges}

Recipients(d) == members \ {author[d]}

\* SELECT ... FOR UPDATE holds the row of a delta until the transaction ends.
Locked(d) == \E u \in Users : pc[u] = "ackCounted" /\ target[u] = d

\* Mutant: the upsert overwrites instead of taking the greater stamp.
MutGreatest(a, b) == b

Greatest(a, b) == IF a >= b THEN a ELSE b

\* A new handler starts only while the bound on handlers allows it.
CanStart(u) ==
  /\ pc[u] = "idle"
  /\ Cardinality({v \in Users : pc[v] # "idle"}) < MaxInFlight

\* The handler answers and its local variables are gone.
Finish(u) ==
  /\ pc' = [pc EXCEPT ![u] = "idle"]
  /\ target' = [target EXCEPT ![u] = NoDelta]
  /\ ts' = [ts EXCEPT ![u] = 0]
  /\ counted' = [counted EXCEPT ![u] = {}]
  /\ acked' = [acked EXCEPT ![u] = {}]
  /\ page' = [page EXCEPT ![u] = {}]

-----------------------------------------------------------------------------
(* Membership, as far as the relay reads it. *)

Join(u) ==
  /\ exists
  /\ u \notin members
  /\ members' = members \union {u}
  /\ UNCHANGED <<now, exists, fate, author, created, acks, wm, local, cursor,
                 sweep, faults, ghost>>

\* IsProjectMember and IsProjectOwner say no also when their query fails.
SaysNo(isSo) ==
  \/ ~isSo /\ UNCHANGED faults
  \/ isSo /\ faults > 0 /\ faults' = faults - 1

DropMember(u) ==
  /\ u \in members
  /\ members' = members \ {u}
  /\ departed' = departed \union {u}
  /\ UNCHANGED <<now, exists, fate, author, created, acks, wm, local, sweep,
                 basis, silent, faulted>>

\* The client of a member who leaves drops its workspace, cursor included.
LeaveProject(u) ==
  /\ SaysNo(u = Owner)
  /\ DropMember(u)
  /\ cursor' = [cursor EXCEPT ![u] = 0]

\* The client of a member who is evicted keeps its cursor until it meets a 403.
RemoveMember(u) ==
  /\ u # Owner
  /\ DropMember(u)
  /\ UNCHANGED <<cursor, faults>>

ClientMeetsForbidden(u) ==
  /\ SaysNo(u \in members)
  /\ cursor[u] # 0
  /\ cursor' = [cursor EXCEPT ![u] = 0]
  /\ UNCHANGED <<now, store, local, sweep, ghost>>

\* Deleting the project row takes every row that references it along.
CascadeProject ==
  /\ exists' = FALSE
  /\ members' = {}
  /\ departed' = departed \union members
  /\ fate' = [d \in Deltas |-> IF fate[d] = "stored" THEN "project" ELSE fate[d]]
  /\ wm' = 0
  /\ UNCHANGED <<author, created, acks, basis, silent, faulted>>

DeleteProject ==
  /\ exists
  /\ \A d \in Stored : ~Locked(d)
  /\ CascadeProject
  /\ UNCHANGED <<now, local, cursor, sweep, faults>>

-----------------------------------------------------------------------------
(* PushDelta: the stamp is taken before the INSERT, which the database    *)
(* may make visible at any later time.                                    *)

PushBegin(u) ==
  /\ CanStart(u)
  /\ u \in members
  /\ now <= LastPush
  /\ Cardinality({v \in Users : pc[v] = "pushStamped"})
       < Cardinality({d \in Deltas : fate[d] = "new"})
  /\ pc' = [pc EXCEPT ![u] = "pushStamped"]
  /\ ts' = [ts EXCEPT ![u] = now]
  /\ UNCHANGED <<now, store, target, counted, acked, page, cursor, sweep,
                 faults, ghost>>

PushInsert(u, d) ==
  /\ pc[u] = "pushStamped"
  /\ exists                      \* deltas.project_id REFERENCES projects
  /\ fate[d] = "new"
  /\ fate' = [fate EXCEPT ![d] = "stored"]
  /\ author' = [author EXCEPT ![d] = u]
  /\ created' = [created EXCEPT ![d] = ts[u]]
  /\ Finish(u)
  /\ UNCHANGED <<now, exists, members, acks, wm, cursor, sweep, faults, ghost>>

PushRefused(u) ==
  /\ pc[u] = "pushStamped"
  /\ ~exists
  /\ Finish(u)
  /\ UNCHANGED <<now, store, cursor, sweep, faults, ghost>>

-----------------------------------------------------------------------------
(* AckDelta: the handler checks the membership, then runs a transaction.  *)

AckBegin(u, d) ==
  /\ CanStart(u)
  /\ u \in members
  /\ fate[d] # "new"
  /\ pc' = [pc EXCEPT ![u] = "ackChecked"]
  /\ target' = [target EXCEPT ![u] = d]
  /\ UNCHANGED <<now, store, ts, counted, acked, page, cursor, sweep, faults,
                 ghost>>

AckGone(u) ==
  /\ pc[u] = "ackChecked"
  /\ fate[target[u]] # "stored"
  /\ Finish(u)
  /\ UNCHANGED <<now, store, cursor, sweep, faults, ghost>>

\* Mutant: an author's acknowledgement counts.
MutOwnAck(u, d) == {u}

\* An author's own acknowledgement inserts no row.
OwnAck(u, d) == {u} \ {author[d]}

\* Mutant: the delta is selected without FOR UPDATE.
MutAckCount(u) ==
  /\ pc[u] = "ackChecked"
  /\ fate[target[u]] = "stored"
  /\ pc' = [pc EXCEPT ![u] = "ackCounted"]
  /\ counted' = [counted EXCEPT ![u] = Recipients(target[u])]
  /\ acked' = [acked EXCEPT ![u] = acks[target[u]] \union OwnAck(u, target[u])]
  /\ UNCHANGED <<now, store, target, ts, page, cursor, sweep, faults, ghost>>

AckCount(u) ==
  /\ pc[u] = "ackChecked"
  /\ fate[target[u]] = "stored"
  /\ ~Locked(target[u])
  /\ pc' = [pc EXCEPT ![u] = "ackCounted"]
  /\ counted' = [counted EXCEPT ![u] = Recipients(target[u])]
  /\ acked' = [acked EXCEPT ![u] = acks[target[u]] \union OwnAck(u, target[u])]
  /\ UNCHANGED <<now, store, target, ts, page, cursor, sweep, faults, ghost>>

\* needed > 0 && acked >= needed
Enough(u) ==
  /\ Cardinality(counted[u]) > 0
  /\ Cardinality(acked[u]) >= Cardinality(counted[u])

\* Mutant: the transaction deletes the delta and writes no watermark.
MutAckCommitUnmarked(u) ==
  /\ pc[u] = "ackCounted"
  /\ LET d == target[u] IN
     /\ acks' = [acks EXCEPT ![d] = @ \union OwnAck(u, d)]
     /\ basis' = [basis EXCEPT ![d] = counted[u]]
     /\ fate' = IF Enough(u) THEN [fate EXCEPT ![d] = "ack"] ELSE fate
  /\ Finish(u)
  /\ UNCHANGED <<now, exists, members, author, created, wm, cursor, sweep,
                 faults, departed, silent, faulted>>

AckCommit(u) ==
  /\ pc[u] = "ackCounted"
  /\ LET d == target[u] IN
     /\ acks' = [acks EXCEPT ![d] = @ \union OwnAck(u, d)]
     /\ basis' = [basis EXCEPT ![d] = counted[u]]
     /\ fate' = IF Enough(u) THEN [fate EXCEPT ![d] = "ack"] ELSE fate
     /\ wm' = IF Enough(u) THEN Greatest(wm, created[d]) ELSE wm
  /\ Finish(u)
  /\ UNCHANGED <<now, exists, members, author, created, cursor, sweep, faults,
                 departed, silent, faulted>>

-----------------------------------------------------------------------------
(* PullDeltas: the deltas are read first and the watermark afterwards.    *)

\* The first PageLimit rows, oldest first; a bootstrap is not cut.
FirstPage(rows, p, since) ==
  /\ p \subseteq rows
  /\ \A d \in p, e \in rows \ p : created[d] <= created[e]
  /\ IF since = 0 \/ Cardinality(rows) <= PageLimit
       THEN p = rows ELSE Cardinality(p) = PageLimit

PullRead(u) ==
  /\ CanStart(u)
  /\ u \in members
  /\ \E p \in SUBSET Stored :
       /\ FirstPage({d \in Stored : created[d] > cursor[u]}, p, cursor[u])
       /\ page' = [page EXCEPT ![u] = p]
  /\ ts' = [ts EXCEPT ![u] = cursor[u]]
  /\ pc' = [pc EXCEPT ![u] = "pullRead"]
  /\ UNCHANGED <<now, store, target, counted, acked, cursor, sweep, faults,
                 ghost>>

\* X-Orbit-Delta-Gap
GapFlag(u) == ts[u] # 0 /\ wm # 0 /\ ts[u] < wm

\* The cursor the client sends next time: the stamp of the last delta it got.
NextCursor(u) ==
  IF page[u] = {}
    THEN {ts[u]}
    ELSE {created[d] : d \in {e \in page[u] :
                                \A f \in page[u] : created[f] <= created[e]}}

\* Deltas of others that neither this pull nor a later one from cursor c returns.
PassedOver(u, c) ==
  {d \in Gone : ts[u] < created[d] /\ created[d] <= c /\ d \notin page[u]
                  /\ author[d] # u}

\* A client that has left ignores a late reply; it has no cursor any more.
AdvanceCursor(u, c) ==
  cursor' = IF u \in members THEN [cursor EXCEPT ![u] = c] ELSE cursor

PullReply(u) ==
  /\ pc[u] = "pullRead"
  /\ \E c \in NextCursor(u) :
       /\ AdvanceCursor(u, c)
       /\ silent' = IF u \in members /\ ts[u] # 0 /\ ~GapFlag(u)
                      THEN silent \union PassedOver(u, c) ELSE silent
  /\ Finish(u)
  /\ UNCHANGED <<now, store, sweep, faults, departed, basis, faulted>>

\* A watermark that cannot be read leaves the reply unflagged.
PullReplyUnread(u) ==
  /\ pc[u] = "pullRead"
  /\ faults > 0
  /\ faults' = faults - 1
  /\ \E c \in NextCursor(u) :
       /\ AdvanceCursor(u, c)
       /\ IF u \in members /\ ts[u] # 0
            THEN /\ silent' = silent \union PassedOver(u, c)
                 /\ faulted' = faulted \union PassedOver(u, c)
            ELSE UNCHANGED <<silent, faulted>>
  /\ Finish(u)
  /\ UNCHANGED <<now, store, sweep, departed, basis>>

-----------------------------------------------------------------------------
(* SweepExpiredDeltas, statement by statement.  The hourly sweeper and a  *)
(* forced sweep (TTL 0, then the orphan sweep) may run at the same time.  *)

\* A sweeper at rest is about to execute its first statement.
AfterSweep(s) == IF s = "forced" THEN "orphans" ELSE "tally"

\* One DELETE; it waits while a row it deletes is locked.
Purge(S, how) ==
  /\ \A d \in S : ~Locked(d)
  /\ fate' = [d \in Deltas |-> IF d \in S THEN how ELSE fate[d]]

SweepDelete(s, how, S, next) ==
  /\ spc[s] = how
  /\ Purge(S, how)
  /\ spc' = [spc EXCEPT ![s] = next]
  /\ UNCHANGED <<now, exists, members, author, created, acks, wm, local, cursor,
                 cut, faults, ghost>>

Tallied ==
  {d \in Stored : /\ Recipients(d) # {}
                  /\ Cardinality(acks[d]) >= Cardinality(Recipients(d))}

\* 1. deltas that as many users acknowledged as there are recipients now
SweepTally(s) == SweepDelete(s, "tally", Tallied, "solo")

\* 2. deltas that nobody but the author could receive; 3. deltas of projects
\* that are gone, which have no recipients either
SweepSolo(s) ==
  SweepDelete(s, "solo", {d \in Stored : Recipients(d) = {} \/ ~exists},
              "expired")

\* Mutant: the comparison with the cutoff is the wrong way round.
MutExpired(s) ==
  {d \in Stored : s = "forced" \/ created[d] + TTL > now}

Expired(s) ==
  {d \in Stored : s = "forced" \/ created[d] + TTL < now}

\* Mutant: the expired rows are deleted without RETURNING.
MutSweepExpired(s) ==
  /\ spc[s] = "expired"
  /\ Purge(Expired(s), "expired")
  /\ spc' = [spc EXCEPT ![s] = AfterSweep(s)]
  /\ UNCHANGED <<now, exists, members, author, created, acks, wm, local, cursor,
                 cut, faults, ghost>>

\* 4. deltas older than the TTL, or all; the deleted rows come back
SweepExpired(s) ==
  /\ spc[s] = "expired"
  /\ Purge(Expired(s), "expired")
  /\ cut' = [cut EXCEPT ![s] = Expired(s)]
  /\ spc' = [spc EXCEPT ![s] =
               IF Expired(s) = {} THEN AfterSweep(s) ELSE "advance"]
  /\ UNCHANGED <<now, exists, members, author, created, acks, wm, local, cursor,
                 faults, ghost>>

\* The watermark row references the project, so nothing is written without it.
SweepAdvance(s) ==
  /\ spc[s] = "advance"
  /\ IF exists
       THEN \E d \in cut[s] :
              /\ \A e \in cut[s] : created[e] <= created[d]
              /\ wm' = Greatest(wm, created[d])
       ELSE UNCHANGED wm
  /\ cut' = [cut EXCEPT ![s] = {}]
  /\ spc' = [spc EXCEPT ![s] = AfterSweep(s)]
  /\ UNCHANGED <<now, exists, members, fate, author, created, acks, local,
                 cursor, faults, ghost>>

\* created_at < now - maxAge and no delta: the project was created at time 1.
Orphaned == exists /\ 1 + OrphanAge < now /\ Stored = {}

RemoveOrphan ==
  IF Orphaned THEN CascadeProject ELSE UNCHANGED <<store, ghost>>

ForcedOrphanSweep(s) ==
  /\ spc[s] = "orphans"
  /\ RemoveOrphan
  /\ spc' = [spc EXCEPT ![s] = "tally"]
  /\ UNCHANGED <<now, local, cursor, cut, faults>>

\* The orphan sweeper, whose statement is a step of its own every hour.
HourlyOrphanSweep ==
  /\ Orphaned
  /\ CascadeProject
  /\ UNCHANGED <<now, local, cursor, sweep, faults>>

SweepStep(s) ==
  \/ SweepTally(s)
  \/ SweepSolo(s)
  \/ SweepExpired(s)
  \/ SweepAdvance(s)
  \/ ForcedOrphanSweep(s)

-----------------------------------------------------------------------------
(* Failures and time. *)

\* A statement fails or times out: the transaction rolls back, the answer is 500.
HandlerFails(u) ==
  /\ pc[u] # "idle"
  /\ faults > 0
  /\ faults' = faults - 1
  /\ Finish(u)
  /\ UNCHANGED <<now, store, cursor, sweep, ghost>>

NextStatement == [tally |-> "solo", solo |-> "expired", orphans |-> "tally"]

\* A sweep goes on past a statement that fails; a watermark that fails is logged.
SweepFails(s) ==
  /\ faults > 0
  /\ faults' = faults - 1
  /\ spc' = [spc EXCEPT ![s] = IF spc[s] \in {"expired", "advance"}
                                 THEN AfterSweep(s) ELSE NextStatement[spc[s]]]
  /\ faulted' = faulted \union cut[s]
  /\ cut' = [cut EXCEPT ![s] = {}]
  /\ UNCHANGED <<now, store, local, cursor, departed, basis, silent>>

\* The process is killed and started again: only the database remains.
Crash ==
  /\ faults > 0
  /\ faults' = faults - 1
  /\ pc' = [u \in Users |-> "idle"]
  /\ target' = [u \in Users |-> NoDelta]
  /\ ts' = [u \in Users |-> 0]
  /\ counted' = [u \in Users |-> {}]
  /\ acked' = [u \in Users |-> {}]
  /\ page' = [u \in Users |-> {}]
  /\ spc' = [s \in Sweepers |-> "tally"]
  /\ cut' = [s \in Sweepers |-> {}]
  /\ faulted' = faulted \union UNION {cut[s] : s \in Sweepers}
  /\ UNCHANGED <<now, store, cursor, departed, basis, silent>>

Tick ==
  /\ now < MaxTime
  /\ now' = now + 1
  /\ UNCHANGED <<store, local, cursor, sweep, faults, ghost>>

-----------------------------------------------------------------------------
\* What carries a handler that has started to its answer.
Proceed(u) ==
  \/ \E d \in Deltas : PushInsert(u, d)
  \/ PushRefused(u)
  \/ AckGone(u)
  \/ AckCount(u)
  \/ AckCommit(u)
  \/ PullReply(u)

Member(u) ==
  \/ Join(u)
  \/ LeaveProject(u)
  \/ RemoveMember(u)
  \/ ClientMeetsForbidden(u)

Request(u) ==
  \/ PushBegin(u)
  \/ \E d \in Deltas : AckBegin(u, d)
  \/ PullRead(u)

Failure ==
  \/ \E u \in Users : PullReplyUnread(u) \/ HandlerFails(u)
  \/ \E s \in Sweepers : SweepFails(s)
  \/ Crash

Next ==
  \/ \E u \in Users : Member(u) \/ Request(u) \/ Proceed(u)
  \/ \E s \in Sweepers : SweepStep(s)
  \/ HourlyOrphanSweep
  \/ DeleteProject
  \/ Failure
  \/ Tick

Spec == Init /\ [][Next]_vars

\* The clock runs, a handler's context ends within ten seconds, a sweep is
\* started again by its ticker, and a DELETE that waits for a row lock gets
\* it, because the database serves the waiters of a lock in turn.
Fairness ==
  /\ WF_vars(Tick)
  /\ \A u \in Users : WF_vars(Proceed(u))
  /\ \A s \in Sweepers \ {"forced"} : SF_vars(SweepStep(s))

FairSpec == Spec /\ Fairness

-----------------------------------------------------------------------------
(* The type invariant: every variable keeps to the table or local variable *)
(* of the server it stands for (internal/repository/postgres.go:156-174).  *)
TypeOK ==
  /\ now \in Time
  /\ exists \in BOOLEAN
  /\ members \subseteq Users
  /\ fate \in [Deltas -> {"new", "stored"} \union Purges]
  /\ author \in [Deltas -> Users \union {Nobody}]
  /\ created \in [Deltas -> Time]
  /\ acks \in [Deltas -> SUBSET Users]
  /\ wm \in Time
  /\ pc \in [Users -> Handling]
  /\ target \in [Users -> Deltas \union {NoDelta}]
  /\ \A u \in Users : pc[u] \in {"ackChecked", "ackCounted"} => target[u] \in Deltas
  /\ ts \in [Users -> Time]
  /\ counted \in [Users -> SUBSET Users]
  /\ acked \in [Users -> SUBSET Users]
  /\ page \in [Users -> SUBSET Deltas]
  /\ cursor \in [Users -> Time]
  /\ spc \in [Sweepers -> Sweeping]
  /\ cut \in [Sweepers -> SUBSET Deltas]
  /\ faults \in 0..MaxFaults
  /\ departed \subseteq Users
  /\ basis \in [Deltas -> SUBSET Users]
  /\ silent \subseteq Deltas
  /\ faulted \subseteq Deltas

(* Two recipients who acknowledge a delta at the same moment cannot both   *)
(* miss the other's row: as long as a delta is stored, somebody whom the   *)
(* last committed acknowledgement counted has not acknowledged it.  This   *)
(* is what FOR UPDATE in ackDelta is for.                                  *)
NoLostLastAck ==
  \A d \in Stored : basis[d] # {} => ~(basis[d] \subseteq acks[d])

(* ackDelta compares numbers, not names, so a delta can be deleted while a *)
(* counted recipient has not acknowledged it; but only when one of its     *)
(* acknowledgements comes from a user whose membership was deleted.        *)
PrematurePurgeNeedsDeparture ==
  \A d \in Deltas :
    fate[d] = "ack" => \/ basis[d] \subseteq acks[d]
                       \/ acks[d] \intersect departed # {}

(* The watermark reaches every delta that ackDelta deleted, and every      *)
(* delta that step 4 of the sweep deleted except while the sweep is        *)
(* between its two statements or after a failure in between.               *)
WatermarkCovers ==
  exists =>
    \A d \in Deltas :
      /\ fate[d] = "ack" => created[d] <= wm
      /\ fate[d] = "expired" => \/ created[d] <= wm
                                \/ d \in faulted
                                \/ \E s \in Sweepers : d \in cut[s]

(* A watermark is the created_at of a delta that was really purged, so the *)
(* gap flag is never raised for a project that lost nothing.               *)
WatermarkNamesAPurgedDelta ==
  wm # 0 => \E d \in Gone : created[d] = wm

(* Whatever ackDelta deletes between the two reads of PullDeltas or before *)
(* them, the reply is flagged: an unflagged reply never passes over such a *)
(* delta, unless the watermark could not be read.                          *)
AckPurgeIsFlagged ==
  \A d \in silent : fate[d] = "ack" => d \in faulted

(* No delta outlives its project, whichever of a push, an acknowledgement, *)
(* a sweep and the deletion of the project comes last; step 3 of the sweep *)
(* therefore finds nothing.                                                *)
NoStrayDelta == ~exists => Stored = {}

(* The watermark of a project never goes back, although sweeps and         *)
(* acknowledgements write it out of order.                                 *)
WatermarkMonotone == [][exists' => wm <= wm']_vars

(* Whatever pushes, acknowledgements, sweeps, failures and the deletion of *)
(* the project do, and in whatever order they do it, a project's deltas    *)
(* behave like the log of RelayContract: a purged delta never returns, one *)
(* that ackDelta purges is under the watermark at once, a watermark names  *)
(* a purged delta and never goes back although acknowledgements and sweeps *)
(* write it out of order (postgres_methods.go:791-803, 948).               *)
Log == INSTANCE RelayContract WITH
  Entries <- Deltas, open <- exists, kept <- Stored,
  delivered <- {d \in Deltas : fate[d] = "ack"},
  dropped <- {d \in Deltas : fate[d] \in Purges \ {"ack"}},
  stamp <- created, floor <- wm
KeepsTheLog == Log!Spec

(* Every delta leaves the relay: the rolling window is enforced.           *)
EveryDeltaLeaves ==
  \A d \in Deltas : fate[d] = "stored" ~> fate[d] # "stored"

-----------------------------------------------------------------------------
(* What the two invariants on acknowledgements rest on. *)

\* At most one transaction holds the row of a delta, which is there.
LockInv ==
  /\ \A u, v \in Users :
       /\ pc[u] = "ackCounted" /\ pc[v] = "ackCounted"
       /\ target[u] = target[v]
       => u = v
  /\ \A u \in Users : pc[u] = "ackCounted" => fate[target[u]] = "stored"

\* Whoever acknowledges or is about to was a member, and is not the author.
AckerInv ==
  /\ \A u \in Users :
       pc[u] \in {"ackChecked", "ackCounted"} => u \in members \union departed
  /\ \A d \in Deltas :
       /\ acks[d] \subseteq members \union departed
       /\ author[d] \notin acks[d]
       /\ fate[d] = "new" => acks[d] = {} /\ basis[d] = {}

\* What a transaction has counted is still so when it commits.
CountInv ==
  \A u \in Users :
    pc[u] = "ackCounted" =>
      /\ acked[u] = acks[target[u]] \union OwnAck(u, target[u])
      /\ acked[u] \subseteq counted[u] \union departed

AckInv ==
  /\ LockInv
  /\ AckerInv
  /\ CountInv
  /\ NoLostLastAck
  /\ PrematurePurgeNeedsDeparture

(* What the gap flag rests on: a sweeper holds deleted rows only between   *)
(* its two statements, only a project has members, and what is recorded as *)
(* silently lost is gone.                                                  *)
GapInv ==
  /\ \A s \in Sweepers :
       /\ cut[s] # {} => spc[s] = "advance"
       /\ cut[s] \subseteq {d \in Deltas : fate[d] = "expired"}
  /\ members # {} => exists
  /\ silent \subseteq Gone
  /\ WatermarkCovers
  /\ WatermarkNamesAPurgedDelta
  /\ AckPurgeIsFlagged
  /\ NoStrayDelta

-----------------------------------------------------------------------------
(* What documents and comments say and the code does not keep. *)

(* db.go:745 and models/project.go:45 say that a delta is removed once     *)
(* every current member has acknowledged it.                               *)
PurgedOnlyWhenAllAcked ==
  \A d \in Deltas : fate[d] = "ack" => basis[d] \subseteq acks[d]

(* project.go:509 says that a pull whose cursor is older than a purge is   *)
(* flagged; the purges of steps 1 and 2 of the sweep write no watermark.   *)
SweepPurgeIsFlagged == \A d \in silent : fate[d] \notin {"tally", "solo"}

(* postgres_methods.go:872 says the same of the purge by TTL.              *)
ExpiryIsFlagged == \A d \in silent : fate[d] # "expired"

(* project.go:509 again, for the transaction of ackDelta, when the query   *)
(* of the watermark may fail.                                              *)
AckPurgeAlwaysFlagged == \A d \in silent : fate[d] # "ack"

(* project.go:522 says that a client that advances its cursor past the     *)
(* last delta of a page drains the whole backlog without gaps; so no delta *)
(* may become visible behind a cursor.                                     *)
NothingArrivesBehindACursor ==
  [][\A d \in Deltas, u \in Users :
       fate[d] = "new" /\ fate'[d] = "stored" => created'[d] > cursor[u]]_vars

(* db.go:924 says that the orphan sweep cleans up projects whose workspace *)
(* was never initialised; a project with a pushed delta was.               *)
OrphansNeverHadADelta ==
  [][Orphaned /\ ~exists' => \A d \in Deltas : fate[d] = "new"]_vars

=============================================================================
