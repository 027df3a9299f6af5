------------------------------- MODULE Presence -------------------------------
(***************************************************************************)
(* Whether a user is shown as online.  The client beats; a handler stamps  *)
(* each beat with the server's clock and writes it a little later, so that *)
(* beats can land out of order; a sweep, on the database's clock, takes    *)
(* those offline that have been silent for too long.  In the JSON store    *)
(* stamp and write are one step and there is one clock: Delay = Skew = 0.  *)
(***************************************************************************)
EXTENDS Integers

CONSTANTS
  Beats,      \* calls of UpdatePresence
  MaxSilence, \* 25 seconds
  Period,     \* the sweep's ticker: 10 seconds
  Delay,      \* longest time from a handler's clock reading to its UPDATE
  Skew,       \* greatest difference between the two clocks
  MaxMoment   \* bound: the clock stops here

ASSUME PresenceAssumption ==
  /\ MaxSilence \in Nat /\ Period \in Nat /\ Delay \in Nat /\ Skew \in Nat /\ MaxMoment \in Nat
  /\ Delay <= MaxSilence

Never == -1   \* NULL, and the stamp of no beat

VARIABLES
  moment,     \* time.Now()
  born,       \* when the user's row was inserted, Never before
  online,     \* status = 'online'
  lastSeen,   \* last_seen
  stampOf,    \* the clock reading of a beat that has not landed
  quitting,   \* it says "offline" or "quitting"
  sinceSweep, \* time since the last sweep
  newest      \* history: the newest stamp that landed

rowState     == <<born, online, lastSeen>>
beatState    == <<stampOf, quitting>>
presenceVars == <<moment, rowState, beatState, sinceSweep, newest>>

Moments == Nat \cup {Never}

PresenceTypeOK ==
  /\ moment \in Nat /\ sinceSweep \in Nat
  /\ born \in Moments /\ online \in BOOLEAN
  /\ lastSeen \in Moments /\ newest \in Moments
  /\ stampOf \in [Beats -> Moments]
  /\ quitting \in [Beats -> BOOLEAN]
  /\ online => born # Never
  /\ lastSeen = Never <=> newest = Never

PresenceInit ==
  /\ moment = 0
  /\ born = Never /\ online = FALSE /\ lastSeen = Never
  /\ stampOf = [b \in Beats |-> Never] /\ quitting = [b \in Beats |-> FALSE]
  /\ sinceSweep = 0
  /\ newest = Never

\* Writes end within Delay, and the sweep comes every Period.
MomentPasses ==
  /\ moment < MaxMoment
  /\ \A b \in Beats : stampOf[b] # Never => moment < stampOf[b] + Delay
  /\ sinceSweep < Period
  /\ moment' = moment + 1
  /\ sinceSweep' = sinceSweep + 1
  /\ UNCHANGED <<rowState, beatState, newest>>

\* Mutants: the bugs that the properties would catch.
MutTooSilent(clockNow) == lastSeen < clockNow - MaxSilence /\ lastSeen # Never  \* NULL is never less
MutLand(b) ==  \* last_seen is written by the first beat only
  /\ stampOf[b] # Never
  /\ online' = ~quitting[b]
  /\ lastSeen' = IF lastSeen = Never THEN stampOf[b] ELSE lastSeen
  /\ newest' = IF stampOf[b] > newest THEN stampOf[b] ELSE newest
  /\ stampOf' = [stampOf EXCEPT ![b] = Never]
  /\ quitting' = [quitting EXCEPT ![b] = FALSE]
  /\ UNCHANGED <<moment, born, sinceSweep>>
MutInsertUser ==  \* every login writes the whole row
  /\ born' = moment
  /\ online' = TRUE
  /\ lastSeen' = Never
  /\ UNCHANGED <<moment, beatState, sinceSweep, newest>>

-----------------------------------------------------------------------------

\* UpsertUser inserts the row as online, and last_seen is NULL.
InsertUser ==
  /\ born = Never
  /\ born' = moment
  /\ online' = TRUE
  /\ UNCHANGED <<moment, lastSeen, beatState, sinceSweep, newest>>

\* UpdatePresence reads the clock ...
Beat(b, quits) ==
  /\ born # Never
  /\ stampOf[b] = Never
  /\ stampOf' = [stampOf EXCEPT ![b] = moment]
  /\ quitting' = [quitting EXCEPT ![b] = quits]
  /\ UNCHANGED <<moment, rowState, sinceSweep, newest>>

\* ... and its UPDATE lands ...
Land(b) ==
  /\ stampOf[b] # Never
  /\ online' = ~quitting[b]
  /\ lastSeen' = stampOf[b]
  /\ newest' = IF stampOf[b] > newest THEN stampOf[b] ELSE newest
  /\ stampOf' = [stampOf EXCEPT ![b] = Never]
  /\ quitting' = [quitting EXCEPT ![b] = FALSE]
  /\ UNCHANGED <<moment, born, sinceSweep>>

\* ... or fails.
BeatFails(b) ==
  /\ stampOf[b] # Never
  /\ stampOf' = [stampOf EXCEPT ![b] = Never]
  /\ quitting' = [quitting EXCEPT ![b] = FALSE]
  /\ UNCHANGED <<moment, rowState, sinceSweep, newest>>

TooSilent(clockNow) == lastSeen = Never \/ lastSeen < clockNow - MaxSilence

\* HeartbeatSweep, when the database's clock is ahead by `ahead`.
HeartbeatSweep(ahead) ==
  /\ sinceSweep > 0
  /\ online' = (online /\ ~TooSilent(moment + ahead))
  /\ sinceSweep' = 0
  /\ UNCHANGED <<moment, born, lastSeen, beatState, newest>>

PresenceNext ==
  \/ MomentPasses
  \/ InsertUser
  \/ \E b \in Beats : (\E quits \in BOOLEAN : Beat(b, quits)) \/ Land(b) \/ BeatFails(b)
  \/ \E ahead \in -Skew .. Skew : HeartbeatSweep(ahead)

PresenceSpec == PresenceInit /\ [][PresenceNext]_presenceVars

-----------------------------------------------------------------------------
(* Properties *)

\* The last sign of life: a beat, or the creation of the row.
Alive == IF newest = Never THEN born ELSE newest

\* A client that crashed, or whose goodbye was overtaken by an earlier beat,
\* is not shown as online for ever: no longer after its last sign of life than
\* the limit, a clock difference and one sweep (postgres_methods.go:411-418).
OnlineIsFresh == online => moment <= Alive + MaxSilence + Skew + Period

\* The sweep takes nobody offline who keeps beating, although beats land out
\* of order and the two clocks differ: only after a silence that is shorter
\* than the limit by no more than the two.
OnlyTheSilentAreSwept ==
  [][(\E ahead \in -Skew .. Skew : HeartbeatSweep(ahead)) /\ online /\ ~online' /\ newest # Never
       => moment - newest > MaxSilence - Skew - Delay]_presenceVars
=============================================================================
