--------------------------------- MODULE Chat ---------------------------------
(***************************************************************************)
(* One channel of direct messages: messages are stored with a time, a      *)
(* reader gets the oldest PageSize of them and cannot ask for more, and an *)
(* hourly sweep removes those older than Keep.                             *)
(***************************************************************************)
EXTENDS Integers, FiniteSets

CONSTANTS
  Messages,   \* what is sent
  PageSize,   \* 100, as offset 0 and limit 100 are fixed
  Keep,       \* 30 days
  MaxHour     \* bound: the clock stops here

ASSUME ChatAssumption ==
  /\ PageSize \in Nat \ {0}
  /\ Keep \in Nat /\ MaxHour \in Nat

VARIABLES
  hour,      \* time.Now()
  channel,   \* messages: those of this channel
  written,   \* their created_at
  sweptAt,   \* when the last sweep succeeded
  readable,  \* history: the messages that were ever in a reader's page
  longest,   \* history: the longest time between two sweeps
  sentAlready  \* history: messages that were sent

chatVars == <<hour, channel, written, sweptAt, readable, longest, sentAlready>>

ChatTypeOK ==
  /\ hour \in Nat /\ sweptAt \in 0 .. hour /\ longest \in Nat
  /\ channel \subseteq sentAlready /\ sentAlready \subseteq Messages
  /\ readable \subseteq sentAlready
  /\ written \in [Messages -> Nat]
  /\ \A m \in channel : hour - written[m] <= Keep + longest

ChatInit ==
  /\ hour = 0 /\ sweptAt = 0 /\ longest = 0
  /\ channel = {} /\ readable = {} /\ sentAlready = {}
  /\ written = [m \in Messages |-> 0]

Older(m, s) == {n \in s : written'[n] < written'[m]}

\* GetDirectMessages: ORDER BY created_at, LIMIT PageSize; those of one time in
\* any order, so that all of them are readable if one is.
Page(s) == {m \in s : Cardinality(Older(m, s)) < PageSize}

\* What a reader may get after this step.
Readable == readable' = readable \cup Page(channel')

Longest == longest' = IF hour' - sweptAt' > longest THEN hour' - sweptAt' ELSE longest

HourPasses ==
  /\ hour < MaxHour
  /\ hour' = hour + 1
  /\ UNCHANGED <<channel, written, sweptAt, sentAlready>>
  /\ Readable /\ Longest

\* SendDirectMessage, SaveMessage.
SaveMessage(m) ==
  /\ m \notin sentAlready
  /\ channel' = channel \cup {m}
  /\ written' = [written EXCEPT ![m] = hour]
  /\ sentAlready' = sentAlready \cup {m}
  /\ UNCHANGED <<hour, sweptAt>>
  /\ Readable /\ Longest

\* Mutants: a channel is swept whole, and ninety days as for the activity log.
MutTooOldToKeep(m) == \E n \in channel : hour - written[n] > Keep
MutKeepLong(m) == hour - written[m] > 3 * Keep
TooOldToKeep(m) == hour - written[m] > Keep

\* messageSweep, hourly; when its DELETE fails, the next one is later.
MessageSweep ==
  /\ sweptAt < hour
  /\ channel' = {m \in channel : ~TooOldToKeep(m)}
  /\ sweptAt' = hour
  /\ UNCHANGED <<hour, written, sentAlready>>
  /\ Readable /\ Longest

ChatNext == HourPasses \/ MessageSweep \/ \E m \in Messages : SaveMessage(m)

ChatSpec == ChatInit /\ [][ChatNext]_chatVars

-----------------------------------------------------------------------------
(* Properties *)

Before(m) == {n \in sentAlready : written[n] <= written[m] /\ written[m] - written[n] < longest}

\* Behind a full page a message waits for older ones to be swept.  It is swept
\* itself without ever having been readable only if a full page was written in
\* the time before it that passes between two sweeps (user.go:251-254,
\* postgres_methods.go:1172-1179, 1212).
UnreadOnlyInABurst ==
  \A m \in sentAlready \ (channel \cup readable) :
    Cardinality(Before(m) \ {m}) >= PageSize
=============================================================================
