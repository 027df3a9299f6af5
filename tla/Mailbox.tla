-------------------------------- MODULE Mailbox --------------------------------
(***************************************************************************)
(* The mailbox of WebRTC signals of one project: peers leave signals for   *)
(* each other, a peer's poll fetches and clears what is there for it, and  *)
(* what nobody fetches expires.                                            *)
(*                                                                         *)
(* `mode` says where the data is.  In PostgreSQL ("pg") a poll selects and *)
(* deletes in two statements of a READ COMMITTED transaction, in the JSON  *)
(* store ("json") it takes the signals under the lock; in both it then     *)
(* clears the mailbox once more.  The delivery of the same signal to the   *)
(* peer's WebSockets is in Hub.                                            *)
(***************************************************************************)
EXTENDS Integers

CONSTANTS
  Peers,    \* members of the project, and names that a sender makes up
  Signals,  \* what is sent, each with its own identity
  Fetches,  \* polls, each one call of GetSignals
  None,     \* nobody
  Modes,    \* where the server may keep its data: "pg", "json"
  TTL,      \* 30 minutes
  MaxTime   \* bound: the clock stops here

ASSUME MailboxAssumption ==
  /\ None \notin Peers
  /\ Modes \subseteq {"pg", "json"}
  /\ TTL \in Nat /\ MaxTime \in Nat

VARIABLES
  mode,     \* where the data is, decided at start
  now,      \* time.Now()
  box,      \* the signals that are stored
  to,       \* their to_peer
  stamp,    \* their created_at
  stage,    \* what a poll does next
  peer,     \* whose poll it is
  taken,    \* what it has found
  sent,     \* history: signals that were stored
  got,      \* history: the answer of a poll
  crossed,  \* history: signals stored during a poll of their recipient
  dropped,  \* history: signals of polls whose answer did not arrive
  expired   \* history: signals removed because of their age

pollVars == <<stage, peer, taken>>
history  == <<sent, got, crossed, dropped, expired>>
vars     == <<mode, now, box, to, stamp, pollVars, history>>

TypeOK ==
  /\ mode \in {"pg", "json"}
  /\ now \in Nat
  /\ box \subseteq Signals
  /\ to \in [Signals -> Peers \cup {None}]
  /\ stamp \in [Signals -> Nat]
  /\ stage \in [Fetches -> {"new", "selected", "deleted", "answering", "over"}]
  /\ peer \in [Fetches -> Peers \cup {None}]
  /\ taken \in [Fetches -> SUBSET Signals]
  /\ got \in [Fetches -> SUBSET Signals]
  /\ sent \subseteq Signals /\ crossed \subseteq Signals
  /\ dropped \subseteq Signals /\ expired \subseteq Signals

Init ==
  /\ mode \in Modes
  /\ now = 0
  /\ box = {}
  /\ to = [g \in Signals |-> None] /\ stamp = [g \in Signals |-> 0]
  /\ stage = [f \in Fetches |-> "new"] /\ peer = [f \in Fetches |-> None]
  /\ taken = [f \in Fetches |-> {}]
  /\ got = [f \in Fetches |-> {}]
  /\ sent = {} /\ crossed = {} /\ dropped = {} /\ expired = {}

Tick == now < MaxTime /\ now' = now + 1
        /\ UNCHANGED <<mode, box, to, stamp, pollVars, history>>

\* A signal at the very end of its life stays in PostgreSQL and goes in JSON.
MutTooOld(g) == now - stamp[g] < TTL  \* a mutant: the comparison turned round
TooOld(g) == now - stamp[g] > TTL \/ (mode = "json" /\ now - stamp[g] = TTL)

Old == {g \in box : TooOld(g)}
Pending(u) == {g \in box : to[g] = u}

\* A poll of u that has begun to read and not finished clearing.
Polling(u) == \E f \in Fetches : peer[f] = u /\ stage[f] \in {"selected", "deleted"}

Go(f, s) == stage' = [stage EXCEPT ![f] = s]

\* The handler of f returns.
Over(f) ==
  /\ Go(f, "over")
  /\ peer' = [peer EXCEPT ![f] = None]
  /\ taken' = [taken EXCEPT ![f] = {}]

\* More mutants: the bugs that the properties would catch.
MutClearAgain(f) ==  \* cleared for the project, not for the peer
  /\ stage[f] = "deleted"
  /\ box' = {}
  /\ Go(f, "answering")
  /\ UNCHANGED <<mode, now, to, stamp, peer, taken, history>>
MutSaveSignal(g, u) ==  \* created_at is the cutoff
  /\ g \notin sent
  /\ box' = (box \ Old) \cup {g}
  /\ expired' = expired \cup Old
  /\ to' = [to EXCEPT ![g] = u]
  /\ stamp' = [stamp EXCEPT ![g] = now - TTL]
  /\ sent' = sent \cup {g}
  /\ crossed' = IF Polling(u) THEN crossed \cup {g} ELSE crossed
  /\ UNCHANGED <<mode, now, pollVars, got, dropped>>

-----------------------------------------------------------------------------

\* SaveSignal, for a sender that was found to be a member: what is too old
\* goes, the new signal comes.
SaveSignal(g, u) ==
  /\ g \notin sent
  /\ now + TTL + 1 < MaxTime  \* bound: the clock gets past its end
  /\ box' = (box \ Old) \cup {g}
  /\ expired' = expired \cup Old
  /\ to' = [to EXCEPT ![g] = u]
  /\ stamp' = [stamp EXCEPT ![g] = now]
  /\ sent' = sent \cup {g}
  /\ crossed' = IF Polling(u) THEN crossed \cup {g} ELSE crossed
  /\ UNCHANGED <<mode, now, pollVars, got, dropped>>

SweepExpiredSignals ==
  /\ box' = box \ Old
  /\ expired' = expired \cup Old
  /\ UNCHANGED <<mode, now, to, stamp, pollVars, sent, got, crossed, dropped>>

-----------------------------------------------------------------------------
(* GetSignals *)

\* Nothing there: an empty answer.
FetchNothing(f, u) ==
  /\ stage[f] = "new"
  /\ Pending(u) = {}
  /\ Over(f)
  /\ UNCHANGED <<mode, now, box, to, stamp, history>>

\* getPendingSignalsForPeer in PostgreSQL: SELECT ...
Select(f, u) ==
  /\ mode = "pg"
  /\ stage[f] = "new"
  /\ Pending(u) # {}
  /\ Go(f, "selected")
  /\ peer' = [peer EXCEPT ![f] = u]
  /\ taken' = [taken EXCEPT ![f] = Pending(u)]
  /\ UNCHANGED <<mode, now, box, to, stamp, history>>

\* ... and DELETE of whatever is there by then ...
DeletePending(f) ==
  /\ stage[f] = "selected"
  /\ box' = box \ Pending(peer[f])
  /\ Go(f, "deleted")
  /\ UNCHANGED <<mode, now, to, stamp, peer, taken, history>>

\* ... unless the transaction fails and is rolled back.
Rollback(f) ==
  /\ stage[f] = "selected"
  /\ Over(f)
  /\ UNCHANGED <<mode, now, box, to, stamp, history>>

\* The JSON store takes the signals out and saves, under one lock ...
Take(f, u) ==
  /\ mode = "json"
  /\ stage[f] = "new"
  /\ Pending(u) # {}
  /\ box' = box \ Pending(u)
  /\ Go(f, "deleted")
  /\ peer' = [peer EXCEPT ![f] = u]
  /\ taken' = [taken EXCEPT ![f] = Pending(u)]
  /\ UNCHANGED <<mode, now, to, stamp, history>>

\* ... and when it cannot save, an error is the answer and they are gone.
TakeFails(f, u) ==
  /\ mode = "json"
  /\ stage[f] = "new"
  /\ box' = box \ Pending(u)
  /\ dropped' = dropped \cup Pending(u)
  /\ Over(f)
  /\ UNCHANGED <<mode, now, to, stamp, sent, got, crossed, expired>>

\* ClearSignalsForPeer, after the fetch; an error is ignored.
ClearAgain(f) ==
  /\ stage[f] = "deleted"
  /\ box' = box \ Pending(peer[f])
  /\ Go(f, "answering")
  /\ UNCHANGED <<mode, now, to, stamp, peer, taken, history>>

ClearFails(f) ==
  /\ mode = "pg"
  /\ stage[f] = "deleted"
  /\ Go(f, "answering")
  /\ UNCHANGED <<mode, now, box, to, stamp, peer, taken, history>>

Answer(f) ==
  /\ stage[f] = "answering"
  /\ got' = [got EXCEPT ![f] = taken[f]]
  /\ Over(f)
  /\ UNCHANGED <<mode, now, box, to, stamp, sent, crossed, dropped, expired>>

\* The process dies, or the connection of the peer that polls.
AnswerLost(f) ==
  /\ stage[f] \in {"deleted", "answering"}
  /\ dropped' = dropped \cup taken[f]
  /\ Over(f)
  /\ UNCHANGED <<mode, now, box, to, stamp, sent, got, crossed, expired>>

-----------------------------------------------------------------------------

Poll(f) ==
  \/ DeletePending(f) \/ Rollback(f) \/ ClearAgain(f) \/ ClearFails(f)
  \/ Answer(f) \/ AnswerLost(f)
  \/ \E u \in Peers : FetchNothing(f, u) \/ Select(f, u) \/ Take(f, u) \/ TakeFails(f, u)

Next ==
  \/ Tick
  \/ SweepExpiredSignals
  \/ \E g \in Signals, u \in Peers : SaveSignal(g, u)
  \/ \E f \in Fetches : Poll(f)

Spec == Init /\ [][Next]_vars

\* The clock runs and the sweeper's ticker fires; nobody has to poll.
LiveSpec == Spec /\ WF_vars(Tick) /\ WF_vars(SweepExpiredSignals)

-----------------------------------------------------------------------------
(* Properties *)

InHand(g)   == \E f \in Fetches : g \in taken[f] /\ stage[f] # "selected"
Answered(g) == \E f \in Fetches : g \in got[f]

\* A stored signal is there until a poll of its recipient takes it or it
\* expires.  The only ones to vanish unread were stored while their recipient
\* was polling (postgres_methods.go:1255-1270, signaling.go:141), or the answer
\* that had them did not arrive.
LostOnlyToAPoll ==
  \A g \in sent :
    g \in box \cup expired \cup dropped \cup crossed \/ InHand(g) \/ Answered(g)

\* "Clear signals immediately after fetching to prevent WebRTC glare loops"
\* (signaling.go:139): no two polls answer with the same signal.
FetchedOnce == \A f, h \in Fetches : f # h => got[f] \cap got[h] = {}

\* The JSON store keeps that, also when polls of a peer overlap and signals are
\* saved meanwhile; in PostgreSQL both may select before either deletes.
JsonFetchesOnce == mode = "json" => FetchedOnce

\* Whether or not anybody polls, no signal stays for ever: what a slow poll
\* leaves behind, or a failed one puts back, the sweeper removes.
EverySignalLeaves == \A g \in Signals : g \in box ~> g \notin box
=============================================================================
