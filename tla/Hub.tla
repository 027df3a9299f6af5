----------------------------------- MODULE Hub -----------------------------------
(***************************************************************************)
(* The signalling hub: the room of one project, its peers' WebSockets, and *)
(* the handlers that write to them, one per connection and one per call of *)
(* SendSignal.                                                             *)
(*                                                                         *)
(* A delivery takes the room's map under the read lock of the hub, and     *)
(* then goes through it without the lock, in any order, writing to each    *)
(* socket under the socket's own mutex; a handler that joins or leaves     *)
(* meanwhile changes the same map.  The Go runtime (external) may end the  *)
(* process when it notices; otherwise an entry removed is not visited any  *)
(* more, and one added may be visited or not.  A room that becomes empty   *)
(* and is made anew counts as the same map.                                *)
(***************************************************************************)
EXTENDS FiniteSets

CONSTANTS
  Users,  \* who may be a member of the project
  Conns,  \* the WebSocket connections, each with its handler
  Sends,  \* calls of SendSignal
  Fickle, \* bound: the users who leave the project and return
  None    \* nobody, no connection

ASSUME HubAssumption ==
  /\ Conns \cap Sends = {}
  /\ Fickle \subseteq Users
  /\ None \notin Users \cup Conns \cup Sends

Handlers == Conns \cup Sends

VARIABLES
  members, \* of the project, in the store
  room,    \* Hub.connections[projectID]
  user,    \* PeerConnection.userID
  mu,      \* PeerConnection.mu: the handler that holds it
  stage,   \* what a handler is doing
  aim,     \* whom it delivers to; None for everybody else
  todo,    \* entries its iteration has still to visit
  at,      \* the connection it writes to, or waits for
  dead,    \* deadConns
  open,    \* connections the server has not closed
  peers,   \* connections whose client is still there
  reads    \* connections whose client reads what it is sent

netVars == <<open, peers, reads>>
vars == <<members, room, user, mu, stage, aim, todo, at, dead, netVars>>

Delivering == {"announcing", "relaying", "parting"}
Stages     == Delivering \cup {"new", "checked", "reading", "leaving", "over"}

TypeOK ==
  /\ members \subseteq Users
  /\ room \subseteq Conns
  /\ user \in [Conns -> Users \cup {None}]
  /\ mu \in [Conns -> Handlers \cup {None}]
  /\ stage \in [Handlers -> Stages]
  /\ aim \in [Handlers -> Users \cup {None}]
  /\ todo \in [Handlers -> SUBSET Conns]
  /\ at \in [Handlers -> Conns \cup {None}]
  /\ dead \in [Handlers -> SUBSET Conns]
  /\ open \subseteq Conns /\ peers \subseteq Conns /\ reads \subseteq Conns

Init ==
  /\ members = Users
  /\ room = {}
  /\ user = [c \in Conns |-> None] /\ mu = [c \in Conns |-> None]
  /\ stage = [d \in Handlers |-> "new"]
  /\ aim = [d \in Handlers |-> None]
  /\ todo = [d \in Handlers |-> {}]
  /\ at = [d \in Handlers |-> None]
  /\ dead = [d \in Handlers |-> {}]
  /\ open = {} /\ peers = {} /\ reads = {}

Go(d, s) == stage' = [stage EXCEPT ![d] = s]

\* In the middle of an iteration over the room.
Iterating == {d \in Handlers : stage[d] \in Delivering /\ (todo[d] # {} \/ at[d] # None)}

\* BroadcastToProject skips the sender's connection, DeliverSignal picks the
\* connections of one user.
Addressees(d, u) == IF u = None THEN room \ {d} ELSE {c \in room : user[c] = u}

\* The room without some connections, and what others have left of it.
Without(gone) == [d \in Handlers |-> todo[d] \ gone]

\* Mutants: the bugs that the properties would catch.
MutWriteFails(d) ==  \* the sender taken for dead
  /\ at[d] # None /\ mu[at[d]] = d
  /\ at[d] \notin open \cap peers
  /\ mu' = [mu EXCEPT ![at[d]] = None]
  /\ at' = [at EXCEPT ![d] = None]
  /\ dead' = [dead EXCEPT ![d] = @ \cup ({d} \cap Conns)]
  /\ UNCHANGED <<members, room, user, stage, aim, todo, netVars>>
MutRevalidate(c) ==  \* only between two messages
  /\ stage[c] = "reading"
  /\ c \in open
  /\ open' = open \ {c}
  /\ UNCHANGED <<members, room, user, mu, stage, aim, todo, at, dead, peers, reads>>
MutWriteKeeps(d) ==  \* the error path returns before the unlock
  /\ at[d] # None /\ mu[at[d]] = d
  /\ at[d] \notin open \cap peers
  /\ at' = [at EXCEPT ![d] = None]
  /\ dead' = [dead EXCEPT ![d] = @ \cup {at[d]}]
  /\ UNCHANGED <<members, room, user, mu, stage, aim, todo, netVars>>
MutConnect(c, u) ==  \* userID and connID swapped in the call
  /\ stage[c] = "new" /\ u \in members
  /\ Go(c, "checked")
  /\ user' = [user EXCEPT ![c] = c]
  /\ open' = open \cup {c} /\ peers' = peers \cup {c} /\ reads' = reads \cup {c}
  /\ UNCHANGED <<members, room, mu, aim, todo, at, dead>>

-----------------------------------------------------------------------------
(* A connection *)

\* HandleWebSocket checks the membership and upgrades.
Connect(c, u) ==
  /\ stage[c] = "new"
  /\ u \in members
  /\ Go(c, "checked")
  /\ user' = [user EXCEPT ![c] = u]
  /\ open' = open \cup {c} /\ peers' = peers \cup {c} /\ reads' = reads \cup {c}
  /\ UNCHANGED <<members, room, mu, aim, todo, at, dead>>

\* addConnection, and the start of the broadcast of peer_connected; those who
\* iterate may come upon the new entry.
AddConnection(c) ==
  /\ stage[c] = "checked"
  /\ Go(c, "announcing")
  /\ room' = room \cup {c}
  /\ \E meets \in SUBSET {d \in Iterating : aim[d] \in {None, user[c]}} :
       todo' = [d \in Handlers |-> IF d = c THEN room
                                   ELSE IF d \in meets THEN todo[d] \cup {c} ELSE todo[d]]
  /\ UNCHANGED <<members, user, mu, aim, at, dead, netVars>>

\* A message is read, its sender still a member: to everybody (None), or stored
\* (Mailbox) and delivered to u.
Relay(c, u) ==
  /\ stage[c] = "reading" /\ c \in open \cap peers
  /\ user[c] \in members
  /\ Go(c, "relaying")
  /\ aim' = [aim EXCEPT ![c] = u]
  /\ todo' = [todo EXCEPT ![c] = Addressees(c, u)]
  /\ UNCHANGED <<members, room, user, mu, at, dead, netVars>>

\* A message is read, its sender no member; a failed query counts as no.
Refuse(c) ==
  /\ stage[c] = "reading" /\ c \in open \cap peers
  /\ Go(c, "leaving")
  /\ open' = open \ {c}
  /\ UNCHANGED <<members, room, user, mu, aim, todo, at, dead, peers, reads>>

\* ReadJSON fails: the connection is closed, the client gone or it sent no JSON.
ReadFails(c) ==
  /\ stage[c] = "reading"
  /\ Go(c, "leaving")
  /\ UNCHANGED <<members, room, user, mu, aim, todo, at, dead, netVars>>

\* The deferred removeConnection, and the start of peer_disconnected.
RemoveConnection(c) ==
  /\ stage[c] = "leaving"
  /\ Go(c, "parting")
  /\ room' = room \ {c}
  /\ todo' = [Without({c}) EXCEPT ![c] = room \ {c}]
  /\ UNCHANGED <<members, user, mu, aim, at, dead, netVars>>

\* The goroutine with the 30-second ticker, which lives until the handler's
\* loop ends; a failed query counts as no.
Revalidate(c) ==
  /\ stage[c] \in {"announcing", "reading", "relaying"}
  /\ c \in open
  /\ open' = open \ {c}
  /\ UNCHANGED <<members, room, user, mu, stage, aim, todo, at, dead, peers, reads>>

-----------------------------------------------------------------------------
(* Deliveries *)

\* SendSignal of a member to a member, after the signal has been stored.
SendSignal(s, u) ==
  /\ stage[s] = "new"
  /\ u \in members
  /\ Go(s, "relaying")
  /\ aim' = [aim EXCEPT ![s] = u]
  /\ todo' = [todo EXCEPT ![s] = Addressees(s, u)]
  /\ UNCHANGED <<members, room, user, mu, at, dead, netVars>>

\* The next entry of the map ...
Pick(d) ==
  /\ stage[d] \in Delivering /\ at[d] = None
  /\ \E c \in todo[d] :
       /\ at' = [at EXCEPT ![d] = c]
       /\ todo' = [todo EXCEPT ![d] = @ \ {c}]
  /\ UNCHANGED <<members, room, user, mu, stage, aim, dead, netVars>>

\* ... whose mutex is taken ...
Lock(d) ==
  /\ at[d] # None /\ mu[at[d]] = None
  /\ mu' = [mu EXCEPT ![at[d]] = d]
  /\ UNCHANGED <<members, room, user, stage, aim, todo, at, dead, netVars>>

\* ... for a write that succeeds, perhaps only into a buffer ...
WriteDone(d) ==
  /\ at[d] # None /\ mu[at[d]] = d
  /\ at[d] \in open
  /\ mu' = [mu EXCEPT ![at[d]] = None]
  /\ at' = [at EXCEPT ![d] = None]
  /\ UNCHANGED <<members, room, user, stage, aim, todo, dead, netVars>>

\* ... or fails.
WriteFails(d) ==
  /\ at[d] # None /\ mu[at[d]] = d
  /\ at[d] \notin open \cap peers
  /\ mu' = [mu EXCEPT ![at[d]] = None]
  /\ at' = [at EXCEPT ![d] = None]
  /\ dead' = [dead EXCEPT ![d] = @ \cup {at[d]}]
  /\ UNCHANGED <<members, room, user, stage, aim, todo, netVars>>

After(d) == IF d \in Sends \/ stage[d] = "parting" THEN "over" ELSE "reading"

\* At the end of the iteration the dead are removed, one by one ...
Dropping(d) == stage[d] \in Delivering /\ at[d] = None /\ todo[d] = {} /\ dead[d] # {}

DropDead(d) ==
  /\ Dropping(d)
  /\ \E c \in dead[d] :
       /\ room' = room \ {c}
       /\ todo' = Without({c})
       /\ dead' = [dead EXCEPT ![d] = @ \ {c}]
  /\ UNCHANGED <<members, user, mu, stage, aim, at, netVars>>

Close(d) ==
  /\ user' = [c \in Conns |-> IF c = d THEN None ELSE user[c]]
  /\ open' = open \ {d} /\ peers' = peers \ {d} /\ reads' = reads \ {d}

\* ... and the handler goes on; a connection's handler closes it after its last
\* delivery.
Finish(d) ==
  /\ stage[d] \in Delivering /\ at[d] = None /\ todo[d] = {} /\ dead[d] = {}
  /\ aim' = [aim EXCEPT ![d] = None]
  /\ Go(d, After(d))
  /\ IF After(d) = "over" THEN Close(d) ELSE UNCHANGED <<user, netVars>>
  /\ UNCHANGED <<members, room, mu, todo, at, dead>>

\* "fatal error: concurrent map iteration and map write", while one handler
\* fetches the next entry and another writes: all handlers and connections of
\* the process are gone.
ConcurrentMapFatal ==
  /\ \E c, d \in Handlers :
       /\ c # d
       /\ stage[d] \in Delivering /\ at[d] = None
       /\ stage[c] \in {"checked", "leaving"} \/ Dropping(c)
  /\ room' = {}
  /\ mu' = [c \in Conns |-> None]
  /\ stage' = [d \in Handlers |-> IF stage[d] = "new" THEN "new" ELSE "over"]
  /\ aim' = [d \in Handlers |-> None]
  /\ todo' = [d \in Handlers |-> {}]
  /\ at' = [d \in Handlers |-> None]
  /\ dead' = [d \in Handlers |-> {}]
  /\ user' = [c \in Conns |-> None]
  /\ open' = {} /\ peers' = {} /\ reads' = {}
  /\ UNCHANGED members

-----------------------------------------------------------------------------
(* Members and clients *)

Leave(u) == u \in members /\ members' = members \ {u}
            /\ UNCHANGED <<room, user, mu, stage, aim, todo, at, dead, netVars>>

Return(u) == u \notin members /\ members' = members \cup {u}
             /\ UNCHANGED <<room, user, mu, stage, aim, todo, at, dead, netVars>>

PeerGone(c) == c \in peers /\ peers' = peers \ {c} /\ reads' = reads \ {c}
               /\ UNCHANGED <<members, room, user, mu, stage, aim, todo, at, dead, open>>

StopsReading(c) == c \in reads /\ reads' = reads \ {c}
                   /\ UNCHANGED <<members, room, user, mu, stage, aim, todo, at, dead, open, peers>>

-----------------------------------------------------------------------------

Write(d) == WriteDone(d) \/ WriteFails(d)

Next ==
  \/ \E c \in Conns :
       \/ AddConnection(c) \/ Refuse(c) \/ ReadFails(c) \/ RemoveConnection(c) \/ Revalidate(c)
       \/ PeerGone(c) \/ StopsReading(c)
       \/ \E u \in Users : Connect(c, u)
       \/ \E u \in Users \cup {None} : Relay(c, u)
  \/ \E s \in Sends, u \in Users : SendSignal(s, u)
  \/ \E d \in Handlers : Pick(d) \/ Lock(d) \/ Write(d) \/ DropDead(d) \/ Finish(d)
  \/ \E u \in Fickle : Leave(u) \/ Return(u)
  \/ ConcurrentMapFatal

Spec == Init /\ [][Next]_vars

\* Handlers go on, a mutex is handed over in turn, the ticker of a connection
\* fires, a closed or broken connection is noticed; a write to a client that
\* reads, or to a closed connection, ends.
LiveSpec ==
  /\ Spec
  /\ \A c \in Conns :
       /\ WF_vars(AddConnection(c)) /\ WF_vars(RemoveConnection(c))
       /\ WF_vars(c \notin open \cap peers /\ ReadFails(c))
       /\ WF_vars(user[c] \notin members /\ Revalidate(c))
  /\ \A d \in Handlers :
       /\ WF_vars(Pick(d)) /\ SF_vars(Lock(d)) /\ WF_vars(DropDead(d)) /\ WF_vars(Finish(d))
       /\ WF_vars(at[d] \in reads \cup (Conns \ (open \cap peers)) /\ Write(d))

-----------------------------------------------------------------------------
(* Properties *)

\* A connection that works is never taken out of the room by the handlers of
\* others, however stale the list of the dead is by then (hub.go:265, 301).
OnlyTheDeadAreDropped ==
  [][\A c \in room : c \in open \cap peers /\ stage[c] # "leaving" /\ c \notin room' => open' = {}]_vars

\* "a removed member's socket is torn down shortly after revocation instead of
\* staying in the room indefinitely" (hub.go:127), also while its handler, or
\* somebody who writes to it, waits for a client that has stopped reading.
RevokedSocketsClose ==
  \A c \in Conns : (c \in room /\ user[c] \notin members) ~>
    (c \notin room \/ c \notin open \/ user[c] \in members)

\* As long as clients read, every delivery ends, and a connection whose client is
\* gone is announced as such and its handler ends: no two handlers wait for each
\* other's connections (hub.go:112-121, 284-303).
HandlersEnd ==
  [](peers \subseteq reads) =>
    /\ \A d \in Handlers : stage[d] \in Delivering ~> stage[d] \notin Delivering
    /\ \A c \in Conns : (stage[c] # "new" /\ c \notin peers) ~> stage[c] = "over"

\* "Push to WebSocket if recipient is connected" (signaling.go:79), "Other devices
\* logged into the same user account WILL receive the signal" (hub.go:286): a
\* delivery reaches each of its addressees that goes on reading.
ReadersReceive ==
  \A c \in Conns, d \in Handlers :
    [](c \in room => c \in reads) => (c \in todo[d] ~> c \notin todo[d])
=============================================================================
