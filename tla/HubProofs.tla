------------------------------- MODULE HubProofs -------------------------------
(***************************************************************************)
(* Proofs about Hub, for any users, connections and calls of SendSignal.   *)
(* What keeps a working connection in the room is that the lists of the    *)
(* dead are never wrong, however long they wait to be used: whatever has   *)
(* got on one is broken for good, because a connection opens only once, at *)
(* the start of its handler, when nothing of the room mentions it yet.     *)
(***************************************************************************)
EXTENDS Hub, TLAPS

\* A handler that has not begun is not known to the room, nor to any delivery.
NewAreUnknown ==
  \A c \in Conns : stage[c] = "new" =>
    /\ c \notin room
    /\ \A d \in Handlers : c \notin todo[d] /\ at[d] # c /\ c \notin dead[d]

\* What is on a list of the dead is closed, or its client is gone.
DeadAreDead ==
  \A d \in Handlers : dead[d] \cap open \cap peers = {}

\* Nobody is in the middle of a write or has a list unless it delivers.
OnlyDeliveriesWrite ==
  \A d \in Handlers : stage[d] \notin Delivering =>
    at[d] = None /\ todo[d] = {} /\ dead[d] = {} /\ aim[d] = None

\* A socket's mutex is held by a handler that is writing to that socket.
WriterHoldsMutex ==
  \A c \in Conns : mu[c] # None => at[mu[c]] = c

\* A connection that has been checked knows its user.
CheckedHaveUser ==
  \A c \in Conns : stage[c] = "checked" => user[c] \in Users

\* An entry of the room belongs to a handler that is going on, and to a user.
EntriesAreServed ==
  \A c \in room : stage[c] \in {"announcing", "reading", "relaying", "leaving"} /\ user[c] \in Users

\* A delivery to a user visits connections of that user, or such as have been
\* closed since; a broadcast passes its sender over.
WrittenToAddressees ==
  \A d \in Handlers, c \in Conns : c \in todo[d] \/ at[d] = c =>
    IF aim[d] = None THEN c # d ELSE user[c] \in {aim[d], None}

Ind ==
  /\ TypeOK /\ NewAreUnknown /\ DeadAreDead
  /\ OnlyDeliveriesWrite /\ WriterHoldsMutex /\ CheckedHaveUser /\ EntriesAreServed
  /\ WrittenToAddressees

LEMMA InitInd == Init => Ind
  BY HubAssumption DEF Init, Ind, TypeOK, Handlers, Stages, Delivering, NewAreUnknown, DeadAreDead,
    OnlyDeliveriesWrite, WriterHoldsMutex, CheckedHaveUser, EntriesAreServed,
    WrittenToAddressees

\* A connection's own steps that leave the deliveries alone: it opens, is
\* refused, fails or is revalidated.
LEMMA ConnectionStep ==
  ASSUME Ind, NEW c \in Conns,
         \/ \E u \in Users : Connect(c, u)
         \/ Refuse(c) \/ ReadFails(c) \/ Revalidate(c)
  PROVE  Ind'
<1>. USE DEF Connect, Refuse, ReadFails, Revalidate, Go, netVars
<1>1. TypeOK'
  BY DEF Ind, TypeOK, Handlers, Stages, Delivering
<1>2. NewAreUnknown'
  BY DEF Ind, TypeOK, Handlers, NewAreUnknown
<1>3. DeadAreDead'
  BY DEF Ind, TypeOK, Handlers, NewAreUnknown, DeadAreDead
<1>4. OnlyDeliveriesWrite'
  BY DEF Ind, TypeOK, Handlers, Delivering, OnlyDeliveriesWrite
<1>5. WriterHoldsMutex'
  BY DEF Ind, TypeOK, WriterHoldsMutex
<1>6. EntriesAreServed' /\ CheckedHaveUser'
  BY DEF Ind, TypeOK, Handlers, CheckedHaveUser, EntriesAreServed
<1>7. WrittenToAddressees'
  BY DEF Ind, TypeOK, Handlers, NewAreUnknown, WrittenToAddressees
<1>. QED
  BY <1>1, <1>2, <1>3, <1>4, <1>5, <1>6, <1>7 DEF Ind

\* A connection's way into the room, which begins a delivery.
LEMMA JoinStep ==
  ASSUME Ind, NEW c \in Conns, AddConnection(c)
  PROVE  Ind'
<1>1. PICK meets \in SUBSET {d \in Iterating : aim[d] \in {None, user[c]}} :
        todo' = [d \in Handlers |-> IF d = c THEN room
                                    ELSE IF d \in meets THEN todo[d] \cup {c} ELSE todo[d]]
  BY DEF AddConnection
<1>2. /\ stage[c] = "checked" /\ stage' = [stage EXCEPT ![c] = "announcing"] /\ room' = room \cup {c}
      /\ UNCHANGED <<members, user, mu, aim, at, dead, open, peers, reads>>
  BY DEF AddConnection, Go, netVars
<1>3. TypeOK'
  <2>1. todo' \in [Handlers -> SUBSET Conns]
    BY <1>1 DEF Ind, TypeOK
  <2>. QED
    BY <1>2, <2>1 DEF Ind, TypeOK, Stages, Delivering
<1>4. NewAreUnknown'
  <2>1. \A b \in Conns : stage'[b] = "new" => stage[b] = "new" /\ b # c
    BY <1>2 DEF Ind, TypeOK, Handlers
  <2>2. \A d \in Handlers : todo'[d] \subseteq todo[d] \cup room \cup {c}
    BY <1>1
  <2>. QED
    BY <1>2, <2>1, <2>2 DEF Ind, NewAreUnknown
<1>5. OnlyDeliveriesWrite'
  <2>1. \A d \in Handlers : stage'[d] \notin Delivering => stage[d] \notin Delivering /\ d # c /\ d \notin meets
    BY <1>2 DEF Ind, TypeOK, Handlers, Delivering, Iterating
  <2>. QED
    BY <1>1, <1>2, <2>1 DEF Ind, OnlyDeliveriesWrite
<1>6. DeadAreDead' /\ WriterHoldsMutex'
  BY <1>2 DEF Ind, DeadAreDead, WriterHoldsMutex
<1>7. EntriesAreServed' /\ CheckedHaveUser'
  BY <1>2 DEF Ind, TypeOK, Handlers, CheckedHaveUser, EntriesAreServed
<1>8. WrittenToAddressees'
  <2>1. \A d \in Handlers : aim[d] # None /\ d \in meets => aim[d] = user[c]
    BY <1>1
  <2>2. c \notin room /\ aim[c] = None
    BY <1>2 DEF Ind, OnlyDeliveriesWrite, EntriesAreServed, Delivering, Handlers
  <2>. QED
    BY <1>1, <1>2, <2>1, <2>2 DEF Ind, TypeOK, WrittenToAddressees
<1>. QED
  BY <1>3, <1>4, <1>5, <1>6, <1>7, <1>8 DEF Ind

\* The start of any other delivery; one of them is the way out of the room.
LEMMA StartStep ==
  ASSUME Ind, NEW d \in Handlers,
         \/ d \in Conns /\ RemoveConnection(d)
         \/ d \in Conns /\ \E u \in Users \cup {None} : Relay(d, u)
         \/ d \in Sends /\ \E u \in Users : SendSignal(d, u)
  PROVE  Ind'
<1>1. /\ stage' = [stage EXCEPT ![d] = stage'[d]] /\ stage'[d] \in Delivering
      /\ room' \subseteq room /\ todo' \in [Handlers -> SUBSET Conns]
      /\ todo'[d] \subseteq room /\ \A e \in Handlers \ {d} : todo'[e] \subseteq todo[e]
      /\ aim' = [aim EXCEPT ![d] = aim'[d]] /\ aim'[d] \in Users \cup {None}
      /\ UNCHANGED <<members, user, mu, at, dead, open, peers, reads>>
  <2>1. CASE d \in Conns /\ RemoveConnection(d)
    BY <2>1 DEF RemoveConnection, Without, Go, netVars, Ind, TypeOK, Delivering
  <2>2. CASE d \in Conns /\ \E u \in Users \cup {None} : Relay(d, u)
    BY <2>2 DEF Relay, Addressees, Go, netVars, Ind, TypeOK, Delivering
  <2>3. CASE d \in Sends /\ \E u \in Users : SendSignal(d, u)
    BY <2>3 DEF SendSignal, Addressees, Go, netVars, Ind, TypeOK, Delivering
  <2>. QED
    BY <2>1, <2>2, <2>3
<1>2. TypeOK'
  BY <1>1 DEF Ind, TypeOK, Stages
<1>3. NewAreUnknown'
  BY <1>1 DEF Ind, TypeOK, Handlers, Delivering, NewAreUnknown
<1>4. OnlyDeliveriesWrite'
  BY <1>1 DEF Ind, TypeOK, Delivering, OnlyDeliveriesWrite
<1>5. DeadAreDead' /\ WriterHoldsMutex'
  BY <1>1 DEF Ind, DeadAreDead, WriterHoldsMutex
<1>6. EntriesAreServed' /\ CheckedHaveUser'
  <2>1. CASE d \in Conns /\ RemoveConnection(d)
    BY <1>1, <2>1 DEF RemoveConnection, Go, Ind, TypeOK, Handlers, CheckedHaveUser, EntriesAreServed
  <2>2. CASE d \in Conns /\ \E u \in Users \cup {None} : Relay(d, u)
    BY <1>1, <2>2 DEF Relay, Go, Ind, TypeOK, Handlers, CheckedHaveUser, EntriesAreServed
  <2>3. CASE d \in Sends /\ \E u \in Users : SendSignal(d, u)
    BY <1>1, <2>3, HubAssumption DEF SendSignal, Go, Ind, TypeOK, Handlers, CheckedHaveUser, EntriesAreServed
  <2>. QED
    BY <1>1, <2>1, <2>2, <2>3
<1>7. WrittenToAddressees'
  <2>1. aim[d] = None /\ at[d] = None
    BY HubAssumption DEF RemoveConnection, Relay, SendSignal, Ind, Handlers, Delivering, OnlyDeliveriesWrite
  <2>2. \A c \in todo'[d] : IF aim'[d] = None THEN c # d ELSE user[c] = aim'[d]
    BY <2>1, HubAssumption DEF RemoveConnection, Without, Relay, SendSignal, Addressees, Ind, TypeOK, Handlers
  <2>. QED
    BY <1>1, <2>1, <2>2, HubAssumption DEF Ind, TypeOK, WrittenToAddressees
<1>. QED
  BY <1>2, <1>3, <1>4, <1>5, <1>6, <1>7 DEF Ind

\* The steps of a delivery.
LEMMA DeliveryStep ==
  ASSUME Ind, NEW d \in Handlers,
         Pick(d) \/ Lock(d) \/ Write(d) \/ DropDead(d) \/ Finish(d)
  PROVE  Ind'
<1>. USE DEF Pick, Lock, Write, WriteDone, WriteFails, Finish, Close, After, DropDead, Dropping,
         Go, netVars, Without
<1>1. TypeOK'
  BY HubAssumption DEF Ind, TypeOK, Handlers, Stages, Delivering
<1>2. NewAreUnknown'
  BY HubAssumption DEF Ind, TypeOK, Handlers, Delivering, NewAreUnknown
<1>3. DeadAreDead'
  BY HubAssumption DEF Ind, TypeOK, Handlers, DeadAreDead
<1>4. OnlyDeliveriesWrite'
  BY HubAssumption DEF Ind, TypeOK, Handlers, Delivering, OnlyDeliveriesWrite
<1>5. WriterHoldsMutex'
  BY HubAssumption DEF Ind, TypeOK, Handlers, WriterHoldsMutex
<1>6. EntriesAreServed' /\ CheckedHaveUser'
  <2>1. CASE Pick(d) \/ Lock(d) \/ Write(d) \/ DropDead(d)
    BY <2>1 DEF Ind, CheckedHaveUser, EntriesAreServed
  <2>2. CASE Finish(d)
    <3>1. \A c \in Conns \ {d} : stage'[c] = stage[c] /\ user'[c] = user[c]
      BY <2>2 DEF Ind, TypeOK, Handlers
    <3>2. stage'[d] \in {"over", "reading"} /\ room' = room
      BY <2>2 DEF Ind, TypeOK
    <3>3. CASE d \in room
      <4>1. stage[d] # "parting" /\ d \notin Sends
        BY <3>3, HubAssumption DEF Ind, TypeOK, EntriesAreServed
      <4>2. stage'[d] = "reading" /\ user' = user
        BY <2>2, <4>1 DEF Ind, TypeOK
      <4>. QED
        BY <3>1, <3>2, <3>3, <4>2 DEF Ind, TypeOK, CheckedHaveUser, EntriesAreServed
    <3>4. CASE d \notin room
      BY <3>1, <3>2, <3>4 DEF Ind, TypeOK, CheckedHaveUser, EntriesAreServed
    <3>. QED
      BY <3>3, <3>4
  <2>. QED
    BY <2>1, <2>2
<1>7. WrittenToAddressees'
  BY HubAssumption DEF Ind, TypeOK, Handlers, WrittenToAddressees
<1>. QED
  BY <1>1, <1>2, <1>3, <1>4, <1>5, <1>6, <1>7 DEF Ind

\* Steps of the world around: members and clients come and go, the process ends.
LEMMA OutsideStep ==
  ASSUME Ind,
         \/ \E u \in Fickle : Leave(u) \/ Return(u)
         \/ \E c \in Conns : PeerGone(c) \/ StopsReading(c)
         \/ ConcurrentMapFatal
         \/ UNCHANGED vars
  PROVE  Ind'
<1>. USE DEF Leave, Return, PeerGone, StopsReading, ConcurrentMapFatal, vars, netVars
<1>1. TypeOK'
  BY HubAssumption DEF Ind, TypeOK, Handlers, Stages, Delivering
<1>2. NewAreUnknown'
  BY HubAssumption DEF Ind, TypeOK, Handlers, NewAreUnknown
<1>3. DeadAreDead'
  BY DEF Ind, DeadAreDead
<1>4. OnlyDeliveriesWrite'
  BY DEF Ind, TypeOK, Handlers, Delivering, OnlyDeliveriesWrite
<1>5. WriterHoldsMutex'
  BY DEF Ind, TypeOK, WriterHoldsMutex
<1>6. EntriesAreServed' /\ CheckedHaveUser'
  BY DEF Ind, TypeOK, Handlers, CheckedHaveUser, EntriesAreServed
<1>7. WrittenToAddressees'
  BY HubAssumption DEF Ind, TypeOK, Handlers, WrittenToAddressees
<1>. QED
  BY <1>1, <1>2, <1>3, <1>4, <1>5, <1>6, <1>7 DEF Ind

LEMMA NextInd == Ind /\ [Next]_vars => Ind'
<1>1. SUFFICES ASSUME Ind, [Next]_vars PROVE Ind'
  OBVIOUS
<1>2. ASSUME NEW c \in Conns,
             \/ AddConnection(c) \/ Refuse(c) \/ ReadFails(c) \/ RemoveConnection(c) \/ Revalidate(c)
             \/ PeerGone(c) \/ StopsReading(c)
             \/ \E u \in Users : Connect(c, u)
             \/ \E u \in Users \cup {None} : Relay(c, u)
      PROVE  Ind'
  BY <1>1, <1>2, ConnectionStep, JoinStep, StartStep, OutsideStep DEF Handlers
<1>3. ASSUME NEW s \in Sends, NEW u \in Users, SendSignal(s, u) PROVE Ind'
  BY <1>1, <1>3, StartStep DEF Handlers
<1>4. ASSUME NEW d \in Handlers, Pick(d) \/ Lock(d) \/ Write(d) \/ DropDead(d) \/ Finish(d)
      PROVE  Ind'
  BY <1>1, <1>4, DeliveryStep
<1>5. CASE \/ \E u \in Fickle : Leave(u) \/ Return(u)
           \/ ConcurrentMapFatal
           \/ UNCHANGED vars
  BY <1>1, <1>5, OutsideStep
<1>. QED
  BY <1>1, <1>2, <1>3, <1>4, <1>5 DEF Next

LEMMA Invariance == Spec => []Ind
  BY InitInd, NextInd, PTL DEF Spec

\* Every variable keeps its type.
THEOREM TypeCorrect == Spec => []TypeOK
<1>1. Ind => TypeOK
  BY DEF Ind
<1>. QED
  BY <1>1, Invariance, PTL

\* No handler of another takes a working connection out of the room, unless
\* the process ends (hub.go:265, 301).
THEOREM WorkingStay == Spec => OnlyTheDeadAreDropped
<1>1. ASSUME Ind, [Next]_vars, NEW c \in room,
             c \in open \cap peers, stage[c] # "leaving", c \notin room'
      PROVE  open' = {}
  <2>1. ASSUME NEW d \in Handlers, DropDead(d) PROVE FALSE
    BY <1>1, <2>1 DEF DropDead, Ind, DeadAreDead
  <2>2. ASSUME NEW d \in Conns, RemoveConnection(d) PROVE FALSE
    BY <1>1, <2>2 DEF RemoveConnection
  <2>3. CASE ConcurrentMapFatal
    BY <2>3 DEF ConcurrentMapFatal
  <2>4. CASE room \subseteq room'
    BY <1>1, <2>4
  <2>5. ASSUME NEW d \in Conns,
               \/ AddConnection(d) \/ Refuse(d) \/ ReadFails(d) \/ Revalidate(d)
               \/ PeerGone(d) \/ StopsReading(d)
               \/ \E u \in Users : Connect(d, u)
               \/ \E u \in Users \cup {None} : Relay(d, u)
        PROVE  room \subseteq room'
    BY <2>5 DEF AddConnection, Refuse, ReadFails, Revalidate, PeerGone, StopsReading, Connect, Relay
  <2>6. ASSUME NEW d \in Handlers,
               \/ Pick(d) \/ Lock(d) \/ Write(d) \/ Finish(d)
               \/ \E u \in Users : SendSignal(d, u)
        PROVE  room \subseteq room'
    BY <2>6 DEF Pick, Lock, Write, WriteDone, WriteFails, Finish, SendSignal
  <2>7. CASE (\E u \in Fickle : Leave(u) \/ Return(u)) \/ UNCHANGED vars
    BY <1>1, <2>7 DEF Leave, Return, vars
  <2>. QED
    BY <1>1, <2>1, <2>2, <2>3, <2>4, <2>5, <2>6, <2>7 DEF Next, Handlers
<1>2. Ind /\ [Next]_vars =>
        [\A c \in room : c \in open \cap peers /\ stage[c] # "leaving" /\ c \notin room' => open' = {}]_vars
  BY <1>1
<1>. QED
  BY <1>2, Invariance, PTL DEF Spec, OnlyTheDeadAreDropped

\* A socket's mutex is never left locked: whoever holds it is writing to the
\* socket, and no two handlers write to one at a time (hub.go:255, 292).
OneWriter ==
  \A c \in Conns : mu[c] # None =>
    /\ stage[mu[c]] \in Delivering
    /\ at[mu[c]] = c

THEOREM SocketsHaveOneWriter == Spec => []OneWriter
<1>1. Ind => OneWriter
  BY HubAssumption DEF Ind, TypeOK, OnlyDeliveriesWrite, WriterHoldsMutex, OneWriter
<1>. QED
  BY <1>1, Invariance, PTL
\* An entry of the room never outlives the handler of its connection, and it
\* names a user: what the room lists, somebody is going to take out again
\* (hub.go:112-121).
THEOREM NoEntryIsLeft == Spec => []EntriesAreServed
<1>1. Ind => EntriesAreServed
  BY DEF Ind
<1>. QED
  BY <1>1, Invariance, PTL

\* A signal is written to no connection but its addressee's, however the room
\* changes while the delivery goes through it, and a broadcast never returns to
\* its sender (hub.go:253, 287).
THEOREM OnlyAddresseesReceive == Spec => []WrittenToAddressees
<1>1. Ind => WrittenToAddressees
  BY DEF Ind
<1>. QED
  BY <1>1, Invariance, PTL
=============================================================================
