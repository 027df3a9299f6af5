----------------------------- MODULE TunnelProofs -----------------------------
(***************************************************************************)
(* Proofs about Tunnel, for any sessions, requests and connections, any    *)
(* lifetimes and limits.  The argument turns on one fact: a connection     *)
(* that has been attached is open exactly as long as its session names it. *)
(* So a request that finds its connection open after terminate has closed  *)
(* the session's one has found a latecomer, and every request that was     *)
(* written before is on the table when terminate drains it.                *)
(***************************************************************************)
EXTENDS Tunnel, FiniteSetTheorems, TLAPS

Attached == {"attached", "greeting", "reading", "deliver", "leaving", "over"}
OnTable  == {"registered", "writing", "waiting"}
AtConn   == OnTable \cup {"holding"}

\* A listed session lives; agents come only to sessions that have been created.
SessionsKnown ==
  /\ \A s \in listed : life[s] = "up"
  /\ \A s \in Sessions : life[s] = "new" => latest[s] = None
  /\ \A c \in Conns : agent[c] # "new" => serves[c] \in Sessions /\ life[serves[c]] # "new"

\* A request knows its session, and the connection it has found there.
RequestsKnown ==
  \A r \in Requests :
    /\ req[r] \in AtConn \cup {"chosen", "found"} => session[r] \in Sessions
    /\ req[r] \in AtConn =>
         via[r] \in Conns /\ agent[via[r]] \in Attached /\ serves[via[r]] = session[r]

\* A request is on the table from its registration until the session has been
\* drained; its channel is empty before, and not closed while it is there.
TableKept ==
  \A r \in Requests :
    /\ r \in pending => req[r] \in OnTable /\ chan[r] \in {"empty", "answer"}
    /\ req[r] \notin OnTable \cup {"over"} => chan[r] = "empty"
    /\ req[r] \in OnTable /\ life[session[r]] # "done" => r \in pending

\* An answer on its way is for a request of the connection's session, which may
\* be over by now.
RepliesKnown ==
  \A c \in Conns : agent[c] = "deliver" =>
    /\ reply[c] \in Requests /\ req[reply[c]] \in OnTable \cup {"over"}
    /\ session[reply[c]] \in {serves[c], None}

\* A connection that has been attached is open as long as its session names it:
\* whoever replaces, detaches or ends it closes it.
OpenIffNamed ==
  /\ \A c \in Conns : agent[c] = "checked" => c \in open
  /\ \A c \in Conns : agent[c] \in Attached => (c \in open <=> conn[serves[c]] = c)
  /\ \A s \in Sessions : conn[s] # None => agent[conn[s]] \in Attached /\ serves[conn[s]] = s

\* From the moment terminate lets go of connMu, only latecomers are attached.
LatecomersKnown ==
  \A s \in Sessions : conn[s] # None /\ life[s] \in {"drain", "done"} => conn[s] \in late

\* Whoever writes a request holds the mutex, and no handshake goes on meanwhile.
WritersHold ==
  /\ \A c \in Conns : agent[c] = "greeting" => c \in writing
  /\ \A r \in Requests : req[r] = "writing" =>
       connMu[session[r]] = r /\ via[r] \in writing /\ agent[via[r]] # "greeting"

\* NobodyStranded, from the write on.
WrittenAreServed ==
  \A r \in Requests : req[r] \in {"writing", "waiting"} /\ life[session[r]] = "done" =>
    chan[r] # "empty" \/ via[r] \in late

Capped == \A s \in Sessions : expiresAt[s] <= createdAt[s] + MaxLife

Known == TypeOK /\ SessionsKnown /\ RequestsKnown /\ RepliesKnown

Ind ==
  /\ Known /\ TableKept /\ OpenIffNamed /\ LatecomersKnown /\ WritersHold
  /\ WrittenAreServed /\ PanicOnlyAtTheEnd /\ LatestAgentStays /\ MutexIsReturned /\ Capped

\* A wrapped duration is a number, maybe a negative one.
LEMMA SignedIsInt == ASSUME NEW d \in Extensions PROVE Signed(d) \in Int
<1>1. d \in Int /\ Half \in Int /\ 2 * Half \in Nat \ {0}
  BY TimesAssumption
<1>2. (d + Half) % (2 * Half) \in Int
  BY <1>1
<1>. QED
  BY <1>1, <1>2 DEF Signed

LEMMA InitInd == Init => Ind
  BY NamesAssumption, TimesAssumption DEF Init, Ind, Known, TypeOK, Lives, ReqStages, AgentStages,
    Attached, OnTable, AtConn, SessionsKnown, RequestsKnown, RepliesKnown, TableKept, OpenIffNamed,
    LatecomersKnown, WritersHold, WrittenAreServed, PanicOnlyAtTheEnd, LatestAgentStays,
    MutexIsReturned, Capped

LEMMA OwnerStep ==
  ASSUME Ind, Tick \/ SweepExpired \/ (\E s \in Sessions : CreateSession(s) \/ ExtendSession(s) \/ CloseSession(s) \/ SweepNext(s))
  PROVE  Ind'
<1>. USE NamesAssumption, TimesAssumption
     DEF Tick, SweepExpired, CreateSession, ExtendSession, CloseSession, SweepNext, NewExpiry, Smaller, Expired,
         sessionVars, reqVars, agentVars, netVars, history, Ind, Known, TypeOK
<1>1. TypeOK'
  <2>1. CASE Tick \/ SweepExpired
    BY <2>1 DEF Lives
  <2>2. ASSUME NEW s \in Sessions, CreateSession(s) PROVE TypeOK'
    <3>1. PICK d \in Durations : expiresAt' = [expiresAt EXCEPT ![s] = now + Smaller(d, MaxDuration)]
      BY <2>2
    <3>2. now + Smaller(d, MaxDuration) \in Nat
      OBVIOUS
    <3>3. expiresAt' \in [Sessions -> Int]
      BY <3>1, <3>2
    <3>4. createdAt' \in [Sessions -> Nat]
      BY <2>2
    <3>5. /\ active' = [active EXCEPT ![s] = TRUE] /\ listed' = listed \cup {s}
          /\ life' = [life EXCEPT ![s] = "up"]
      BY <2>2, Zenon
    <3>6. active' \in [Sessions -> BOOLEAN] /\ listed' \subseteq Sessions
      BY <3>5
    <3>7. life' \in [Sessions -> Lives]
      BY <3>5 DEF Lives
    <3>. QED
      BY <2>2, <3>3, <3>4, <3>6, <3>7
  <2>3. ASSUME NEW s \in Sessions, ExtendSession(s) PROVE TypeOK'
    <3>1. PICK d \in Extensions : expiresAt' = [expiresAt EXCEPT ![s] = NewExpiry(s, d)]
      BY <2>3
    <3>2. NewExpiry(s, d) \in Int
      BY SignedIsInt
    <3>. QED
      BY <2>3, <3>1, <3>2
  <2>4. ASSUME NEW s \in Sessions, CloseSession(s) PROVE TypeOK'
    BY <2>4 DEF Lives
  <2>5. ASSUME NEW s \in Sessions, SweepNext(s) PROVE TypeOK'
    BY <2>5 DEF Lives
  <2>. QED
    BY <2>1, <2>2, <2>3, <2>4, <2>5
<1>2. SessionsKnown'
  BY DEF SessionsKnown
<1>3. RequestsKnown'
  BY DEF RequestsKnown, SessionsKnown, Attached, OnTable, AtConn
<1>4. RepliesKnown'
  BY DEF RepliesKnown, OnTable, AtConn, RequestsKnown, TableKept
<1>5. TableKept'
  BY DEF TableKept, OnTable, AtConn, RequestsKnown, SessionsKnown
<1>6. OpenIffNamed'
  BY DEF OpenIffNamed, Attached, SessionsKnown
<1>7. LatecomersKnown'
  BY DEF LatecomersKnown, SessionsKnown, OpenIffNamed
<1>8. WritersHold'
  BY DEF WritersHold, OnTable, AtConn, RequestsKnown
<1>9. WrittenAreServed'
  BY DEF WrittenAreServed, OnTable, AtConn, Attached, RequestsKnown, TableKept, OpenIffNamed, LatecomersKnown, SessionsKnown
<1>10. PanicOnlyAtTheEnd'
  BY DEF PanicOnlyAtTheEnd, RepliesKnown, TableKept, SessionsKnown, OnTable
<1>11. LatestAgentStays'
  BY DEF LatestAgentStays, SessionsKnown, OpenIffNamed, Attached
<1>12. MutexIsReturned'
  BY DEF MutexIsReturned, WritersHold, RequestsKnown, OnTable, AtConn
<1>13. Capped'
  <2>1. CASE Tick \/ SweepExpired
    BY <2>1 DEF Capped
  <2>2. ASSUME NEW s \in Sessions, CreateSession(s) PROVE Capped'
    BY <2>2 DEF Capped
  <2>3. ASSUME NEW s \in Sessions, ExtendSession(s) PROVE Capped'
    <3>1. PICK d \in Extensions : expiresAt' = [expiresAt EXCEPT ![s] = NewExpiry(s, d)]
      BY <2>3
    <3>2. Signed(d) \in Int
      BY SignedIsInt
    <3>3. NewExpiry(s, d) <= createdAt[s] + MaxLife
      BY <3>2
    <3>. QED
      BY <2>3, <3>1, <3>3 DEF Capped
  <2>4. ASSUME NEW s \in Sessions, CloseSession(s) \/ SweepNext(s) PROVE Capped'
    BY <2>4 DEF Capped
  <2>. QED
    BY <2>1, <2>2, <2>3, <2>4
<1>. QED
  BY <1>1, <1>2, <1>3, <1>4, <1>5, <1>6, <1>7, <1>8, <1>9, <1>10, <1>11, <1>12, <1>13

LEMMA CloseConnStep ==
  ASSUME Ind, NEW s \in Sessions, CloseConn(s)
  PROVE  Ind'
<1>. USE NamesAssumption, TimesAssumption
     DEF CloseConn, Free,
         sessionVars, reqVars, agentVars, netVars, history, Ind, Known, TypeOK
<1>1. TypeOK'
  BY DEF Lives, ReqStages, AgentStages
<1>2. SessionsKnown'
  BY DEF SessionsKnown
<1>3. RequestsKnown'
  BY DEF RequestsKnown, SessionsKnown, Attached, OnTable, AtConn
<1>4. RepliesKnown'
  BY DEF RepliesKnown, OnTable, AtConn, RequestsKnown, TableKept
<1>5. TableKept'
  BY DEF TableKept, OnTable, AtConn, RequestsKnown, SessionsKnown
<1>6. OpenIffNamed'
  BY DEF OpenIffNamed, Attached, SessionsKnown
<1>7. LatecomersKnown'
  BY DEF LatecomersKnown, SessionsKnown, OpenIffNamed
<1>8. WritersHold'
  BY DEF WritersHold, OnTable, AtConn, RequestsKnown
<1>9. WrittenAreServed'
  BY DEF WrittenAreServed, OnTable, AtConn, Attached, RequestsKnown, TableKept, OpenIffNamed, LatecomersKnown, SessionsKnown
<1>10. PanicOnlyAtTheEnd'
  BY DEF PanicOnlyAtTheEnd, RepliesKnown, TableKept, SessionsKnown, OnTable
<1>11. LatestAgentStays'
  BY DEF LatestAgentStays, SessionsKnown, OpenIffNamed, Attached
<1>12. MutexIsReturned'
  BY DEF MutexIsReturned, WritersHold, RequestsKnown, OnTable, AtConn
<1>13. Capped'
  BY DEF Capped
<1>. QED
  BY <1>1, <1>2, <1>3, <1>4, <1>5, <1>6, <1>7, <1>8, <1>9, <1>10, <1>11, <1>12, <1>13

LEMMA DrainStep ==
  ASSUME Ind, NEW s \in Sessions, DrainPending(s)
  PROVE  Ind'
<1>. USE NamesAssumption, TimesAssumption
     DEF DrainPending, PendingOf, Closed,
         sessionVars, reqVars, agentVars, netVars, history, Ind, Known, TypeOK
<1>1. TypeOK'
  BY DEF Lives, ReqStages, AgentStages
<1>2. SessionsKnown'
  BY DEF SessionsKnown
<1>3. RequestsKnown'
  BY DEF RequestsKnown, SessionsKnown, Attached, OnTable, AtConn
<1>4. RepliesKnown'
  BY DEF RepliesKnown, OnTable, AtConn, RequestsKnown, TableKept
<1>5. TableKept'
  BY DEF TableKept, OnTable, AtConn, RequestsKnown, SessionsKnown
<1>6. OpenIffNamed'
  BY DEF OpenIffNamed, Attached, SessionsKnown
<1>7. LatecomersKnown'
  BY DEF LatecomersKnown, SessionsKnown, OpenIffNamed
<1>8. WritersHold'
  BY DEF WritersHold, OnTable, AtConn, RequestsKnown
<1>9. WrittenAreServed'
  BY DEF WrittenAreServed, OnTable, AtConn, Attached, RequestsKnown, TableKept, OpenIffNamed, LatecomersKnown, SessionsKnown
<1>10. PanicOnlyAtTheEnd'
  BY DEF PanicOnlyAtTheEnd, RepliesKnown, TableKept, SessionsKnown, OnTable
<1>11. LatestAgentStays'
  BY DEF LatestAgentStays, SessionsKnown, OpenIffNamed, Attached
<1>12. MutexIsReturned'
  BY DEF MutexIsReturned, WritersHold, RequestsKnown, OnTable, AtConn
<1>13. Capped'
  BY DEF Capped
<1>. QED
  BY <1>1, <1>2, <1>3, <1>4, <1>5, <1>6, <1>7, <1>8, <1>9, <1>10, <1>11, <1>12, <1>13

LEMMA ArriveStep ==
  ASSUME Ind, NEW r \in Requests, (\E s \in Sessions : Visit(r, s)) \/ Scan(r) \/ Recheck(r) \/ FindConn(r) \/ Register(r)
  PROVE  Ind'
<1>. USE NamesAssumption, TimesAssumption
     DEF Visit, Scan, Recheck, FindConn, Register, Over, Go,
         sessionVars, reqVars, agentVars, netVars, history, Ind, Known, TypeOK
<1>1. TypeOK'
  <2>1. CASE (\E s \in Sessions : Visit(r, s)) \/ Scan(r)
    BY <2>1 DEF ReqStages
  <2>2. CASE Recheck(r) \/ Register(r)
    BY <2>2 DEF ReqStages
  <2>3. CASE FindConn(r)
    BY <2>3 DEF ReqStages, RequestsKnown
  <2>. QED
    BY <2>1, <2>2, <2>3
<1>2. SessionsKnown'
  BY DEF SessionsKnown
<1>3. RequestsKnown'
  <2>1. CASE (\E s \in Sessions : Visit(r, s)) \/ Scan(r)
    BY <2>1 DEF RequestsKnown, OnTable, AtConn
  <2>2. CASE Recheck(r) \/ Register(r)
    BY <2>2 DEF RequestsKnown, OnTable, AtConn
  <2>3. CASE FindConn(r)
    BY <2>3 DEF RequestsKnown, OpenIffNamed, OnTable, AtConn
  <2>. QED
    BY <2>1, <2>2, <2>3
<1>4. RepliesKnown'
  BY DEF RepliesKnown, OnTable, AtConn, RequestsKnown, TableKept
<1>5. TableKept'
  <2>1. CASE (\E s \in Sessions : Visit(r, s)) \/ Scan(r)
    BY <2>1 DEF TableKept, OnTable
  <2>2. CASE Recheck(r) \/ FindConn(r)
    BY <2>2 DEF TableKept, OnTable
  <2>3. CASE Register(r)
    BY <2>3 DEF TableKept, OnTable
  <2>. QED
    BY <2>1, <2>2, <2>3
<1>6. OpenIffNamed'
  BY DEF OpenIffNamed, Attached, SessionsKnown
<1>7. LatecomersKnown'
  BY DEF LatecomersKnown, SessionsKnown, OpenIffNamed
<1>8. WritersHold'
  BY DEF WritersHold, OnTable, AtConn, RequestsKnown
<1>9. WrittenAreServed'
  BY DEF WrittenAreServed, OnTable, AtConn, Attached, RequestsKnown, TableKept, OpenIffNamed, LatecomersKnown, SessionsKnown
<1>10. PanicOnlyAtTheEnd'
  BY DEF PanicOnlyAtTheEnd, RepliesKnown, TableKept, SessionsKnown, OnTable
<1>11. LatestAgentStays'
  BY DEF LatestAgentStays, SessionsKnown, OpenIffNamed, Attached
<1>12. MutexIsReturned'
  BY DEF MutexIsReturned, WritersHold, RequestsKnown, OnTable, AtConn
<1>13. Capped'
  BY DEF Capped
<1>. QED
  BY <1>1, <1>2, <1>3, <1>4, <1>5, <1>6, <1>7, <1>8, <1>9, <1>10, <1>11, <1>12, <1>13

LEMMA WriteStep ==
  ASSUME Ind, NEW r \in Requests, BeginWrite(r) \/ Write(r)
  PROVE  Ind'
<1>. USE NamesAssumption, TimesAssumption
     DEF BeginWrite, Write, EndWrite, FailWrite, Over, Go, Free,
         sessionVars, reqVars, agentVars, netVars, history, Ind, Known, TypeOK
<1>1. TypeOK'
  <2>1. CASE BeginWrite(r) \/ FailWrite(r)
    BY <2>1 DEF ReqStages
  <2>2. CASE EndWrite(r)
    BY <2>2 DEF ReqStages
  <2>. QED
    BY <2>1, <2>2
<1>2. SessionsKnown'
  BY DEF SessionsKnown
<1>3. RequestsKnown'
  BY DEF RequestsKnown, SessionsKnown, Attached, OnTable, AtConn
<1>4. RepliesKnown'
  BY DEF RepliesKnown, OnTable, AtConn, RequestsKnown, TableKept
<1>5. TableKept'
  BY DEF TableKept, OnTable, AtConn, RequestsKnown, SessionsKnown
<1>6. OpenIffNamed'
  BY DEF OpenIffNamed, Attached, SessionsKnown
<1>7. LatecomersKnown'
  BY DEF LatecomersKnown, SessionsKnown, OpenIffNamed
<1>8. WritersHold'
  BY DEF WritersHold, OnTable, AtConn, RequestsKnown
<1>9. WrittenAreServed'
  BY DEF WrittenAreServed, OnTable, AtConn, Attached, RequestsKnown, TableKept, OpenIffNamed, LatecomersKnown, SessionsKnown
<1>10. PanicOnlyAtTheEnd'
  BY DEF PanicOnlyAtTheEnd, RepliesKnown, TableKept, SessionsKnown, OnTable
<1>11. LatestAgentStays'
  BY DEF LatestAgentStays, SessionsKnown, OpenIffNamed, Attached
<1>12. MutexIsReturned'
  BY DEF MutexIsReturned, WritersHold, RequestsKnown, OnTable, AtConn
<1>13. Capped'
  BY DEF Capped
<1>. QED
  BY <1>1, <1>2, <1>3, <1>4, <1>5, <1>6, <1>7, <1>8, <1>9, <1>10, <1>11, <1>12, <1>13

LEMMA EndStep ==
  ASSUME Ind, NEW r \in Requests, WriteToClosed(r) \/ PanicAtWrite(r) \/ Receive(r) \/ GiveUp(r)
  PROVE  Ind'
<1>. USE NamesAssumption, TimesAssumption
     DEF WriteToClosed, PanicAtWrite, Receive, GiveUp, Over, Free,
         sessionVars, reqVars, agentVars, netVars, history, Ind, Known, TypeOK
<1>1. TypeOK'
  BY DEF Lives, ReqStages, AgentStages
<1>2. SessionsKnown'
  BY DEF SessionsKnown
<1>3. RequestsKnown'
  BY DEF RequestsKnown, SessionsKnown, Attached, OnTable, AtConn
<1>4. RepliesKnown'
  BY DEF RepliesKnown, OnTable, AtConn, RequestsKnown, TableKept
<1>5. TableKept'
  BY DEF TableKept, OnTable, AtConn, RequestsKnown, SessionsKnown
<1>6. OpenIffNamed'
  BY DEF OpenIffNamed, Attached, SessionsKnown
<1>7. LatecomersKnown'
  BY DEF LatecomersKnown, SessionsKnown, OpenIffNamed
<1>8. WritersHold'
  BY DEF WritersHold, OnTable, AtConn, RequestsKnown
<1>9. WrittenAreServed'
  BY DEF WrittenAreServed, OnTable, AtConn, Attached, RequestsKnown, TableKept, OpenIffNamed, LatecomersKnown, SessionsKnown
<1>10. PanicOnlyAtTheEnd'
  BY DEF PanicOnlyAtTheEnd, RepliesKnown, TableKept, SessionsKnown, OnTable
<1>11. LatestAgentStays'
  BY DEF LatestAgentStays, SessionsKnown, OpenIffNamed, Attached
<1>12. MutexIsReturned'
  BY DEF MutexIsReturned, WritersHold, RequestsKnown, OnTable, AtConn
<1>13. Capped'
  BY DEF Capped
<1>. QED
  BY <1>1, <1>2, <1>3, <1>4, <1>5, <1>6, <1>7, <1>8, <1>9, <1>10, <1>11, <1>12, <1>13

LEMMA DialStep ==
  ASSUME Ind, NEW c \in Conns, (\E s \in Sessions : Dial(c, s))
  PROVE  Ind'
<1>. USE NamesAssumption, TimesAssumption
     DEF Dial,
         sessionVars, reqVars, agentVars, netVars, history, Ind, Known, TypeOK
<1>1. TypeOK'
  BY DEF Lives, ReqStages, AgentStages
<1>2. SessionsKnown'
  BY DEF SessionsKnown
<1>3. RequestsKnown'
  BY DEF RequestsKnown, SessionsKnown, Attached, OnTable, AtConn
<1>4. RepliesKnown'
  BY DEF RepliesKnown, OnTable, AtConn, RequestsKnown, TableKept
<1>5. TableKept'
  BY DEF TableKept, OnTable, AtConn, RequestsKnown, SessionsKnown
<1>6. OpenIffNamed'
  BY DEF OpenIffNamed, Attached, SessionsKnown
<1>7. LatecomersKnown'
  BY DEF LatecomersKnown, SessionsKnown, OpenIffNamed
<1>8. WritersHold'
  BY DEF WritersHold, OnTable, AtConn, RequestsKnown
<1>9. WrittenAreServed'
  BY DEF WrittenAreServed, OnTable, AtConn, Attached, RequestsKnown, TableKept, OpenIffNamed, LatecomersKnown, SessionsKnown
<1>10. PanicOnlyAtTheEnd'
  BY DEF PanicOnlyAtTheEnd, RepliesKnown, TableKept, SessionsKnown, OnTable
<1>11. LatestAgentStays'
  BY DEF LatestAgentStays, SessionsKnown, OpenIffNamed, Attached
<1>12. MutexIsReturned'
  BY DEF MutexIsReturned, WritersHold, RequestsKnown, OnTable, AtConn
<1>13. Capped'
  BY DEF Capped
<1>. QED
  BY <1>1, <1>2, <1>3, <1>4, <1>5, <1>6, <1>7, <1>8, <1>9, <1>10, <1>11, <1>12, <1>13

LEMMA AttachStep ==
  ASSUME Ind, NEW c \in Conns, Attach(c)
  PROVE  Ind'
<1>. USE NamesAssumption, TimesAssumption
     DEF Attach, Free,
         sessionVars, reqVars, agentVars, netVars, history, Ind, Known, TypeOK
<1>1. TypeOK'
  BY DEF Lives, ReqStages, AgentStages
<1>2. SessionsKnown'
  BY DEF SessionsKnown
<1>3. RequestsKnown'
  BY DEF RequestsKnown, SessionsKnown, Attached, OnTable, AtConn
<1>4. RepliesKnown'
  BY DEF RepliesKnown, OnTable, AtConn, RequestsKnown, TableKept
<1>5. TableKept'
  BY DEF TableKept, OnTable, AtConn, RequestsKnown, SessionsKnown
<1>6. OpenIffNamed'
  BY DEF OpenIffNamed, Attached, SessionsKnown
<1>7. LatecomersKnown'
  BY DEF LatecomersKnown, SessionsKnown, OpenIffNamed
<1>8. WritersHold'
  BY DEF WritersHold, OnTable, AtConn, RequestsKnown
<1>9. WrittenAreServed'
  BY DEF WrittenAreServed, OnTable, AtConn, Attached, RequestsKnown, TableKept, OpenIffNamed, LatecomersKnown, SessionsKnown
<1>10. PanicOnlyAtTheEnd'
  BY DEF PanicOnlyAtTheEnd, RepliesKnown, TableKept, SessionsKnown, OnTable
<1>11. LatestAgentStays'
  BY DEF LatestAgentStays, SessionsKnown, OpenIffNamed, Attached
<1>12. MutexIsReturned'
  BY DEF MutexIsReturned, WritersHold, RequestsKnown, OnTable, AtConn
<1>13. Capped'
  BY DEF Capped
<1>. QED
  BY <1>1, <1>2, <1>3, <1>4, <1>5, <1>6, <1>7, <1>8, <1>9, <1>10, <1>11, <1>12, <1>13

LEMMA CleanupStep ==
  ASSUME Ind, NEW c \in Conns, Cleanup(c)
  PROVE  Ind'
<1>. USE NamesAssumption, TimesAssumption
     DEF Cleanup, Detached, Free,
         sessionVars, reqVars, agentVars, netVars, history, Ind, Known, TypeOK
<1>1. TypeOK'
  BY DEF Lives, ReqStages, AgentStages
<1>2. SessionsKnown'
  BY DEF SessionsKnown
<1>3. RequestsKnown'
  BY DEF RequestsKnown, SessionsKnown, Attached, OnTable, AtConn
<1>4. RepliesKnown'
  BY DEF RepliesKnown, OnTable, AtConn, RequestsKnown, TableKept
<1>5. TableKept'
  BY DEF TableKept, OnTable, AtConn, RequestsKnown, SessionsKnown
<1>6. OpenIffNamed'
  BY DEF OpenIffNamed, Attached, SessionsKnown
<1>7. LatecomersKnown'
  BY DEF LatecomersKnown, SessionsKnown, OpenIffNamed
<1>8. WritersHold'
  BY DEF WritersHold, OnTable, AtConn, RequestsKnown
<1>9. WrittenAreServed'
  BY DEF WrittenAreServed, OnTable, AtConn, Attached, RequestsKnown, TableKept, OpenIffNamed, LatecomersKnown, SessionsKnown
<1>10. PanicOnlyAtTheEnd'
  BY DEF PanicOnlyAtTheEnd, RepliesKnown, TableKept, SessionsKnown, OnTable
<1>11. LatestAgentStays'
  BY DEF LatestAgentStays, SessionsKnown, OpenIffNamed, Attached
<1>12. MutexIsReturned'
  BY DEF MutexIsReturned, WritersHold, RequestsKnown, OnTable, AtConn
<1>13. Capped'
  BY DEF Capped
<1>. QED
  BY <1>1, <1>2, <1>3, <1>4, <1>5, <1>6, <1>7, <1>8, <1>9, <1>10, <1>11, <1>12, <1>13

LEMMA GreetStep ==
  ASSUME Ind, NEW c \in Conns, BeginGreeting(c) \/ EndGreeting(c)
  PROVE  Ind'
<1>. USE NamesAssumption, TimesAssumption
     DEF BeginGreeting, EndGreeting,
         sessionVars, reqVars, agentVars, netVars, history, Ind, Known, TypeOK
<1>1. TypeOK'
  BY DEF Lives, ReqStages, AgentStages
<1>2. SessionsKnown'
  BY DEF SessionsKnown
<1>3. RequestsKnown'
  BY DEF RequestsKnown, SessionsKnown, Attached, OnTable, AtConn
<1>4. RepliesKnown'
  BY DEF RepliesKnown, OnTable, AtConn, RequestsKnown, TableKept
<1>5. TableKept'
  BY DEF TableKept, OnTable, AtConn, RequestsKnown, SessionsKnown
<1>6. OpenIffNamed'
  BY DEF OpenIffNamed, Attached, SessionsKnown
<1>7. LatecomersKnown'
  BY DEF LatecomersKnown, SessionsKnown, OpenIffNamed
<1>8. WritersHold'
  BY DEF WritersHold, OnTable, AtConn, RequestsKnown
<1>9. WrittenAreServed'
  BY DEF WrittenAreServed, OnTable, AtConn, Attached, RequestsKnown, TableKept, OpenIffNamed, LatecomersKnown, SessionsKnown
<1>10. PanicOnlyAtTheEnd'
  BY DEF PanicOnlyAtTheEnd, RepliesKnown, TableKept, SessionsKnown, OnTable
<1>11. LatestAgentStays'
  BY DEF LatestAgentStays, SessionsKnown, OpenIffNamed, Attached
<1>12. MutexIsReturned'
  BY DEF MutexIsReturned, WritersHold, RequestsKnown, OnTable, AtConn
<1>13. Capped'
  BY DEF Capped
<1>. QED
  BY <1>1, <1>2, <1>3, <1>4, <1>5, <1>6, <1>7, <1>8, <1>9, <1>10, <1>11, <1>12, <1>13

LEMMA AnswerStep ==
  ASSUME Ind, NEW c \in Conns, (\E r \in Requests : ReadAnswer(c, r)) \/ Deliver(c)
  PROVE  Ind'
<1>. USE NamesAssumption, TimesAssumption
     DEF ReadAnswer, Deliver,
         sessionVars, reqVars, agentVars, netVars, history, Ind, Known, TypeOK
<1>1. TypeOK'
  BY DEF Lives, ReqStages, AgentStages
<1>2. SessionsKnown'
  BY DEF SessionsKnown
<1>3. RequestsKnown'
  BY DEF RequestsKnown, SessionsKnown, Attached, OnTable, AtConn
<1>4. RepliesKnown'
  BY DEF RepliesKnown, OnTable, AtConn, RequestsKnown, TableKept
<1>5. TableKept'
  BY DEF RepliesKnown, TableKept, OnTable
<1>6. OpenIffNamed'
  BY DEF OpenIffNamed, Attached, SessionsKnown
<1>7. LatecomersKnown'
  BY DEF LatecomersKnown, SessionsKnown, OpenIffNamed
<1>8. WritersHold'
  BY DEF WritersHold, OnTable, AtConn, RequestsKnown
<1>9. WrittenAreServed'
  BY DEF WrittenAreServed, OnTable, AtConn, Attached, RequestsKnown, TableKept, OpenIffNamed, LatecomersKnown, SessionsKnown
<1>10. PanicOnlyAtTheEnd'
  BY DEF PanicOnlyAtTheEnd, RepliesKnown, TableKept, SessionsKnown, OnTable
<1>11. LatestAgentStays'
  BY DEF LatestAgentStays, SessionsKnown, OpenIffNamed, Attached
<1>12. MutexIsReturned'
  BY DEF MutexIsReturned, WritersHold, RequestsKnown, OnTable, AtConn
<1>13. Capped'
  BY DEF Capped
<1>. QED
  BY <1>1, <1>2, <1>3, <1>4, <1>5, <1>6, <1>7, <1>8, <1>9, <1>10, <1>11, <1>12, <1>13

LEMMA AgentStep ==
  ASSUME Ind, NEW c \in Conns, AgentGone(c) \/ ReadFails(c)
  PROVE  Ind'
<1>. USE NamesAssumption, TimesAssumption
     DEF AgentGone, ReadFails,
         sessionVars, reqVars, agentVars, netVars, history, Ind, Known, TypeOK
<1>1. TypeOK'
  BY DEF Lives, ReqStages, AgentStages
<1>2. SessionsKnown'
  BY DEF SessionsKnown
<1>3. RequestsKnown'
  BY DEF RequestsKnown, SessionsKnown, Attached, OnTable, AtConn
<1>4. RepliesKnown'
  BY DEF RepliesKnown, OnTable, AtConn, RequestsKnown, TableKept
<1>5. TableKept'
  BY DEF TableKept, OnTable, AtConn, RequestsKnown, SessionsKnown
<1>6. OpenIffNamed'
  BY DEF OpenIffNamed, Attached, SessionsKnown
<1>7. LatecomersKnown'
  BY DEF LatecomersKnown, SessionsKnown, OpenIffNamed
<1>8. WritersHold'
  BY DEF WritersHold, OnTable, AtConn, RequestsKnown
<1>9. WrittenAreServed'
  BY DEF WrittenAreServed, OnTable, AtConn, Attached, RequestsKnown, TableKept, OpenIffNamed, LatecomersKnown, SessionsKnown
<1>10. PanicOnlyAtTheEnd'
  BY DEF PanicOnlyAtTheEnd, RepliesKnown, TableKept, SessionsKnown, OnTable
<1>11. LatestAgentStays'
  BY DEF LatestAgentStays, SessionsKnown, OpenIffNamed, Attached
<1>12. MutexIsReturned'
  BY DEF MutexIsReturned, WritersHold, RequestsKnown, OnTable, AtConn
<1>13. Capped'
  BY DEF Capped
<1>. QED
  BY <1>1, <1>2, <1>3, <1>4, <1>5, <1>6, <1>7, <1>8, <1>9, <1>10, <1>11, <1>12, <1>13

\* The fallback proxy chooses the only session that is connected.
LEMMA ChooseStep ==
  ASSUME Ind, NEW r \in Requests, Choose(r)
  PROVE  Ind'
<1>. DEFINE connected == {s \in Candidates : conn[s] # None}
<1>1. CASE Cardinality(connected) = 1
  <2>1. connected # {}
    BY <1>1, FS_EmptySet
  <2>2. PICK s \in Sessions : session' = [session EXCEPT ![r] = s]
    <3>1. (CHOOSE s \in connected : TRUE) \in Sessions
      BY <2>1 DEF Candidates, Ind, Known, TypeOK
    <3>. QED
      BY <1>1, <3>1 DEF Choose
  <2>3. /\ req[r] = "scan" /\ req' = [req EXCEPT ![r] = "chosen"] /\ scanning' = scanning \ {r}
        /\ UNCHANGED <<now, sessionVars, conn, connMu, via, chan, pending, received, agentVars, netVars, history>>
    BY <1>1 DEF Choose, Go
  <2>. USE NamesAssumption DEF sessionVars, agentVars, netVars, history, Ind, Known, TypeOK
  <2>4. Known'
    BY <2>2, <2>3 DEF ReqStages, SessionsKnown, RequestsKnown, RepliesKnown, TableKept, OnTable, AtConn
  <2>5. TableKept' /\ OpenIffNamed' /\ LatecomersKnown' /\ WritersHold'
    BY <2>2, <2>3 DEF TableKept, OpenIffNamed, LatecomersKnown, WritersHold, OnTable
  <2>6. WrittenAreServed' /\ PanicOnlyAtTheEnd' /\ LatestAgentStays' /\ MutexIsReturned' /\ Capped'
    BY <2>2, <2>3 DEF WrittenAreServed, PanicOnlyAtTheEnd, LatestAgentStays, MutexIsReturned, Capped
  <2>. QED
    BY <2>4, <2>5, <2>6
<1>2. CASE Cardinality(connected) # 1
  <2>1. /\ req[r] = "scan" /\ Over(r) /\ scanning' = scanning \ {r}
        /\ UNCHANGED <<now, sessionVars, conn, connMu, agentVars, netVars, history>>
    BY <1>2 DEF Choose
  <2>. USE NamesAssumption DEF Over, sessionVars, agentVars, netVars, history, Ind, Known, TypeOK
  <2>2. Known'
    BY <2>1 DEF ReqStages, SessionsKnown, RequestsKnown, RepliesKnown, TableKept, OnTable, AtConn
  <2>3. TableKept' /\ OpenIffNamed' /\ LatecomersKnown' /\ WritersHold'
    BY <2>1 DEF TableKept, OpenIffNamed, LatecomersKnown, WritersHold, OnTable
  <2>4. WrittenAreServed' /\ PanicOnlyAtTheEnd' /\ LatestAgentStays' /\ MutexIsReturned' /\ Capped'
    BY <2>1 DEF WrittenAreServed, PanicOnlyAtTheEnd, LatestAgentStays, MutexIsReturned, Capped
  <2>. QED
    BY <2>2, <2>3, <2>4
<1>. QED
  BY <1>1, <1>2

LEMMA NextInd == Ind /\ [Next]_vars => Ind'
<1>1. SUFFICES ASSUME Ind, [Next]_vars PROVE Ind'
  OBVIOUS
<1>2. CASE UNCHANGED vars
  BY <1>1, <1>2 DEF vars, sessionVars, reqVars, agentVars, netVars, history, Ind, Known, TypeOK,
    SessionsKnown, RequestsKnown, RepliesKnown, TableKept, OpenIffNamed, LatecomersKnown, WritersHold,
    WrittenAreServed, PanicOnlyAtTheEnd, LatestAgentStays, MutexIsReturned, Capped
<1>3. CASE Tick \/ Sweep
  BY <1>1, <1>3, OwnerStep DEF Sweep
<1>4. ASSUME NEW s \in Sessions,
             \/ CreateSession(s) \/ ExtendSession(s) \/ CloseSession(s) \/ Terminate(s)
             \/ \E r \in Requests : Visit(r, s)
             \/ \E c \in Conns : Dial(c, s)
      PROVE  Ind'
  BY <1>1, <1>4, OwnerStep, CloseConnStep, DrainStep, ArriveStep, DialStep DEF Terminate
<1>5. ASSUME NEW r \in Requests, Scan(r) \/ Serve(r) \/ Write(r)
      PROVE  Ind'
  BY <1>1, <1>5, ArriveStep, ChooseStep, WriteStep, EndStep DEF Serve
<1>6. ASSUME NEW c \in Conns, Listen(c) \/ AgentGone(c) \/ \E r \in Requests : ReadAnswer(c, r)
      PROVE  Ind'
  BY <1>1, <1>6, AttachStep, CleanupStep, GreetStep, AnswerStep, AgentStep DEF Listen
<1>. QED
  BY <1>1, <1>2, <1>3, <1>4, <1>5, <1>6 DEF Next

LEMMA Invariance == Spec => []Ind
  BY InitInd, NextInd, PTL DEF Spec

\* Every variable keeps its type.
THEOREM TypeCorrect == Spec => []TypeOK
<1>1. Ind => TypeOK
  BY DEF Ind, Known
<1>. QED
  BY <1>1, Invariance, PTL

\* When terminate is through, every request that still waits has an answer or a
\* closed channel, but for those of a latecomer (tunnel.go:204).
THEOREM NobodyIsStranded == Spec => []NobodyStranded
<1>1. Ind => NobodyStranded
  BY DEF Ind, WrittenAreServed, NobodyStranded
<1>. QED
  BY <1>1, Invariance, PTL

\* The panic of a delivery never takes the agent from a live session
\* (tunnel.go:334).
THEOREM PanicsAtTheEnd == Spec => []PanicOnlyAtTheEnd
<1>1. Ind => PanicOnlyAtTheEnd
  BY DEF Ind
<1>. QED
  BY <1>1, Invariance, PTL

\* However many connections of an agent overlap, the session keeps the one that
\* attached last until that one's own handler ends (tunnel.go:312).
THEOREM LatestIsAttached == Spec => []LatestAgentStays
<1>1. Ind => LatestAgentStays
  BY DEF Ind
<1>. QED
  BY <1>1, Invariance, PTL

\* connMu is given back on every path, unless the library panicked
\* (tunnel.go:302, 511-513).
THEOREM MutexComesBack == Spec => []MutexIsReturned
<1>1. Ind => MutexIsReturned
  BY DEF Ind
<1>. QED
  BY <1>1, Invariance, PTL

\* Only latecomers are attached to a session that has ended (tunnel.go:296).
THEOREM LatecomersOnly == Spec => []OnlyLatecomersStay
<1>1. Ind => OnlyLatecomersStay
  BY DEF Ind, LatecomersKnown, OnlyLatecomersStay
<1>. QED
  BY <1>1, Invariance, PTL

\* No socket is lost and none is closed too early: a connection that has been
\* attached is open exactly as long as its session names it (tunnel.go:204-211,
\* 292-297, 312-316).
THEOREM SocketsAreClosed == Spec => []NoSocketIsLost
<1>1. Ind => NoSocketIsLost
  BY DEF Ind, Known, TypeOK, AgentStages, Attached, OpenIffNamed, NoSocketIsLost
<1>. QED
  BY <1>1, Invariance, PTL

\* An extension never passes the cap, and it ends a session that had time left
\* only when the minutes asked for overflow a Duration, whatever lifetimes and
\* extensions are asked for, in whatever order (tunnel.go:169-173).
THEOREM ExtensionsAreBounded == Spec => ExtensionsStayInBounds
<1>. DEFINE Wrapped(s) == \E d \in Extensions : Signed(d) < 0 /\ expiresAt'[s] = now + Signed(d)
            InBounds(s) == /\ expiresAt'[s] <= createdAt'[s] + MaxLife
                           /\ ~Expired(s) /\ now > expiresAt'[s] => Wrapped(s)
<1>1. ASSUME Ind, NEW s \in Sessions, CreateSession(s), NEW t \in Sessions, expiresAt'[t] # expiresAt[t]
      PROVE  InBounds(t)
  <2>1. PICK d \in Durations : expiresAt' = [expiresAt EXCEPT ![s] = now + Smaller(d, MaxDuration)]
    BY <1>1 DEF CreateSession
  <2>2. t = s /\ expiresAt'[t] = now + Smaller(d, MaxDuration) /\ createdAt'[t] = now
    BY <1>1, <2>1 DEF CreateSession, Ind, Known, TypeOK
  <2>3. Smaller(d, MaxDuration) \in Nat /\ Smaller(d, MaxDuration) <= MaxLife
    BY TimesAssumption DEF Smaller
  <2>. QED
    BY <1>1, <2>2, <2>3, TimesAssumption DEF Ind, Known, TypeOK
<1>2. ASSUME Ind, NEW s \in Sessions, ExtendSession(s), NEW t \in Sessions, expiresAt'[t] # expiresAt[t]
      PROVE  InBounds(t)
  <2>1. PICK d \in Extensions : expiresAt' = [expiresAt EXCEPT ![s] = NewExpiry(s, d)]
    BY <1>2 DEF ExtendSession
  <2>2. /\ t = s /\ expiresAt'[t] = Smaller(now + Signed(d), createdAt[t] + MaxLife)
        /\ createdAt'[t] = createdAt[t]
    BY <1>2, <2>1 DEF ExtendSession, NewExpiry, Ind, Known, TypeOK
  <2>3. expiresAt[t] <= createdAt[t] + MaxLife /\ Signed(d) \in Int
    BY <1>2, SignedIsInt DEF Ind, Capped
  <2>4. expiresAt'[t] <= createdAt'[t] + MaxLife
    <3>1. createdAt[t] + MaxLife \in Int /\ now + Signed(d) \in Int
      BY <1>2, <2>3, TimesAssumption DEF Ind, Known, TypeOK
    <3>. QED
      BY <2>2, <3>1 DEF Smaller
  <2>5. ASSUME ~Expired(t), now > expiresAt'[t]
        PROVE  Signed(d) < 0 /\ expiresAt'[t] = now + Signed(d)
    BY <1>2, <2>2, <2>3, <2>5, TimesAssumption DEF Smaller, Expired, Ind, Known, TypeOK
  <2>. QED
    BY <2>4, <2>5
<1>3. ASSUME [Next]_vars
      PROVE  \/ \E s \in Sessions : CreateSession(s) \/ ExtendSession(s)
             \/ UNCHANGED expiresAt
  BY <1>3 DEF Next, vars, sessionVars, Tick, Sweep, SweepExpired, SweepNext, CloseSession,
    Terminate, CloseConn, DrainPending, Visit, Dial, Scan, Serve, Choose, Recheck, FindConn, Register,
    WriteToClosed, BeginWrite, PanicAtWrite, Receive, GiveUp, Write, EndWrite, FailWrite, Listen, Attach,
    BeginGreeting, EndGreeting, Deliver, ReadFails, Cleanup, AgentGone, ReadAnswer
<1>4. Ind /\ [Next]_vars => [\A s \in Sessions : expiresAt'[s] # expiresAt[s] => InBounds(s)]_vars
  BY <1>1, <1>2, <1>3
<1>. QED
  BY <1>4, Invariance, PTL DEF Spec, ExtensionsStayInBounds
=============================================================================
