-------------------------------- MODULE Tunnel --------------------------------
(***************************************************************************)
(* Live preview tunnels: a developer's agent attaches a WebSocket to a     *)
(* session, visitors' requests are forwarded over it and wait for the      *)
(* answer, the owner extends or stops the session, a sweeper ends it when  *)
(* it has expired.                                                         *)
(*                                                                         *)
(* A critical section without I/O is one step.  What is held across steps  *)
(* is connMu of a session, during the write of a request to the WebSocket, *)
(* and the read lock of the manager, while the fallback proxy looks for a  *)
(* session and waits for connMu.  The WebSocket library (external) panics  *)
(* when a write begins while another one on the same connection is going   *)
(* on; the server recovers the panic of a handler, whose deferred calls    *)
(* still run.                                                              *)
(***************************************************************************)
EXTENDS Integers, FiniteSets

CONSTANTS
  Sessions,    \* the sessions that may be created
  Requests,    \* visitors' requests, each with its requestId
  Conns,       \* the WebSocket connections agents may open
  None,        \* no session, no connection, nobody
  Durations,   \* the lifetimes asked for at creation, in ticks
  Extensions,  \* the additionalMinutes asked for, in ticks
  MaxDuration, \* 60 minutes
  MaxLife,     \* 120 minutes
  Half,        \* half of the 2^64 nanoseconds that a Duration tells apart, in ticks
  MaxTime      \* bound: the clock stops here

ASSUME NamesAssumption ==
  None \notin Sessions \cup Requests \cup Conns

ASSUME TimesAssumption ==
  /\ Durations \subseteq Nat \ {0}
  /\ Extensions \subseteq Nat \ {0}
  /\ MaxDuration \in Nat /\ MaxLife \in Nat /\ Half \in Nat /\ MaxTime \in Nat
  /\ MaxDuration <= MaxLife /\ MaxLife < Half

VARIABLES
  now,       \* time.Now()
  listed,    \* TunnelManager.sessions
  active,    \* TunnelSession.Active
  createdAt, \* TunnelSession.CreatedAt
  expiresAt, \* TunnelSession.ExpiresAt
  conn,      \* TunnelSession.conn
  connMu,    \* the request that holds TunnelSession.connMu
  life,      \* of a session: "new", "up", then its way through terminate
  toClose,   \* what the sweeper still has to terminate
  scanning,  \* requests that hold the read lock of the manager
  req,       \* what the handler of a request does next
  session,   \* the session it is for
  via,       \* the connection it found there
  chan,      \* its respChan: "empty", "answer", "closed" or "both"
  pending,   \* TunnelSession.pendingReqs, of all sessions
  agent,     \* what the handler of a connection does next
  serves,    \* the session it is for
  reply,     \* the request whose answer it is delivering
  open,      \* connections the server has not closed
  peers,     \* connections whose agent is still there
  writing,   \* connections with a write going on
  received,  \* requests that an agent of their session has received
  latest,    \* history: the connection attached last
  late,      \* history: connections attached after terminate took connMu
  stuck      \* history: handlers that a panic ended before their cleanup

sessionVars == <<listed, active, createdAt, expiresAt, life, toClose>>
reqVars     == <<req, session, via, chan, pending, received>>
agentVars   == <<agent, serves, reply>>
netVars     == <<open, peers, writing>>
history     == <<latest, late, stuck>>
vars == <<now, sessionVars, conn, connMu, scanning, reqVars, agentVars, netVars, history>>

Lives     == {"new", "up", "ending", "close", "drain", "done"}
ReqStages == {"new", "scan", "chosen", "found", "holding", "registered", "writing", "waiting", "over"}
AgentStages == {"new", "checked", "attached", "greeting", "reading", "deliver", "leaving", "over"}

TypeOK ==
  /\ now \in Nat
  /\ listed \subseteq Sessions /\ toClose \subseteq Sessions
  /\ active \in [Sessions -> BOOLEAN]
  /\ createdAt \in [Sessions -> Nat] /\ expiresAt \in [Sessions -> Int]
  /\ conn \in [Sessions -> Conns \cup {None}]
  /\ connMu \in [Sessions -> Requests \cup {None}]
  /\ life \in [Sessions -> Lives]
  /\ scanning \subseteq Requests /\ pending \subseteq Requests
  /\ req \in [Requests -> ReqStages]
  /\ session \in [Requests -> Sessions \cup {None}]
  /\ via \in [Requests -> Conns \cup {None}]
  /\ chan \in [Requests -> {"empty", "answer", "closed", "both"}]
  /\ agent \in [Conns -> AgentStages]
  /\ serves \in [Conns -> Sessions \cup {None}]
  /\ reply \in [Conns -> Requests \cup {None}]
  /\ open \subseteq Conns /\ peers \subseteq Conns /\ writing \subseteq Conns
  /\ received \subseteq Requests
  /\ latest \in [Sessions -> Conns \cup {None}]
  /\ late \subseteq Conns
  /\ stuck \subseteq Requests \cup Conns

Init ==
  /\ now = 0
  /\ listed = {} /\ toClose = {}
  /\ active = [s \in Sessions |-> FALSE]
  /\ createdAt = [s \in Sessions |-> 0] /\ expiresAt = [s \in Sessions |-> 0]
  /\ conn = [s \in Sessions |-> None] /\ connMu = [s \in Sessions |-> None]
  /\ life = [s \in Sessions |-> "new"]
  /\ scanning = {} /\ pending = {}
  /\ req = [r \in Requests |-> "new"]
  /\ session = [r \in Requests |-> None] /\ via = [r \in Requests |-> None]
  /\ chan = [r \in Requests |-> "empty"]
  /\ agent = [c \in Conns |-> "new"]
  /\ serves = [c \in Conns |-> None] /\ reply = [c \in Conns |-> None]
  /\ open = {} /\ peers = {} /\ writing = {}
  /\ received = {}
  /\ latest = [s \in Sessions |-> None] /\ late = {} /\ stuck = {}

Smaller(m, n) == IF m < n THEN m ELSE n

Tick == now < MaxTime /\ now' = now + 1
        /\ UNCHANGED <<sessionVars, conn, connMu, scanning, reqVars, agentVars, netVars, history>>

\* The write lock of the manager; the read lock is free but for these scans.
ManagerFree == scanning = {}
Free(s)     == connMu[s] = None
Expired(s)  == now > expiresAt[s]

\* Mutants: the bugs that the properties would catch.
MutClosed(ch) == ch  \* terminate takes the requests off the table without closing
MutOver(r) ==  \* the deferred cleanup closes the channel
  /\ req' = [req EXCEPT ![r] = "over"]
  /\ pending' = pending \ {r} /\ received' = received \ {r}
  /\ chan' = [chan EXCEPT ![r] = "closed"]
  /\ session' = [session EXCEPT ![r] = None]
  /\ via' = [via EXCEPT ![r] = None]
MutDetached(c, s) == None  \* cleanup without asking whose connection it is
MutNewExpiry(s, d) == Smaller(now, createdAt[s] + MaxLife) + d  \* the cap before the addition
MutAttach(c) ==  \* the connection that is replaced is not closed
  LET s == serves[c] IN
  /\ agent[c] = "checked" /\ Free(s)
  /\ conn' = [conn EXCEPT ![s] = c]
  /\ agent' = [agent EXCEPT ![c] = "attached"]
  /\ latest' = [latest EXCEPT ![s] = c]
  /\ late' = IF life[s] \in {"drain", "done"} THEN late \cup {c} ELSE late
  /\ UNCHANGED <<now, sessionVars, connMu, scanning, reqVars, serves, reply, netVars, stuck>>
MutCloseConn(s) ==  \* the socket is closed and not forgotten
  /\ life[s] = "close" /\ Free(s)
  /\ open' = open \ {conn[s]}
  /\ life' = [life EXCEPT ![s] = "drain"]
  /\ UNCHANGED <<now, listed, active, createdAt, expiresAt, conn, toClose, connMu, scanning, reqVars,
                 agentVars, peers, writing, history>>
MutSweepExpired ==  \* only what was marked inactive is swept
  LET gone == {s \in listed : ~active[s]} IN
  /\ ManagerFree
  /\ toClose = {} /\ gone # {}
  /\ toClose' = gone
  /\ listed' = listed \ gone
  /\ life' = [s \in Sessions |-> IF s \in gone THEN "ending" ELSE life[s]]
  /\ UNCHANGED <<now, active, createdAt, expiresAt, conn, connMu, scanning, reqVars,
                 agentVars, netVars, history>>
MutChoose(r) ==  \* the unlock deferred in the loop: kept until the handler returns
  /\ req[r] = "scan"
  /\ LET candidates == {s \in listed : active[s] /\ now < expiresAt[s]}
          connected == {s \in candidates : conn[s] # None} IN
       /\ \A s \in candidates : Free(s)
       /\ Cardinality(connected) = 1
       /\ connMu' = [s \in Sessions |-> IF s \in candidates THEN r ELSE connMu[s]]
       /\ session' = [session EXCEPT ![r] = CHOOSE s \in connected : TRUE]
  /\ req' = [req EXCEPT ![r] = "chosen"]
  /\ scanning' = scanning \ {r}
  /\ UNCHANGED <<now, sessionVars, conn, via, chan, pending, received, agentVars, netVars, history>>

-----------------------------------------------------------------------------
(* The owner *)

CreateSession(s) ==
  /\ ManagerFree
  /\ life[s] = "new"
  /\ now + MaxLife < MaxTime  \* bound: the clock gets past its end
  /\ life' = [life EXCEPT ![s] = "up"]
  /\ listed' = listed \cup {s}
  /\ active' = [active EXCEPT ![s] = TRUE]
  /\ createdAt' = [createdAt EXCEPT ![s] = now]
  /\ \E d \in Durations : expiresAt' = [expiresAt EXCEPT ![s] = now + Smaller(d, MaxDuration)]
  /\ UNCHANGED <<now, toClose, conn, connMu, scanning, reqVars, agentVars, netVars, history>>

\* time.Duration(additionalMinutes) * time.Minute, as a signed word: it wraps.
Signed(d) == ((d + Half) % (2 * Half)) - Half

\* The new expiry counts from now, capped at MaxLife from the creation.
NewExpiry(s, d) == Smaller(now + Signed(d), createdAt[s] + MaxLife)

ExtendSession(s) ==
  /\ ManagerFree
  /\ s \in listed
  /\ \E d \in Extensions : expiresAt' = [expiresAt EXCEPT ![s] = NewExpiry(s, d)]
  /\ active' = [active EXCEPT ![s] = TRUE]
  /\ UNCHANGED <<now, listed, createdAt, life, toClose, conn, connMu, scanning, reqVars,
                 agentVars, netVars, history>>

\* CloseSession up to its call of terminate.
CloseSession(s) ==
  /\ ManagerFree
  /\ s \in listed
  /\ active' = [active EXCEPT ![s] = FALSE]
  /\ listed' = listed \ {s}
  /\ life' = [life EXCEPT ![s] = "close"]
  /\ UNCHANGED <<now, createdAt, expiresAt, toClose, conn, connMu, scanning, reqVars,
                 agentVars, netVars, history>>

-----------------------------------------------------------------------------
(* The sweeper, and terminate *)

\* One tick of the sweeper: what has expired is taken off the list ...
SweepExpired ==
  LET gone == {s \in listed : Expired(s) \/ ~active[s]} IN
  /\ ManagerFree
  /\ toClose = {} /\ gone # {}
  /\ toClose' = gone
  /\ listed' = listed \ gone
  /\ life' = [s \in Sessions |-> IF s \in gone THEN "ending" ELSE life[s]]
  /\ UNCHANGED <<now, active, createdAt, expiresAt, conn, connMu, scanning, reqVars,
                 agentVars, netVars, history>>

\* ... and terminated, one session after the other.
SweepNext(s) ==
  /\ s \in toClose /\ life[s] = "ending"
  /\ \A t \in toClose : life[t] = "ending"
  /\ active' = [active EXCEPT ![s] = FALSE]
  /\ life' = [life EXCEPT ![s] = "close"]
  /\ UNCHANGED <<now, listed, createdAt, expiresAt, toClose, conn, connMu, scanning, reqVars,
                 agentVars, netVars, history>>

CloseConn(s) ==
  /\ life[s] = "close" /\ Free(s)
  /\ open' = open \ {conn[s]}
  /\ conn' = [conn EXCEPT ![s] = None]
  /\ life' = [life EXCEPT ![s] = "drain"]
  /\ UNCHANGED <<now, listed, active, createdAt, expiresAt, toClose, connMu, scanning, reqVars,
                 agentVars, peers, writing, history>>

Closed(ch) == IF ch \in {"answer", "both"} THEN "both" ELSE "closed"
PendingOf(s) == {r \in pending : session[r] = s}

DrainPending(s) ==
  /\ life[s] = "drain"
  /\ chan' = [r \in Requests |-> IF r \in PendingOf(s) THEN Closed(chan[r]) ELSE chan[r]]
  /\ pending' = pending \ PendingOf(s)
  /\ life' = [life EXCEPT ![s] = "done"]
  /\ toClose' = toClose \ {s}
  /\ UNCHANGED <<now, listed, active, createdAt, expiresAt, conn, connMu, scanning,
                 req, session, via, received, agentVars, netVars, history>>

-----------------------------------------------------------------------------
(* A visitor's request *)

\* The handler answers and returns; its deferred call takes the request off
\* the table, so that an answer finds nobody.
Over(r) ==
  /\ req' = [req EXCEPT ![r] = "over"]
  /\ pending' = pending \ {r} /\ received' = received \ {r}
  /\ session' = [session EXCEPT ![r] = None]
  /\ via' = [via EXCEPT ![r] = None]
  /\ UNCHANGED chan

Go(r, stage) == req' = [req EXCEPT ![r] = stage]

Servable(s) == s \in listed /\ active[s] /\ ~Expired(s)

\* HandlePublicProxy, up to the check of the session; "expired" page otherwise.
Visit(r, s) ==
  /\ req[r] = "new"
  /\ life[s] # "new"
  /\ IF Servable(s)
       THEN /\ Go(r, "found")
            /\ session' = [session EXCEPT ![r] = s]
            /\ UNCHANGED <<via, chan, pending, received>>
       ELSE Over(r)
  /\ UNCHANGED <<now, sessionVars, conn, connMu, scanning, agentVars, netVars, history>>

\* HandleFallbackProxy without cookie and referer takes the manager's read lock ...
Scan(r) ==
  /\ req[r] = "new"
  /\ Go(r, "scan")
  /\ scanning' = scanning \cup {r}
  /\ UNCHANGED <<now, sessionVars, conn, connMu, session, via, chan, pending, received,
                 agentVars, netVars, history>>

Candidates == {s \in listed : active[s] /\ now < expiresAt[s]}

\* ... looks at every session under its connMu, and keeps the only connected one.
Choose(r) ==
  /\ req[r] = "scan"
  /\ \A s \in Candidates : Free(s)
  /\ scanning' = scanning \ {r}
  /\ LET connected == {s \in Candidates : conn[s] # None} IN
       IF Cardinality(connected) = 1
         THEN /\ Go(r, "chosen")
              /\ session' = [session EXCEPT ![r] = CHOOSE s \in connected : TRUE]
              /\ UNCHANGED <<via, chan, pending, received>>
         ELSE Over(r)
  /\ UNCHANGED <<now, sessionVars, conn, connMu, agentVars, netVars, history>>

\* The chosen session is looked up again.
Recheck(r) ==
  /\ req[r] = "chosen"
  /\ LET s == session[r] IN
       IF s \in listed /\ active[s] /\ now < expiresAt[s]
         THEN Go(r, "found") /\ UNCHANGED <<session, via, chan, pending, received>>
         ELSE Over(r)
  /\ UNCHANGED <<now, sessionVars, conn, connMu, scanning, agentVars, netVars, history>>

\* proxyToSession reads session.conn; without an agent, the "waiting" page.
FindConn(r) ==
  /\ req[r] = "found" /\ Free(session[r])
  /\ IF conn[session[r]] = None
       THEN Over(r)
       ELSE /\ Go(r, "holding")
            /\ via' = [via EXCEPT ![r] = conn[session[r]]]
            /\ UNCHANGED <<session, chan, pending, received>>
  /\ UNCHANGED <<now, sessionVars, conn, connMu, scanning, agentVars, netVars, history>>

Register(r) ==
  /\ req[r] = "holding"
  /\ Go(r, "registered")
  /\ pending' = pending \cup {r}
  /\ UNCHANGED <<now, sessionVars, conn, connMu, scanning, session, via, chan, received,
                 agentVars, netVars, history>>

\* WriteJSON to a connection the server closed fails at once ...
WriteToClosed(r) ==
  /\ req[r] = "registered" /\ Free(session[r])
  /\ via[r] \notin open
  /\ Over(r)
  /\ UNCHANGED <<now, sessionVars, conn, connMu, scanning, agentVars, netVars, history>>

\* ... otherwise it holds connMu until the message is out ...
BeginWrite(r) ==
  /\ req[r] = "registered" /\ Free(session[r])
  /\ via[r] \in open \ writing
  /\ Go(r, "writing")
  /\ connMu' = [connMu EXCEPT ![session[r]] = r]
  /\ writing' = writing \cup {via[r]}
  /\ UNCHANGED <<now, sessionVars, conn, scanning, session, via, chan, pending, received, agentVars,
                 open, peers, history>>

\* ... and panics when the handshake is being written: connMu stays locked.
PanicAtWrite(r) ==
  /\ req[r] = "registered" /\ Free(session[r])
  /\ via[r] \in open \cap writing
  /\ connMu' = [connMu EXCEPT ![session[r]] = r]
  /\ stuck' = stuck \cup {r}
  /\ Over(r)
  /\ UNCHANGED <<now, sessionVars, conn, scanning, agentVars, netVars, latest, late>>

\* The write succeeds, also into the buffers towards an agent that is gone ...
EndWrite(r) ==
  /\ req[r] = "writing"
  /\ connMu' = [connMu EXCEPT ![session[r]] = None]
  /\ writing' = writing \ {via[r]}
  /\ received' = IF via[r] \in peers THEN received \cup {r} ELSE received
  /\ Go(r, "waiting")
  /\ UNCHANGED <<now, sessionVars, conn, scanning, session, via, chan, pending, agentVars,
                 open, peers, history>>

MutFailWrite(r) ==  \* the error path returns before the unlock
  /\ req[r] = "writing" /\ via[r] \notin peers
  /\ writing' = writing \ {via[r]}
  /\ Over(r)
  /\ UNCHANGED <<now, sessionVars, conn, connMu, scanning, agentVars, open, peers, history>>

\* ... or fails because it is gone.
FailWrite(r) ==
  /\ req[r] = "writing" /\ via[r] \notin peers
  /\ connMu' = [connMu EXCEPT ![session[r]] = None]
  /\ writing' = writing \ {via[r]}
  /\ Over(r)
  /\ UNCHANGED <<now, sessionVars, conn, scanning, agentVars, open, peers, history>>

\* The select: an answer or a closed channel ...
Receive(r) ==
  /\ req[r] = "waiting" /\ chan[r] # "empty"
  /\ Over(r)
  /\ UNCHANGED <<now, sessionVars, conn, connMu, scanning, agentVars, netVars, history>>

\* ... 30 seconds, or the visitor leaves.
GiveUp(r) ==
  /\ req[r] = "waiting"
  /\ Over(r)
  /\ UNCHANGED <<now, sessionVars, conn, connMu, scanning, agentVars, netVars, history>>

-----------------------------------------------------------------------------
(* A developer's agent *)

\* HandleWebSocket checks the session (an expired one will do) and upgrades.
Dial(c, s) ==
  /\ agent[c] = "new"
  /\ s \in listed /\ active[s]
  /\ agent' = [agent EXCEPT ![c] = "checked"]
  /\ serves' = [serves EXCEPT ![c] = s]
  /\ open' = open \cup {c}
  /\ peers' = peers \cup {c}
  /\ UNCHANGED <<now, sessionVars, conn, connMu, scanning, reqVars, reply, writing, history>>

\* The connection replaces the one that was there.
Attach(c) ==
  LET s == serves[c] IN
  /\ agent[c] = "checked" /\ Free(s)
  /\ open' = open \ {conn[s]}
  /\ conn' = [conn EXCEPT ![s] = c]
  /\ agent' = [agent EXCEPT ![c] = "attached"]
  /\ latest' = [latest EXCEPT ![s] = c]
  /\ late' = IF life[s] \in {"drain", "done"} THEN late \cup {c} ELSE late
  /\ UNCHANGED <<now, sessionVars, connMu, scanning, reqVars, serves, reply, peers, writing, stuck>>

\* The handshake is written without connMu.
BeginGreeting(c) ==
  /\ agent[c] = "attached"
  /\ IF c \in writing
       THEN /\ agent' = [agent EXCEPT ![c] = "over"]  \* a panic, before the defer statement
            /\ stuck' = stuck \cup {c}
            /\ UNCHANGED writing
       ELSE /\ agent' = [agent EXCEPT ![c] = "greeting"]
            /\ writing' = writing \cup {c}
            /\ UNCHANGED stuck
  /\ UNCHANGED <<now, sessionVars, conn, connMu, scanning, reqVars, serves, reply,
                 open, peers, latest, late>>

EndGreeting(c) ==
  /\ agent[c] = "greeting"
  /\ agent' = [agent EXCEPT ![c] = "reading"]
  /\ writing' = writing \ {c}
  /\ UNCHANGED <<now, sessionVars, conn, connMu, scanning, reqVars, serves, reply,
                 open, peers, history>>

\* An answer arrives, perhaps to a request that the agent received on an
\* earlier connection, or a second one; its channel is looked up, and if the
\* request is off the table nothing happens ...
ReadAnswer(c, r) ==
  /\ agent[c] = "reading" /\ c \in open
  /\ r \in pending \cap received /\ session[r] = serves[c]
  /\ agent' = [agent EXCEPT ![c] = "deliver"]
  /\ reply' = [reply EXCEPT ![c] = r]
  /\ UNCHANGED <<now, sessionVars, conn, connMu, scanning, reqVars, serves, netVars, history>>

\* ... and sent to without the lock: a full channel drops it, a closed one
\* panics, which ends the read loop.
Deliver(c) ==
  LET r == reply[c] IN
  /\ agent[c] = "deliver"
  /\ chan' = [chan EXCEPT ![r] = IF @ = "empty" THEN "answer" ELSE @]
  /\ agent' = [agent EXCEPT ![c] = IF chan[r] \in {"closed", "both"} THEN "leaving" ELSE "reading"]
  /\ reply' = [reply EXCEPT ![c] = None]
  /\ UNCHANGED <<now, sessionVars, conn, connMu, scanning, req, session, via, pending, received, serves,
                 netVars, history>>

\* The agent goes away, or the network does.
AgentGone(c) ==
  /\ c \in peers
  /\ peers' = peers \ {c}
  /\ UNCHANGED <<now, sessionVars, conn, connMu, scanning, reqVars, agentVars, open, writing, history>>

ReadFails(c) ==
  /\ agent[c] = "reading"
  /\ c \notin open \cap peers
  /\ agent' = [agent EXCEPT ![c] = "leaving"]
  /\ UNCHANGED <<now, sessionVars, conn, connMu, scanning, reqVars, serves, reply, netVars, history>>

\* The connection is detached unless another one has taken its place.
Detached(c, s) == IF conn[s] = c THEN None ELSE conn[s]

Cleanup(c) ==
  LET s == serves[c] IN
  /\ agent[c] = "leaving" /\ Free(s)
  /\ conn' = [conn EXCEPT ![s] = Detached(c, s)]
  /\ open' = open \ {c}
  /\ agent' = [agent EXCEPT ![c] = "over"]
  /\ UNCHANGED <<now, sessionVars, connMu, scanning, reqVars, serves, reply, peers, writing, history>>

-----------------------------------------------------------------------------

Sweep == SweepExpired \/ \E s \in Sessions : SweepNext(s)

Terminate(s) == CloseConn(s) \/ DrainPending(s)

Serve(r) ==
  \/ Choose(r) \/ Recheck(r) \/ FindConn(r) \/ Register(r)
  \/ WriteToClosed(r) \/ BeginWrite(r) \/ PanicAtWrite(r)
  \/ Receive(r) \/ GiveUp(r)

Write(r) == EndWrite(r) \/ FailWrite(r)

Listen(c) ==
  \/ Attach(c) \/ BeginGreeting(c) \/ EndGreeting(c)
  \/ Deliver(c) \/ ReadFails(c) \/ Cleanup(c)

Next ==
  \/ Tick
  \/ Sweep
  \/ \E s \in Sessions :
       \/ CreateSession(s) \/ ExtendSession(s) \/ CloseSession(s) \/ Terminate(s)
       \/ \E r \in Requests : Visit(r, s)
       \/ \E c \in Conns : Dial(c, s)
  \/ \E r \in Requests : Scan(r) \/ Serve(r) \/ Write(r)
  \/ \E c \in Conns : Listen(c) \/ AgentGone(c) \/ \E r \in Requests : ReadAnswer(c, r)

Spec == Init /\ [][Next]_vars

\* The clock runs, the sweeper's ticker fires, mutexes are handed over in turn
\* and handlers make progress; nobody has to visit, to dial or to answer.
\* Whether a write ends is up to the agent, which may stop reading for ever.
Fairness ==
  /\ WF_vars(Tick) /\ SF_vars(Sweep)
  /\ \A s \in Sessions : SF_vars(Terminate(s))
  /\ \A r \in Requests : SF_vars(Serve(r))
  /\ \A c \in Conns : SF_vars(Listen(c))

LiveSpec == Spec /\ Fairness /\ \A r \in Requests : WF_vars(Write(r))
StallSpec == Spec /\ Fairness

-----------------------------------------------------------------------------
(* Properties *)

\* When terminate is through (tunnel.go:204), every request that still waits
\* for an answer of the session has got one, or its channel is closed: nobody
\* sits out the 30 seconds.  (A connection attached after terminate took
\* connMu is the exception.)
NobodyStranded ==
  \A r \in Requests : req[r] = "waiting" /\ life[session[r]] = "done" =>
    chan[r] # "empty" \/ via[r] \in late

\* The read loop can only hit a closed channel (tunnel.go:334) when the session
\* is being terminated: the panic never takes the agent from a live session.
PanicOnlyAtTheEnd ==
  \A c \in Conns : agent[c] = "deliver" /\ chan[reply[c]] \in {"closed", "both"} =>
    life[serves[c]] \in {"drain", "done"}

\* As long as the session lives, the agent that attached last stays attached
\* until its own handler ends, whatever the handlers of earlier connections
\* clean up (tunnel.go:312).
LatestAgentStays ==
  \A s \in Sessions :
    /\ latest[s] # None /\ life[s] \in {"up", "ending", "close"}
    /\ agent[latest[s]] # "over"
    => conn[s] = latest[s]

\* An extension may bring the expiry forward, because it counts from now, but
\* whatever is extended, in whatever order, it never passes 120 minutes from the
\* session's creation, and it ends a session that had time left only when more
\* minutes were asked for than a Duration holds (tunnel.go:169-173).
ExtensionsStayInBounds ==
  [][\A s \in Sessions : expiresAt'[s] # expiresAt[s] =>
       /\ expiresAt'[s] <= createdAt'[s] + MaxLife
       /\ ~Expired(s) /\ now > expiresAt'[s] =>
            \E d \in Extensions : Signed(d) < 0 /\ expiresAt'[s] = now + Signed(d)]_vars

\* No socket is lost and none is closed too early: a connection that has been
\* attached is open exactly as long as its session names it, whoever replaces,
\* detaches or ends it (tunnel.go:204-211, 292-297, 312-316).
NoSocketIsLost ==
  \A c \in Conns : agent[c] \notin {"new", "checked"} => (c \in open <=> conn[serves[c]] = c)

\* Whoever is through with a connection gives connMu back, on every path out of
\* the write, unless the library panicked in it (tunnel.go:302, 511-513).
MutexIsReturned ==
  \A s \in Sessions : connMu[s] # None =>
    \/ req[connMu[s]] = "writing" /\ session[connMu[s]] = s /\ via[connMu[s]] \in writing
    \/ connMu[s] \in stuck

\* An agent that is attached to a session that has ended came between the check
\* and the attachment, after the session's connection had been closed: the one
\* that was there before never survives (tunnel.go:296).
OnlyLatecomersStay ==
  \A s \in Sessions : conn[s] # None /\ life[s] = "done" => conn[s] \in late

\* Unless a write panicked, every session comes to its end: expired, swept,
\* disconnected and drained, although agents reconnect and owners extend.
SessionsEnd ==
  [](stuck = {}) => \A s \in Sessions : life[s] = "up" ~> life[s] = "done"

\* Unless a write panicked, every visitor gets some answer.
VisitorsLeave ==
  [](stuck = {}) => \A r \in Requests : req[r] # "new" ~> req[r] = "over"

\* "SweepExpiredSessions cleans up sessions that exceeded their TTL"
\* (tunnel.go:228): what it took off the list it also terminates.
SweepCleansUp ==
  \A s \in Sessions : life[s] = "ending" ~> life[s] = "done"

\* "StartSweeper starts a background goroutine to clean up expired sessions
\* every 15 seconds" (tunnel.go:249): it gets through whether or not the agent
\* of a session still reads what it is sent, and without any panic.
SweepNeedsNoAgent == [](stuck = {}) => SweepCleansUp

\* "ExtendSession adds additional time to a session" (tunnel.go:154).
ExtendOnlyAdds ==
  [][\A s \in Sessions : life[s] = "up" => expiresAt'[s] >= expiresAt[s]]_vars

\* It does not end one, either.
ExtendNeverEnds ==
  [][\A s \in Sessions : life[s] = "up" /\ ~Expired(s) => now <= expiresAt'[s]]_vars

\* "CloseSession terminates an active tunnel session" (tunnel.go:183): when it
\* is through, no agent is connected to it.
EndedHasNoAgent ==
  \A s \in Sessions : life[s] = "done" => conn[s] = None
=============================================================================
