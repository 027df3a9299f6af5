# OrBit control server: a TLA+ verification project

OrBit's control server (Go, `src/`) connects the desktop clients of a project:
it knows who is a member, relays encrypted file deltas between them, carries
their WebRTC signals, exposes local previews through a tunnel, and applies the
caps of a licence. This directory holds TLA+ models of its components, the TLC
configurations that check them on small instances, and proofs of the main
results for every instance, checked by TLAPS.

Paths below are relative to `src/`; `db.go`, `postgres.go`,
`postgres_methods.go`, `db_signals.go` and `secrets.go` are in
`internal/repository/`, `project.go`, `signaling.go`, `user.go`, `friend.go`,
`auth.go` and `telemetry.go` in `internal/handlers/`, `ratelimit.go` in
`internal/middleware/`, `website_validator.go` in `internal/license/`, `hub.go` in
`internal/websocket/`, `tunnel.go` in `internal/tunnel/`.

- [Inventory](#inventory)
- [Modules](#modules)
- [Runs](#runs)
- [Bounds](#bounds)
- [Fairness](#fairness)
- [Proofs](#proofs)
- [Where the code and its comments disagree](#where-the-code-and-its-comments-disagree)
- [Assumptions and abstractions](#assumptions-and-abstractions)
- [What is not modelled](#what-is-not-modelled)
- [Plan](#plan)

## Inventory

The server is one process. `main.go` opens the store, starts background
goroutines (sweepers), and serves HTTP; each request is a goroutine. All
components share one `repository.DB`, which stores in PostgreSQL if it is
reachable when the process starts and otherwise in a JSON file. Components
interact through that store only, apart from the hub, which the signalling
handler calls, and the tunnel manager, which stands alone.

| Component | State | Operations | What is hard | What makes it correct |
|---|---|---|---|---|
| Delta relay (`postgres_methods.go:731-975`, `project.go:485-640`) | `deltas`, `delta_acks`, `delta_watermarks`; a cursor in each client | push, pull since a cursor, ack, four-step TTL sweep, orphan sweep, forced sweep | three ways to delete race with pulls that read the page and the watermark separately; acks count rows of people who left; statements fail one by one | nothing is deleted unseen without the gap flag; the last ack is noticed; the watermark never goes back; every delta leaves |
| JSON store (`db.go:102-185` and every method) | `db.data` under `db.mu`; the file | lock-change-save, save under the lock, load, final save | snapshot written after another writer's; crash between temporary file and rename; a lock taken twice; shutdown while requests run | an answered change survives; calls return; the process ends |
| Projects and membership (`project.go:60-483`, `postgres_methods.go:500-720`) | `projects`, `project_members`, tiers, project tokens | create, invite, two ways to join, leave, remove, delete, rename, rotate token | every handler checks, then acts; a query of a check that fails is an answer; caps are counts; a rename writes back what it read | no members without a project; no project without its owner, unless a failed query let the owner go; caps hold but for racing joins; the token is the one asked for last, unless a rename was under way |
| Signal mailbox (`signaling.go`, `db_signals.go`, `postgres_methods.go:1229-1293`) | `signals` | save, fetch and clear, expire | select and delete are two statements, then a second delete; polls overlap; answers get lost | no signal vanishes unread but for a reason; none is read twice; none stays |
| Signalling hub (`hub.go`) | rooms, each a map of connections with a mutex | connect, relay, broadcast, deliver, remove, revalidate | iteration without the lock over a map that others change; blocking writes under a mutex; dead lists | working connections stay, revoked ones close, handlers end |
| Live preview tunnels (`tunnel.go`) | sessions, the agent's connection, pending requests with a channel each | create, extend, stop, sweep, attach, proxy, answer, time out | terminate against visitors, agents and the sweeper; writes under a mutex; closing channels others send to | nobody is stranded; the latest agent stays; sessions end |
| Accounts and licences (`auth.go`, `user.go:23-92`, `website_validator.go`, `main.go:111-147`, `postgres_methods.go:212-336`) | tier, machine and licence keys of a user; the website's verdicts | login, profile and its sync, licence sweep, downgrade | each reads, asks the website for up to ten seconds, and then writes the whole row; errors read as absence, or by the words of their text | who pays keeps the tier, unless an error was misread; the last device stays; the tier becomes what the website says |
| Friends (`friend.go`, `postgres_methods.go:420-533`, `db.go:405-520`) | one request per ordered pair, friendships | request, accept, decline | crossing, repeated and late answers; an id that a repeated request replaces or never stores | friends only by consent; one answer per request; no request is lost |
| Presence (`user.go:181`, `postgres_methods.go:394-418`, `db.go:1058-1095`) | status and `last_seen` of a user | create, heartbeat, goodbye, sweep | stamps land out of order and are compared with another clock; `NULL` | nobody silent is online for long; nobody is swept who beats |
| Direct messages (`user.go:211-270`, `postgres_methods.go:1150-1217`) | messages of a channel | send, read a page, sweep | a page of a hundred from offset 0, and an age limit | what was sent can be read |
| Tasks, activity log, leaderboard (`project.go:597-714`, `postgres_methods.go:967-1119`, `db.go:984-1056`) | tasks of a project, log entries | create, update, complete, delete; log; sweep | check, act and log are steps of their own, the last may fail; the project may be deleted in between | no tasks without a project; no credit that was not earned |
| Rate limiter (`ratelimit.go`) | token buckets | take, refill, refuse, purge | remainders of time; a purge forgets what a bucket owes | never more than the burst and the rate; nobody is locked out |
| Startup, secrets, administration (`postgres.go`, `secrets.go`, `telemetry.go`, `postgres_methods.go:20-183`, `:1308`) | which store is open, the legacy table, the session secret | open or fall back, migrate, find or make the secret, purge | ignored errors; a crash between the two halves of a purge; a restart with the other store | what was purged stays so; sessions survive; the legacy data comes first |
| Authentication middleware, configuration, logger, models | – | pure functions, read once at start | – | – |

The dangerous behaviour at each line is listed under `hazards` in
`PROJECT.json`, with the property that would notice it.

## Modules

| Module | What it is | State ↔ code |
|---|---|---|
| `DeltaRelay` | the relay of one project on PostgreSQL | tables as functions of deltas; `pc`, `ts`, `page`, ... are the local variables of the one handler a user has in progress; `spc`, `cut` those of the sweepers |
| `JsonStore` | the JSON file store under concurrency, crash, disk error and shutdown | `mem` is `db.data` and `file` the file, as sets of changes; `writer` holds `db.mu` |
| `RelayContract` | the abstract relay: a log whose entries leave once, with a floor that is honest and never goes back | refined by `DeltaRelay` with `open <- exists`, `kept <- Stored`, `stamp <- created`, `floor <- wm`; `delivered` are the deltas that acknowledgements purged, `dropped` the other purged ones |
| `StoreContract` | the abstract store: durable before promised, nothing undone | refined by `JsonStore` with `durable <- file`, `promised <- answered` |
| `Membership` | projects of one owner, members, caps, tokens | the tables; `stage`, `user`, `project`, `cap`, `kept` are a handler's local variables; `rivals`, `unread`, `wanted`, `raced` are history |
| `Mailbox` | the signals of one project, both storage modes | `box` with `to` and `stamp` is the table; `stage`, `peer`, `taken` are a poll's |
| `Hub` | one room, its connections and deliveries | `room`, `user`, `mu` are the hub's; `todo`, `at`, `dead` those of an iteration; `open`, `peers`, `reads` the network |
| `Tunnel` | sessions, agents, visitors | fields of `TunnelSession` and `TunnelManager`; `life` is how far `terminate` has got; `Half` is half the range of a `time.Duration`, beyond which an extension wraps to a negative one |
| `Accounts` | one user's row and licence keys, against the website | `tier`, `machine`, `index` are the tables, `verdict` is what the website would answer; `step`, `seen`, `key`, `answer` are the local variables of a login, a profile request or the sweeper |
| `Friends` | requests and friendships, both storage modes | `requestId`, `status` are `friend_requests` by pair, `friends` is the table of ordered pairs |
| `Presence` | one user's presence | `born`, `online`, `lastSeen` are the row; `stampOf`, `quitting` a heartbeat between its clock reading and its `UPDATE` |
| `Chat` | one channel of direct messages | `channel`, `written` are the rows; `readable` is what a reader's page ever held |
| `Workspace` | the tasks of one project and their log entries, both storage modes | `tasks`, `finished`, `stageOf`, `credits` are the rows; `doing`, `task` a handler's |
| `RateLimiter` | the token buckets | `buckets`, `tokens`, `refillAt` are `rl.buckets`; `watched` and `from` pick, once and for all, the bucket and the stretch of time that are counted |
| `Startup` | restarts, fallback, migration, secret, purge | `data`, `kv`, `saved` are the stores, `phase`, `open`, `secret`, `purging` the process |
| `MC*` | instances for TLC | model values, symmetry; `MCServices` holds the eight components that share no state with another |
| `DeltaRelayProofs`, `JsonStoreProofs`, `MembershipProofs`, `HubProofs`, `TunnelProofs` | theorems about the module of that name | – |
| `PeopleProofs` | theorems about `RateLimiter`, `Friends`, `Accounts`, `Presence` | – |
| `RecordsProofs` | theorems about `Mailbox`, `Chat`, `Workspace`, `Startup` | – |
| `ServicesProofs` | the eight side by side, as in `MCServices` | – |

`Membership` and `Mailbox` have a variable `mode`, "pg" or "json", which `Init` chooses
from the constant `Modes` and no step changes, as `repository.New` does at start;
in `Friends` it is `db`, in `Workspace` `backend`. (The names of variables differ
between components because `MCServices` extends several of them.)
`Membership` and `DeltaRelay` meet in the `members` of a project: what
`Membership` does to one project's members is the `Join`, `DropMember` and
`DeleteProject` of `DeltaRelay`. `Hub` and `Mailbox` share the signal that
`SendSignal` stores and then delivers. Each actor's handler is written as the
code is: an action for every point at which another goroutine can get between,
and the guard of an action is the condition under which the code takes that
path. Operators keep the names of the Go functions where they stand for one.
The `Mut*` operators of a module are single plausible bugs; each property is
violated when one of them replaces its original, which shows that the property
depends on the code and that the instance is large enough to notice.

### DeltaRelay

A statement outside a transaction is one step. `ackDelta` is two steps, `AckCount`
(lock the row, count recipients, insert and count the acks) and `AckCommit`
(delete or not, raise the watermark), because only the lock keeps others out in
between. `PullDeltas` is two reads, the page and the watermark (`project.go:507`,
`517`). `sweepExpiredDeltas` is a loop through its statements `tally`, `solo`,
`expired`, `advance` and, in the hourly sweep, `orphans`; its third statement is
part of `solo`, since a project that is gone has no recipients and its deltas
go with it by foreign key. A failing statement abandons the handler; a crash
abandons all of them. The client's cursor is an external part: it moves to the
last delta of a reply, flagged or not (`project.go:524-526`; what a client does
about a flag is its own), and is dropped by a refusal or by leaving. `SaysNo` is
the answer of `isProjectMember` and `isProjectOwner`, which is no also when their
query fails (`postgres_methods.go:1121-1135`): a member may be refused for that, and
the owner may leave.

### JsonStore

Methods are grouped by how they lock and save: change, unlock and `save`
(`StoreDelta`, ...); change and `saveUnderLock`; change with a deferred unlock and
then `save`, which locks again (`AckDelta`, `RemoveProjectMember`,
`UpdateProjectToken`, `DowngradeUserTier`); sweeps; reads. One representative
list of each shape is in the module. `main` waits for its tracked sweepers after
SIGTERM, does the final save and exits (`main.go:290-320`), whatever the others do.

### Membership

`verified`, `capped`, `counted` are the stages of a join between its checks, its
look at the owner's tier, its count and its insert. `InviteLimitedJson` does the
last two under one lock. `Create` counts, then creates. `Update` reads the
project (`ReadForRename`) and writes name and token back (`WriteRename`).
`UpdateToken` stores whatever token the owner sends, one that was in use before
included, and stands for `Update` with a token in the request too.
`DeleteProject` also stands for the orphan sweep and the purge, which delete in
the same way. The owner's handlers check that their caller is the owner and act
later, so their actions do not ask again.

`MayFail` marks the places where the code takes a failed query of PostgreSQL for an
answer: `isProjectOwner` and `isProjectMember` say no (`postgres_methods.go:1121-1135`)
and `GetOwnedProjectCount` says 0 (`project.go:100`). The first lets `LeaveProject`
remove the owner's own row (`LeaveUnread`), after which nobody may delete the
project; `unread` keeps those projects, and `OwnerKept` excepts them and no others.
Errors that are not ignored end the handler (`QueryFails`).

### Mailbox

A PostgreSQL poll is `Select`, `DeletePending`, `ClearAgain`, `Answer`, with
`Rollback`, `ClearFails`, `AnswerLost` as what goes wrong; in the JSON store the
first two are `Take` or `TakeFails`. `saveSignal` is one step, since its two
statements touch disjoint rows. Membership is checked before and decides only
whether a handler goes on, so the model starts after that check.

### Hub

A delivery is `Pick`, `Lock`, `WriteDone` or `WriteFails` for each entry, then
`DropDead` for each dead connection, then `Finish`. `AddConnection` chooses which
of the iterations under way come upon the new entry, as Go's map iteration may.
`ConcurrentMapFatal` is the runtime noticing a write during an iteration. Nothing
reads from a connection while its handler delivers, so a handler is also where
its client's messages wait.

### Tunnel

A visitor's request is `Visit` (or `Scan`, `Choose`, `Recheck` for the fallback
proxy), `FindConn`, `Register`, a write that begins and ends, and then whichever
of an answer, the closed channel, the timeout or the visitor's leaving comes
first. `terminate` is `CloseConn` and `DrainPending`, which the sweeper does for
one session after the other. An agent's handler is `Dial`, `Attach`, the
handshake, the read loop, and `Detach`.

### Accounts

A login is `LoginBegins`, an answer of the website (`Verified` or `VerifyFails`),
and `LoginUpsert`. A profile request, a profile sync and a turn of the sweeper
are the same four steps, `ReadUser`, `FindKey`, the answer, `SyncUpsert`, since
they call the same functions in the same order; they differ in what an error
does. The sweeper goes by the words of the error: it downgrades if the text has
"expired", "inactive" or "not found" in it (`main.go:135`). A verdict that the website
puts in such words is `lapsed`, one in other words is `refused`; both end a request.
Errors that are no verdict may have one of these words too, such as a certificate
that has expired or a host that is not found (`website_validator.go:69-70`), so
`Unverified` lets the sweeper misread any of them and downgrade a user who pays; and
so does, in the sweeper alone, a lookup that fails, because `main.go:126` does not
tell an error from an absent key. Both are recorded in `excuse`. `UpsertUser` writes the
row and `license_index` in one transaction and is one step. Rows of
`license_index` are never deleted, and `LIMIT 1` may return any of them, which
is why a user with a paid key and an old lapsed one may be downgraded; the
property `PayersKeepTheirTier` counts the lapsed key as an excuse as well. What
it rules out is a downgrade for anything else: a late answer, a failure that ends
a request, an error without those words.

### Friends

Each operation is atomic in the code: PostgreSQL's locks the row it updates, the
JSON store holds `db.mu`. What interleaves is the users' knowledge: an id that
somebody loaded may be answered after its row has another id. `KeepRequest` is
`ON CONFLICT ... WHERE status <> 'pending'`, which stores nothing and still answers
with the new id (`phantom`). A request may be pending between two friends, and
nothing ends a friendship.

### Presence

`Beat` and `Land` are the two halves of `UpdatePresence`. `MomentPasses` waits for
an `UPDATE` that is `Delay` old and for a sweep that is due, which is how the model
says that writes end and the ticker fires in time. `HeartbeatSweep(ahead)` is the
statement on a database clock that differs by `ahead`.

### Chat

`Page` is the query's `ORDER BY`, `LIMIT`, `OFFSET 0`. A step also says what a
reader would have been shown after it, so `readable` is what could ever be read.

### Workspace

A handler is `Check` (membership), one operation, and for `CompleteTask` `LogActivity`
or `LogFails`. `Referable` is the foreign key that PostgreSQL has and the JSON store
has not.

### RateLimiter

`Pass` and `Refuse` are the two results of `allow`, `PurgeStale` is `purgeStale`. Time
is an integer of units finer than `Rate`, so that refills have remainders.

### Startup

A start is `StartPg`, `StartJson` or `FallBack`, then `Migrate` or `MigrationFails`, then
`SecretFound`, `SecretMade` or `SecretFails`. `PurgeData` on PostgreSQL is `Truncate` and
`ClearKv` or `ClearKvFails`; `Crash` may come anywhere. One secret stands for the two
that are made alike.

## Runs

A run that passes shows that its properties hold in every reachable state (and,
for liveness, on every fair behaviour) of its instance; one marked *violated*
shows a statement of the repository that the code does not keep (see below).

| Run | What it asks |
|---|---|
| `relay_acks` | Three users, one delta: concurrent acks with members joining, leaving and returning. `NoLostLastAck`: two last recipients cannot both miss each other. `PrematurePurgeNeedsDeparture`: a delta is purged early only because of a departed acknowledger. |
| `relay_gap` | Three deltas, page size 1: acks that purge fall anywhere between the two reads of a pull. `AckPurgeIsFlagged`: what they purged is never missed without a flag. The refinement `KeepsTheLog`: nothing purged returns or arrives after the project is gone, and the watermark is at once above what was acknowledged away, names a purged delta, and never goes back although it is written out of order. |
| `relay_live` | Hourly and forced sweep of one project with a failing statement or a crash anywhere, and the project's deletion. `WatermarkCovers`: what the watermark must cover it covers; `EveryDeltaLeaves`, also after a crash. |
| `store` | Two requests with every kind of method, a tracked sweeper, a crash or disk error, a restart, a shutdown. The refinement `KeepsItsPromises`: what was answered is in the file for good, and no older snapshot overwrites a newer one; `EveryCallReturns` and `ShutdownCompletes` as long as no call waits for itself. |
| `store_v_deadlock` | *Violated:* `NobodyWaitsForItself`. |
| `tunnel_safe` | One session, two visitors, two agents. `NoSocketIsLost`: an attached socket is open exactly as long as its session names it; `NobodyStranded`: no visitor waits for an answer that cannot come; `PanicOnlyAtTheEnd`; `LatestAgentStays`; `ExtensionsStayInBounds`: extensions in any order do not pass the limit, and none ends a session that had time left but one whose duration wrapped to a negative one (`tunnel.go:170`); `MutexIsReturned`: `connMu` is given back on every path but a panic; `OnlyLatecomersStay`: an agent outlives its session only if it attached after the session's end. |
| `tunnel_live` | Two sessions for one sweeper. `SessionsEnd`, `VisitorsLeave` as long as no write panics and every write ends. |
| `members` | Four handlers, four users, every tier, both storage modes. `RosterIsSound`: a project keeps its owner, unless a failed query let the owner leave, and in PostgreSQL nobody is a member of a project that is gone; `OvershootIsARace`: the cap is exceeded by at most the joins that raced. `TokenIsWanted`: a project has the token its owner asked for last, unless a rename that had read another one was under way then. |
| `members_v_cap` | *Violated:* `JoinRespectsCap` on PostgreSQL. |
| `services` | The components that share no state with another, each run on its own (below). |
| `hub_safe` | Two connections and a call of `SendSignal`: three handlers that deliver at once. `TypeOK`; `OnlyTheDeadAreDropped`: no handler takes a working connection of another out of the room. |
| `hub_live` | One user who is removed and returns, with two connections and clients that stop reading. `HandlersEnd` while clients read; `RevokedSocketsClose` whether they read or not. |

`services` is one run of eight components. `MCServices` has a variable `part`, chosen
initially; only that component runs, while the others rest in one initial state.
No property mentions two of them, so this explores what each of them does alone,
and nothing is lost by leaving out their product. What it asks:

| Part | Properties |
|---|---|
| `limiter` | `RateIsKept`, three parts: `WindowBound`, no more than a full bucket and the tokens of the time over any stretch; `OneBucketPerPurge`, where the purge forgets a debt, one more bucket an hour; `RefusedIsRecent`, polling fast never locks a client out |
| `friends` | `FriendsByConsent`, `SentIsKept`, through three requests between three users that cross, repeat and are answered late or by others |
| `accounts` | `PayersKeepTheirTier`: "free" has a reason: a key that was free or lapsed, a lookup that failed, an error whose text has one of the three words; `DeviceOnlyLostToAStaleRead`; `TierConverges`: with one key, the tier becomes and stays what the website says, unless it refuses the key in other words than those |
| `presence` | `OnlineIsFresh`: the crashed and the overtaken goodbye do not stay online; `OnlyTheSilentAreSwept` |
| `chat` | `UnreadOnlyInABurst`: a message is swept unread only behind a full page of its own time |
| `tasks` | `StrayTaskIsARace`: in PostgreSQL a deleted project leaves no task and no credit; in the JSON store it leaves no task but those of calls that raced with the deletion (its log stays) |
| `startup` | `PurgedStayPurged`, `SessionsSurvive`, over three starts with a crash anywhere |
| `mailbox` | `LostOnlyToAPoll`: two signals, two peers, two polls, both storage modes; `EverySignalLeaves`, though nobody polls |
| all | `ServicesTypeOK`, the conjunction of their type invariants |

`CHECK_DEADLOCK FALSE` is in every configuration: clocks stop at their bound,
every request and connection of an instance is used once, and then the model is
finished. That a system does not stop too early is what the liveness properties ask.

## Bounds

- `MaxTime` stops the clocks. Lifetimes (`TTL`, `OrphanAge`, `MaxLife`) are 0 to 3
  ticks, so everything in an instance can expire; only comparisons of stamps
  matter, and equal stamps are among the cases. `CreateSession` and `SaveSignal`
  need a lifetime left before `MaxTime`, so that liveness does not fail only
  because the clock has stopped.
- `LastPush` stops pushes, so that two stamps occur in `relay_gap` and every delta
  of `relay_live` has the time to expire.
- `MaxInFlight` (relay) is 2 where handlers race each other, 1 in `relay_live`, where
  one races the two sweepers. Every race described above is between two handlers,
  a handler and a sweeper, or the two sweepers.
- `MaxFaults` is 1: one failed statement, disk error or crash, at any point. The
  proofs of the relay's and the store's invariants have no such bound.
- `MaxChanges` (store) 2: two changes whose snapshots could overtake each other,
  or one before and one after a restart. The proofs have no such bound, nor one
  on goroutines; an untracked sweeper differs from a request only in that it
  repeats, so the run does without one.
- `Deltas`, `Signals`, `Requests`, `Conns`, `Sessions`: up to 3, 2, 4, 2, 2. Three
  deltas are one behind the cursor, one on the page and one purged; two visitors
  share a session and its mutex; a replaced connection needs two.
- Caps are 2 and 3 members, 1 and 2 projects, instead of 3, 11, 1, 10: small
  enough to be reached and exceeded by the users there are.
- `services`: a bucket of 2 tokens that is full when it is stale and one of 3 that
  is not, one token per 2 units of time, so that a refill has a remainder, stale
  after 4, clock to 7: a purge and a full bucket after it fit. Three users and
  three requests; two keys and devices, two logins, a profile request and the
  sweeper, one change of the website's mind and one failed lookup or question. Two heartbeats in
  flight, silence 3, period 2, delay and clock difference 1, clock to 7. A page of
  2 of 3 messages, kept for 2 hours, clock to 6. Two tasks and three calls. Two
  users of which one is in the legacy table, three starts, two faults. Two
  signals, peers and polls, lifetime 1, clock to 3. The proofs of these components
  have none of these bounds.
- `tunnel_safe` has a session of length 1, a limit of 1, and extensions of 1 and 3,
  of which the second wraps to -1 where a duration has 4 values (`Half = 2`): an
  extension may be cut short, bring the expiry forward, end the session, or revive
  an expired one that nobody swept. The extension of `tunnel_live` does not wrap.
- `members` has one project and two tokens: a rename carries one of them, and the
  owner may send either at any time, also again. Its failing queries have no bound.
- `Fickle` (hub) are the users who leave and return; the safety of the hub does
  not depend on the members except through the guard of `Relay`, which is why
  `hub_safe` has none.

Symmetry is used only in runs without liveness properties, over names that the
initial state and the properties treat alike; the owner is not among them.

## Fairness

- Relay: weak for the clock and for each handler's next step, since a statement
  ends within the ten seconds of `pgCtx` (`postgres_methods.go:16`); strong for the
  hourly sweep, since it waits for row locks that PostgreSQL grants in turn. None
  for the forced sweep: an operator has to ask.
- JSON store: strong for each goroutine's steps, because Go's mutex hands over to
  a waiter of more than a millisecond; strong for a sweeper's stop, because
  `select` picks at random between a tick and the cancelled context; none for
  requests or signals. `EveryCallReturns` and `ShutdownCompletes` have the premise
  `[]NobodyWaitsForItself`: a goroutine that waits for its own lock stops the rest.
- Tunnel: weak for the clock; strong for the sweeper and for whoever else waits for
  a mutex. That
  a write ends is assumed only in `LiveSpec`; `StallSpec` leaves it to the agent.
- Mailbox: weak for clock and sweeper.
- Accounts: weak for the licence sweeper's next step, since its ticker fires and
  its statements and HTTP calls have time limits (`postgres_methods.go:16`, the
  client of `website_validator.go`). None for the users or the website: that it
  stops changing its mind follows from `MaxChanges`.
- The other parts of `services` have no liveness property; `Presence` says in the
  guard of its clock how late its sweep and its writes may be.
- Hub: weak for each handler and for the revalidation ticker, strong for `Lock`.
  A write ends if the client reads or the connection is closed or broken, and
  not otherwise; `HandlersEnd` therefore has the premise that the clients that
  are still there read, and `RevokedSocketsClose` has none.

Where an action's fairness covers only some cases (`c \notin open \cap peers /\
ReadFails(c)`), the others are up to a client.

## Proofs

All theorems hold for every value of the constants that satisfies the modules'
assumptions: any number of users, deltas, goroutines, polls, any lifetimes and
no bound on failures. The assumptions say that the kinds of names are disjoint,
that counted sets are finite, and that numbers are natural numbers.

| Module | Theorem | Argument |
|---|---|---|
| `DeltaRelayProofs` | `TypeCorrect` | induction, one case per statement |
| | `LastAckIsSeen`, `PrematurePurgeIsADeparture` | `AckInv`: a locked row has one holder and is still stored, what the holder counted is still so when it commits, acknowledgers are or were members. The last two conjuncts are the properties; without the first three a count could be out of date. |
| | `WatermarkIsComplete`, `WatermarkIsHonest`, `AcknowledgedAwayIsFlagged`, `NothingStray` | `GapInv`, on top of `AckInv`: rows in a sweeper's hand are expired ones between its two statements, only a project has members. |
| | `WatermarkOnlyGrows` | from `TypeOK`, by `GREATEST` in every writer |
| | `RelayKeepsTheLog` | the refinement of `RelayContract`, from `AckInv` and `GapInv`: an insert is `Append`, a commit that has enough acks `Deliver`, each `DELETE` of a sweep `Drop`, its watermark `Raise`, the project's deletion `Close`, all else a stutter. A commit finds its row still stored because it holds the lock, and a sweeper's rows are of an open project. |
| `JsonStoreProofs` | `StoreInvariant`, `AnsweredChangesSurvive` | `StoreInv`: whoever writes holds the lock, so its snapshot is all of memory and never older than the file; a call's change is in memory until its save ends |
| | `StoreKeepsItsPromises` | the refinement of `StoreContract`: every step is `Save` or a stutter |
| `MembershipProofs` | `TypeCorrect`, `NoGhosts`, `OwnersKept`, `RosterSound`, `OvershootBounded` | `Ind`: identities are not reused, and for a handler that has counted, the members who are not its rivals are fewer than its cap (`CountStillHolds`). The cap then fails by at most the rivals. |
| | `TokensAreWanted` | `RenamesAgree`, on top of `Ind`: what a rename is going to write back is the token asked for last, unless the project is marked as raced; a request for another token marks it if such a rename is under way. |
| `HubProofs` | `TypeCorrect`, `WorkingStay`, `SocketsHaveOneWriter`, `NoEntryIsLeft`, `OnlyAddresseesReceive` | `Ind`: a handler's list of the dead holds connections that failed, and what has failed never works again (`DeadAreDead`), so removing it late harms nobody; a mutex is held by the one handler that writes there (`WriterHoldsMutex`); an entry names a user and its connection's handler is still going on (`EntriesAreServed`); what an iteration is going to write to is its addressee's, or closed since (`WrittenToAddressees`). |
| `TunnelProofs` | `TypeCorrect`, `NobodyIsStranded`, `PanicsAtTheEnd`, `LatestIsAttached`, `MutexComesBack`, `LatecomersOnly`, `SocketsAreClosed` | `Ind`: the session and the connection that a handler, a request or an answer names are ones it has found (`Known`); a socket that was attached is open exactly as long as its session names it (`OpenIffNamed`), which is what makes every replacement and end close one; who writes holds `connMu`, and what is written is registered or answered (`WritersHold`, `WrittenAreServed`), so that `terminate` finds it. |
| | `ExtensionsAreBounded` | `Capped`, a part of `Ind`: an expiry is never later than the limit counted from the session's creation, so cutting an extension to that limit never ends a session that had time left; what is left to end one is a duration that wrapped to a negative one, which is the exception stated |
| `PeopleProofs` | `AccountsTypes`, `PayersKept`, `DeviceKept` | `AccountsInv`: a call that will write or downgrade has its answer from a key that was asked, or a failure that was recorded, so every "free" under way has an excuse already; a call that read since the last login, unless something reverted it, holds that login's machine. |
| | `FriendsConsented`, `RequestsAnsweredOnce`, `RequestsAreKept` | `FriendsInv`: a row's id was issued for its pair and is its pair's newest stored one; a pending one has no answer. Without that, an old id could be answered through a new row. |
| | `PresenceTypes`, `OnlineStaysFresh`, `SweptWereSilent` | `PresenceInv`: a stamp in flight is at most `Delay` old, so `last_seen` lags behind the newest stamp by no more; who is online was fresh at the last sweep, which was at most `Period` ago. |
| | `LimiterTypes`, `WindowIsBounded`, `PurgesAreBounded`, `RefusalIsRecent`, `RateAlwaysKept` | `LimiterInv`: what has passed, what the bucket holds and what it could earn are together no more than the promise (`Paid`); a bucket that is gone owes at most what a full one and the bonus of its purges give (`Forgotten`). The bonus is a bucket per `StaleAge` since `from`, because a key must be idle for that long to be purged. |
| `RecordsProofs` | `MailboxTypes`, `NothingElseIsLost` | `PollsCover`: what a poll is going to delete, it has read, or it was stored since |
| | `JsonNeverTwice` | `Exclusive`: what a poll or an answer has, nobody else has and the mailbox does not |
| | `ChatTypes`, `UnreadInABurst` | `ChatInv`: no message is older than `Keep` and the longest time between two sweeps (`SweptInTime`), and one that nobody could read yet has a full page of older ones before it (`UnreadWait`). When it is swept, those were there as well, so they are of its own time. |
| | `WorkspaceTypes`, `StrayTasksAreRaces` | the two are inductive together: PostgreSQL refuses what references a project that is gone (`Referable`), and what the JSON store then still takes is a late call's. |
| | `StartupTypes`, `PurgesLast`, `SecretsLast` | `StartupInv`: the legacy table holds nobody who was purged, unless a purge is going on or could not clear it (`NoneComesBack`); each store has the secret that was first used with it (`FirstIsSaved`); only a process with a database migrates (`OpensTables`). |
| `ServicesProofs` | `PartsAsAlone`, `ServicesTypes` | every step of `MCServices` is a step of one component and a stutter of the others, so its specification implies each of theirs, and with it all theorems about them |

A theorem that has no run beside it (the `TypeCorrect` of `DeltaRelayProofs`, `MembershipProofs` and `TunnelProofs`, `StoreInvariant`,
`AnsweredChangesSurvive`, `NothingStray`, `WatermarkOnlyGrows`, `WatermarkIsHonest`,
`JsonNeverTwice`, `NoEntryIsLeft` and others) was checked by TLC before
it was proved, and so were the inductive invariants; the runs keep what is left to
them, or what a mutant of the code should be seen to break.

Every invariant and every action property that a passing run checks, and both
refinements, are proved. Only model-checked is liveness, since fairness and
`ENABLED` are beyond the prover: `EveryDeltaLeaves`, `EveryCallReturns`,
`ShutdownCompletes`, `SessionsEnd`, `VisitorsLeave`, `HandlersEnd`, `RevokedSocketsClose`,
`TierConverges`, `EverySignalLeaves`. The violations are counterexamples of TLC and
need no proof. What a fold or a recursive function computes for every input would
need induction over data; no theorem rests on such a fact.

## Where the code and its comments disagree

Two statements have a run of their own, which TLC must find violated; they are
`findings` in `PROJECT.json`:

| Run | Statement | What happens |
|---|---|---|
| `store_v_deadlock` | `db.go:172`: `save` is called without the lock | `AckDelta`, `RemoveProjectMember`, `UpdateProjectToken` and `DowngradeUserTier` call it with the lock and never return |
| `members_v_cap` | `db.go:602`: the cap is enforced atomically in both modes | on PostgreSQL two joins count before either inserts |

The modules state more that the code does not keep. Each line is reproduced by
copying the configuration named, making the changes, replacing its properties
by the one named, and dropping `SYMMETRY`:

| Property | Configuration and changes | Statement | What happens |
|---|---|---|---|
| `PurgedOnlyWhenAllAcked` | `relay_acks`: `OrphanAge = 3`, `MaxFaults = 0` | `db.go:745`: removed "once every current project member has acked" | numbers are compared, and acks of departed members count (`postgres_methods.go:774`) |
| `SweepPurgeIsFlagged` | `relay_gap`: `Sweepers = {"hourly"}`, `PageLimit = 3`, `MaxInFlight = 1`, `MaxTime = 3` | `project.go:509`: a pull older than a purge is flagged | the first two statements of the sweep write no watermark (`postgres_methods.go:841`) |
| `ExpiryIsFlagged` | `relay_gap`: `Sweepers = {"forced"}`, `PageLimit = 3`, `MaxInFlight = 1`, `MaxTime = 3` | `postgres_methods.go:873`: cutoffs are recorded so that pulls detect the gap | a pull between `DELETE` and watermark is not flagged (`:894`) |
| `AckPurgeAlwaysFlagged` | `relay_gap`: `PageLimit = 3`, `MaxInFlight = 1`, `MaxFaults = 1` | `project.go:511`: the flag prevents a silent skip | a failing watermark query is ignored (`project.go:517`) |
| `NothingArrivesBehindACursor` | `relay_gap`: `Deltas <- MCDeltas2`, `PageLimit = 2` | `project.go:524`: a cursor drains the backlog without gaps | a delta becomes visible behind a cursor (`postgres_methods.go:735`) |
| `OrphansNeverHadADelta` | `relay_live`: `SPECIFICATION Spec`, `TTL = 0`, `MaxFaults = 0` | `db.go:925`: orphans are projects that were never initialised | so is a project whose deltas were all delivered (`postgres_methods.go:956`) |
| `FinalSaveCoversAll` | `store`: `SPECIFICATION Spec`, `Untracked <- MCUntracked`, `Methods <- MethodsFew` | `db.go:120`: the final save persists all modifications | requests in flight change the data after it (`main.go:318`) |
| `SweepCleansUp` | `tunnel_live`: `Sessions <- OneSession` | `tunnel.go:228`: expired sessions are cleaned up | the handshake is written outside `connMu`; a write that meets it panics with the mutex locked (`:302`) |
| `SweepNeedsNoAgent` | `tunnel_live`: `Sessions <- OneSession`, `SPECIFICATION StallSpec` | `tunnel.go:249`: a clean-up every 15 seconds | one agent that does not read stops it (`:512`) |
| `ExtendOnlyAdds` | `tunnel_safe`: `Durations = {2}`, `Extensions = {1}`, `MaxDuration = 2`, `MaxLife = 2`, `Half = 4`, `MaxTime = 3` | `tunnel.go:154`: an extension adds time | it counts from now and may take time away (`:169`) |
| `ExtendNeverEnds` | `tunnel_safe` | `tunnel.go:154`: an extension adds time | a large number of minutes overflows to a negative duration, and the session ends at once (`:170`) |
| `EndedHasNoAgent` | `tunnel_safe` | `tunnel.go:183`: closing terminates the session | an agent may attach afterwards (`:296`) |
| `OwnedWithinCap` | `members_v_cap`: `Projects <- TwoProjects` | `project.go:98`: the project cap counts owned projects | two requests count before either creates, and a count that fails is 0 (`:100`) |
| `OwnerStays` | `members_v_cap` | `project.go:476`: "owners cannot leave; delete the project instead" | a failed query lets the owner leave (`postgres_methods.go:1133`) |
| `LatestTokenHolds` | `members_v_cap` | `project.go:300`: "ask the owner to rotate the project token" | a rename that is under way undoes the rotation (`:391`) |
| `OnlyTheLapsedAreDowngraded` | `services` | `main.go:136`: "Downgrading expired/inactive user" | so is who pays, when the lookup fails (`:126`) or an error has one of three words in it (`:135`) |
| `FetchedOnce` | `services` | `signaling.go:139`: cleared immediately after fetching | on PostgreSQL two polls answer with the same signal (`postgres_methods.go:1255`) |
| `ReadersReceive` | `hub_live`: `Sends <- OneSend`, `Fickle <- NoUsers` | `signaling.go:79`: pushed to the WebSocket if the recipient is connected | a device waits for ever behind another that does not read (`hub.go:255`) |

Further differences are visible in the modules without a property of their own:

- `db.go:1076` says that the heartbeat sweep marks all users offline; it marks the
  silent ones (`TooSilent`). A new user is online with no `last_seen`, and is
  therefore taken offline by the next sweep unless a heartbeat comes first.
- `db.go:1453` says that a purge clears both PostgreSQL and the local store; with
  PostgreSQL the file is not written (`Truncate`), so a later start that falls back
  to it finds the old data.
- `secrets.go:14` says that secrets are in the kv table; they are in the table
  `secrets`, and no purge removes them.
- A start that falls back to the JSON file serves other data, and another secret,
  than the last one (`FallBack`); nothing brings the two together again.
- The error of the migration is ignored (`postgres.go:60`). If a user logs in before
  a later start repeats it, that start finds users and never migrates
  (`MigrationFails`, then `Register`).
- Tasks of calls that raced with a project's deletion, and its activity log, stay
  in the JSON file.
- A sweep of licences that finds an old lapsed key of a user who has bought another
  downgrades that user until the next login, as no key is ever deleted from
  `license_index` (`FindKey`).
- `GetProfile` overwrites a display name that `UpdateProfile` has set with the
  website's, since both write the same column.

## Assumptions and abstractions

- A chat message's time and its insertion are one step. A message of exactly the
  age `Keep` is kept by PostgreSQL and removed by the JSON store; the model keeps
  it, a difference of one instant. Project channels take an offset from the
  client, direct messages do not, and the model is of the latter.
- `Accounts` is about PostgreSQL: in the JSON store a downgrade never returns
  (`store_v_deadlock`). The website may answer anything for a key at any time.
- In `Friends` the users exist; in `Startup` users stand for all data, and the
  environment variables that override a secret are not set.
- PostgreSQL runs at READ COMMITTED: a statement sees what was committed when it
  began, waits for row locks, and is one step. A deadlock victim is a handler
  that fails. Two statements are merged where nothing can change between them
  that either reads (a membership check and the stamp of a push, the owner's
  identity and the tier).
- In memory, a critical section without I/O is one step.
- A crash is the end of the process. The rename of a file is atomic and lasts;
  power failures and a missing directory sync are left out.
- The WebSocket library panics when two writes on one connection overlap, and
  reads, writes and closing fail as documented otherwise. The router's recovery
  middleware (`main.go:163`) catches a handler's panic and its deferred calls run.
- Go may notice that a map is written while it is iterated and then ends the
  process; if it does not, an entry deleted is not visited and one added may be.
  A room that becomes empty and is made anew counts as the same map.
- In the hub, connection identities are unique (user and remote address), and
  clients address users, whose identities they know, not connections. Messages
  differ only in whom they are for; pings and incomplete messages change nothing.
- A visitor's two reads of `session.conn` (`tunnel.go:372`, `455`) are one.
- `UpdateProject` with a token in the request has the effect of `UpdateToken` on
  what the properties are about, and is the same action. In JSON mode
  `RemoveProjectMember` never returns (`store_v_deadlock`), so `Leave` is in PostgreSQL
  mode only; `UpdateProjectToken` does not return either, but `Update` with a token
  does, so `UpdateToken` is in both modes.
- `Presence` has no sweep that fails (`postgres_methods.go:414`), in addition to its
  assumption that the ticker fires in time.
- The signals of a project go with it (`postgres.go:197`, `db.go:1337-1343`);
  `Mailbox` is about a project that stays.
- The deltas' and signals' contents are opaque, as they are to the server.

## What is not modelled

Tunnel pages and HTML rewriting are text. The logger's error reports go out in
goroutines that nothing waits for or depends on. Profile edits, public keys,
searches, `UpdateMemberPath` and the log entries of pushed deltas are single
statements that no other state depends on; the lists, statistics and pages are
reads. Authentication is a pure function of a token, and configuration is read once. Of
the administration, `PurgeData` deletes every project at once and, for the relay of
one project, is its `DeleteProject`. The ten seconds that `srv.Shutdown` gives to
requests are left out, since `main` does not wait for them.

## Plan

Done in this order: `DeltaRelay` with its proofs, `StoreContract` and `JsonStore`
with theirs, `Tunnel`, `Membership` with proofs, `Mailbox` with proofs, `Hub`; then
`RateLimiter`, `Friends`, `Accounts`, `Presence` with proofs, and `Chat`, `Workspace`,
`Startup`; then the proofs about `Hub`, `Tunnel`, `Chat`, `Workspace`, `Startup`, the
components side by side, and `RelayContract` with its refinement.

What is left, most important first:

1. `Signalling`: `Mailbox` and `Hub` composed over one signal, against an abstract
   promise that a signal reaches its recipient at least once or expires.
2. An abstract roster that `Membership` implements, with the ghosts of the JSON
   store as a step of their own.
3. `RelayContract` with readers: a cursor passes a delivered entry only with a
   flag, which is now the invariant `AckPurgeIsFlagged`.
