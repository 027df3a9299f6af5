-------------------------------- MODULE Startup --------------------------------
(***************************************************************************)
(* What a restart finds: which store the server opens, the migration of a  *)
(* legacy kv table into the tables, the secret that signs sessions, and    *)
(* the administrator's purge, which a crash or a failure may leave half    *)
(* done.  Users stand for all the data; that a change of the JSON file is  *)
(* saved before it is answered is JsonStore's subject.                     *)
(***************************************************************************)
EXTENDS Integers

CONSTANTS
  People,     \* users
  Legacy,     \* those that an older version left in the kv table
  MaxStarts,  \* bound: starts of the process
  MaxFaults   \* bound: failures of the database or the disk

ASSUME StartupAssumption ==
  /\ Legacy \subseteq People
  /\ MaxStarts \in Nat /\ MaxFaults \in Nat

StoreNames == {"tables", "file"}

VARIABLES
  url,        \* DATABASE_URL is set
  phase,      \* how far the process is
  open,       \* the store that it opened
  kv,         \* users of the kv table
  data,       \* users of each store
  saved,      \* the secret that each store has, 0 if none
  secret,     \* the secret of this process, 0 before it has one
  purging,    \* a purge has truncated the tables and not yet cleared kv
  starts, faults, \* how many of these there were
  made,       \* history: random secrets made so far
  first,      \* history: the first secret used with a store
  unsaved,    \* history: a secret could not be read or stored
  halfPurged, \* history: a purge did not clear kv
  purged      \* history: users purged from a store and not registered since

storeVars   == <<kv, data, saved>>
restartVars == <<made, first, unsaved, halfPurged, purged>>
startupVars == <<url, phase, open, storeVars, secret, purging, starts, faults, restartVars>>

StartupTypeOK ==
  /\ url \in BOOLEAN
  /\ phase \in {"down", "connected", "loaded", "up"}
  /\ open \in StoreNames
  /\ kv \subseteq Legacy
  /\ data \in [StoreNames -> SUBSET People]
  /\ saved \in [StoreNames -> Nat] /\ first \in [StoreNames -> Nat]
  /\ secret \in Nat /\ made \in Nat
  /\ phase = "up" <=> secret # 0
  /\ purging \in BOOLEAN
  /\ purging => phase = "up" /\ open = "tables"
  /\ ~url => data["tables"] = {} /\ open = "file"
  /\ starts \in 0 .. MaxStarts /\ faults \in 0 .. MaxFaults
  /\ unsaved \in BOOLEAN /\ halfPurged \in BOOLEAN
  /\ purged \in [StoreNames -> SUBSET People]

StartupInit ==
  /\ url \in BOOLEAN
  /\ phase = "down" /\ open = "file"
  /\ kv = IF url THEN Legacy ELSE {}
  /\ data = [s \in StoreNames |-> {}]
  /\ saved = [s \in StoreNames |-> 0]
  /\ secret = 0 /\ purging = FALSE
  /\ starts = 0 /\ faults = 0
  /\ made = 0 /\ first = [s \in StoreNames |-> 0]
  /\ unsaved = FALSE /\ halfPurged = FALSE
  /\ purged = [s \in StoreNames |-> {}]

Fault == faults < MaxFaults /\ faults' = faults + 1

\* Mutants: the bugs that the properties would catch.
MutSave(s) == saved  \* the new secret stays in memory
MutClearKv ==  \* the names of the keys are others
  /\ purging
  /\ purging' = FALSE
  /\ UNCHANGED <<url, phase, open, storeVars, secret, starts, faults, restartVars>>
MutCrash ==  \* a session's secret outlives the process
  /\ phase # "down"
  /\ phase' = "down"
  /\ purging' = FALSE
  /\ halfPurged' = (halfPurged \/ purging)
  /\ UNCHANGED <<url, open, storeVars, secret, starts, faults, made, first, unsaved, purged>>

-----------------------------------------------------------------------------
(* repository.New and GetOrCreateSecret *)

Start(s, p) ==
  /\ phase = "down"
  /\ starts < MaxStarts
  /\ starts' = starts + 1
  /\ open' = s
  /\ phase' = p
  /\ UNCHANGED <<url, storeVars, secret, purging, restartVars>>

\* newPgStore.
StartPg == url /\ Start("tables", "connected") /\ UNCHANGED faults

\* The JSON file: without a database, or when it cannot be reached.
StartJson == ~url /\ Start("file", "loaded") /\ UNCHANGED faults
FallBack  == url /\ Fault /\ Start("file", "loaded")

\* migrateLegacyKV, in one transaction ...
NothingToMigrate == data["tables"] # {} \/ kv = {}

Migrate ==
  /\ phase = "connected"
  /\ phase' = "loaded"
  /\ IF NothingToMigrate
       THEN UNCHANGED data
       ELSE data' = [data EXCEPT !["tables"] = kv]
  /\ UNCHANGED <<url, open, kv, saved, secret, purging, starts, faults, made, first,
                 unsaved, halfPurged, purged>>

\* ... whose failure does not stop the server.
MigrationFails ==
  /\ phase = "connected"
  /\ Fault
  /\ phase' = "loaded"
  /\ UNCHANGED <<url, open, storeVars, secret, purging, starts, made, first,
                 unsaved, halfPurged, purged>>

Serve(v) ==
  /\ phase' = "up"
  /\ secret' = v
  /\ first' = IF first[open] = 0 THEN [first EXCEPT ![open] = v] ELSE first

SecretFound ==
  /\ phase = "loaded"
  /\ saved[open] # 0
  /\ Serve(saved[open])
  /\ UNCHANGED <<url, open, storeVars, purging, starts, faults, made, unsaved,
                 halfPurged, purged>>

Save(s) == [saved EXCEPT ![s] = made + 1]

SecretMade ==
  /\ phase = "loaded"
  /\ saved[open] = 0
  /\ Serve(made + 1)
  /\ made' = made + 1
  /\ saved' = Save(open)
  /\ UNCHANGED <<url, open, kv, data, purging, starts, faults, unsaved, halfPurged, purged>>

\* Reading or storing fails: a random secret that only this process knows; or
\* one that replaces a file that could not be read.
SecretFails ==
  /\ phase = "loaded"
  /\ Fault
  /\ Serve(made + 1)
  /\ made' = made + 1
  /\ unsaved' = TRUE
  /\ saved' = saved \/ (open = "file" /\ saved' = Save(open))
  /\ UNCHANGED <<url, open, kv, data, purging, starts, halfPurged, purged>>

-----------------------------------------------------------------------------

\* A login inserts its user's row.
Register(u) ==
  /\ phase = "up"
  /\ u \notin data[open]
  /\ data' = [data EXCEPT ![open] = @ \cup {u}]
  /\ purged' = [purged EXCEPT ![open] = @ \ {u}]
  /\ UNCHANGED <<url, phase, open, kv, saved, secret, purging, starts, faults, made,
                 first, unsaved, halfPurged>>

\* PurgeData with the JSON file ...
PurgeFile ==
  /\ phase = "up" /\ open = "file"
  /\ data' = [data EXCEPT !["file"] = {}]
  /\ purged' = [purged EXCEPT !["file"] = @ \cup data["file"]]
  /\ UNCHANGED <<url, phase, open, kv, saved, secret, purging, starts, faults, made,
                 first, unsaved, halfPurged>>

\* ... and with PostgreSQL: TRUNCATE, and then the legacy rows.  The JSON file
\* stays: save writes nothing in this mode.
Truncate ==
  /\ phase = "up" /\ open = "tables" /\ ~purging
  /\ data' = [data EXCEPT !["tables"] = {}]
  /\ purged' = [purged EXCEPT !["tables"] = @ \cup data["tables"] \cup kv]
  /\ purging' = TRUE
  /\ UNCHANGED <<url, phase, open, kv, saved, secret, starts, faults, made,
                 first, unsaved, halfPurged>>

ClearKv ==
  /\ purging
  /\ kv' = {}
  /\ purging' = FALSE
  /\ UNCHANGED <<url, phase, open, data, saved, secret, starts, faults, restartVars>>

\* Its error is ignored, and the purge answers "success".
ClearKvFails ==
  /\ purging
  /\ Fault
  /\ halfPurged' = TRUE
  /\ purging' = FALSE
  /\ UNCHANGED <<url, phase, open, storeVars, secret, starts, made, first, unsaved, purged>>

\* The process dies, or is stopped.
Crash ==
  /\ phase # "down"
  /\ phase' = "down" /\ secret' = 0
  /\ purging' = FALSE
  /\ halfPurged' = (halfPurged \/ purging)
  /\ UNCHANGED <<url, open, storeVars, starts, faults, made, first, unsaved, purged>>

-----------------------------------------------------------------------------

StartupNext ==
  \/ StartPg \/ StartJson \/ FallBack
  \/ Migrate \/ MigrationFails
  \/ SecretFound \/ SecretMade \/ SecretFails
  \/ \E u \in People : Register(u)
  \/ PurgeFile \/ Truncate \/ ClearKv \/ ClearKvFails
  \/ Crash

StartupSpec == StartupInit /\ [][StartupNext]_startupVars

-----------------------------------------------------------------------------
(* Properties *)

\* Users that were purged from a store are not in it after any restarts, but
\* for those of a legacy table that the purge could not clear: the next start
\* finds no users and migrates them again (postgres_methods.go:1308-1318,
\* postgres_methods.go:20-27).
PurgedStayPurged ==
  \A s \in StoreNames : data[s] \cap purged[s] # {} => s = "tables" /\ halfPurged

\* Sessions survive restarts: with the same store the secret is always the one
\* that was first used, unless one could not be read or stored
\* (main.go:39-43, postgres.go:333-354).
SessionsSurvive == phase = "up" => secret = first[open] \/ unsaved
=============================================================================
