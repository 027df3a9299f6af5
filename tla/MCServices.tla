------------------------------ MODULE MCServices ------------------------------
(***************************************************************************)
(* One instance of the components that share no state with each other: the *)
(* rate limiter, friends, one user's account, presence, a channel of       *)
(* direct messages, a project's tasks, restarts, and the signal mailbox.   *)
(* A behaviour of the server is one behaviour of each of them, in any      *)
(* interleaving, and no property is about two of them: TLC explores each   *)
(* one with the others at rest.                                            *)
(***************************************************************************)
EXTENDS RateLimiter, Friends, Accounts, Presence, Chat, Workspace, Startup, Mailbox

CONSTANTS alice, bob, carol

\* A full bucket is earned in less than StaleAge by "write" and in more by
\* "auth_user".
BucketSizes == [c \in Categories |-> IF c = "write" THEN 2 ELSE 3]

ThreeUsers == {alice, bob, carol}
TwoPeers   == {alice, bob}

VARIABLE part  \* the component that runs

Parts == {"limiter", "friends", "accounts", "presence", "chat", "tasks", "startup", "mailbox"}

partVars == <<part, limiterVars, friendsVars, accountVars, presenceVars, chatVars,
              workspaceVars, startupVars, vars>>

\* Those at rest are in one initial state.
AtRest ==
  /\ part # "limiter" => from = 0 /\ watched = <<"write", alice>>
  /\ part # "friends" => db = "pg"
  /\ part # "accounts" => \A k \in LicenseKeys : verdict[k] = "pro"
  /\ part # "tasks" => backend = "pg"
  /\ part # "startup" => url
  /\ part # "mailbox" => mode = "pg"

ServicesInit ==
  /\ part \in Parts
  /\ LimiterInit /\ FriendsInit /\ AccountsInit /\ PresenceInit
  /\ ChatInit /\ WorkspaceInit /\ StartupInit /\ Init
  /\ AtRest

Limiter  == part = "limiter" /\ LimiterNext
            /\ UNCHANGED <<part, friendsVars, accountVars, presenceVars, chatVars, workspaceVars, startupVars, vars>>
Friend   == part = "friends" /\ FriendsNext
            /\ UNCHANGED <<part, limiterVars, accountVars, presenceVars, chatVars, workspaceVars, startupVars, vars>>
Account  == part = "accounts" /\ AccountsNext
            /\ UNCHANGED <<part, limiterVars, friendsVars, presenceVars, chatVars, workspaceVars, startupVars, vars>>
Present  == part = "presence" /\ PresenceNext
            /\ UNCHANGED <<part, limiterVars, friendsVars, accountVars, chatVars, workspaceVars, startupVars, vars>>
Channel  == part = "chat" /\ ChatNext
            /\ UNCHANGED <<part, limiterVars, friendsVars, accountVars, presenceVars, workspaceVars, startupVars, vars>>
Project  == part = "tasks" /\ WorkspaceNext
            /\ UNCHANGED <<part, limiterVars, friendsVars, accountVars, presenceVars, chatVars, startupVars, vars>>
Restart  == part = "startup" /\ StartupNext
            /\ UNCHANGED <<part, limiterVars, friendsVars, accountVars, presenceVars, chatVars, workspaceVars, vars>>
Signal   == part = "mailbox" /\ Next
            /\ UNCHANGED <<part, limiterVars, friendsVars, accountVars, presenceVars, chatVars, workspaceVars, startupVars>>

ServicesNext == Limiter \/ Friend \/ Account \/ Present \/ Channel \/ Project \/ Restart \/ Signal

\* The fairness of AccountsLiveSpec and of the mailbox's LiveSpec, for the part
\* that runs.
ServicesSpec ==
  /\ ServicesInit /\ [][ServicesNext]_partVars
  /\ WF_accountVars(part = "accounts" /\ SweeperRuns)
  /\ WF_vars(part = "mailbox" /\ Tick)
  /\ WF_vars(part = "mailbox" /\ SweepExpiredSignals)

-----------------------------------------------------------------------------

\* The types of all the parts, those at rest among them.
ServicesTypeOK ==
  /\ part \in Parts
  /\ LimiterTypeOK /\ FriendsTypeOK /\ AccountsTypeOK /\ PresenceTypeOK
  /\ ChatTypeOK /\ WorkspaceTypeOK /\ StartupTypeOK /\ TypeOK
=============================================================================
