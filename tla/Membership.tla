------------------------------ MODULE Membership ------------------------------
(***************************************************************************)
(* The projects of one owner, who is in them, the caps of the owner's      *)
(* licence tier and the project token that joining requires.               *)
(*                                                                         *)
(* A handler checks first and acts later: its checks are reads of their    *)
(* own, so other handlers change what it read before it acts.  `mode` says *)
(* where the data is: in PostgreSQL ("pg"), where each statement is a step *)
(* also inside the READ COMMITTED transaction of inviteMemberWithLimit,    *)
(* or in the JSON store ("json"), where a method of DB is a step.          *)
(***************************************************************************)
EXTENDS Integers, FiniteSets

CONSTANTS
  Users,        \* the owner and everybody who may join
  Owner,
  Projects,     \* the identities that projects may get
  Tokens,       \* project tokens (orbit-sec-...)
  Requests,     \* handlers in progress, each for one request
  None,         \* no user, no project, no token
  Modes,        \* where the server may keep its data: "pg", "json"
  Tiers,        \* the licence tiers the owner may have in the run
  FreeMembers, ProMembers,   \* 3 and 11, the owner included
  FreeProjects, ProProjects  \* 1 and 10

ASSUME NamesAssumption ==
  /\ IsFiniteSet(Users)
  /\ Owner \in Users
  /\ None \notin Users \cup Projects \cup Tokens

ASSUME ModeAssumption ==
  /\ Modes \subseteq {"pg", "json"}
  /\ Tiers \subseteq {"free", "pro", "enterprise"} /\ Tiers # {}

ASSUME CapsAssumption == {FreeMembers, ProMembers, FreeProjects, ProProjects} \subseteq Nat \ {0}

NoCap == -1
MaxMembers  == [free |-> FreeMembers, pro |-> ProMembers, enterprise |-> NoCap]
MaxProjects == [free |-> FreeProjects, pro |-> ProProjects, enterprise |-> NoCap]

VARIABLES
  mode,     \* where the data is, decided at start
  projects, \* the projects there are
  members,  \* their rows in project_members
  crowned,  \* those in which the owner's row has the role "owner"
  token,    \* their project_token
  issued,   \* project identities that were ever in use
  tier,     \* the owner's plan_tier
  stage,    \* what the handler of a request does next
  user,     \* whom it lets in
  project,  \* the project it is about
  cap,      \* the member cap it found
  kept,     \* the token that a rename read, to write it back
  rivals,   \* history: who came in since its count
  unread,   \* history: projects that let their owner go, see LeaveUnread
  wanted,   \* history: the token the owner last asked for
  raced     \* history: a rename with another one was under way then

rows    == <<projects, members, crowned, token, issued>>
locals  == <<user, project, cap, kept>>
asked   == <<wanted, raced>>
history == <<rivals, unread, asked>>
vars    == <<mode, rows, tier, stage, locals, history>>

Stages == {"new", "verified", "capped", "counted", "mayCreate", "renaming", "over"}

TypeOK ==
  /\ mode \in {"pg", "json"}
  /\ projects \subseteq Projects
  /\ members \in [Projects -> SUBSET Users]
  /\ crowned \subseteq Projects
  /\ token \in [Projects -> Tokens \cup {None}]
  /\ issued \subseteq Projects
  /\ tier \in Tiers
  /\ stage \in [Requests -> Stages]
  /\ user \in [Requests -> Users \cup {None}]
  /\ project \in [Requests -> Projects \cup {None}]
  /\ cap \in [Requests -> Int]
  /\ kept \in [Requests -> Tokens \cup {None}]
  /\ rivals \in [Requests -> SUBSET Users]
  /\ unread \subseteq Projects
  /\ wanted \in [Projects -> Tokens \cup {None}]
  /\ raced \in [Projects -> BOOLEAN]

Init ==
  /\ mode \in Modes
  /\ projects = {} /\ crowned = {} /\ issued = {}
  /\ members = [p \in Projects |-> {}]
  /\ token = [p \in Projects |-> None]
  /\ tier \in Tiers
  /\ stage = [r \in Requests |-> "new"]
  /\ user = [r \in Requests |-> None] /\ project = [r \in Requests |-> None]
  /\ cap = [r \in Requests |-> 0] /\ kept = [r \in Requests |-> None]
  /\ rivals = [r \in Requests |-> {}]
  /\ unread = {}
  /\ wanted = [p \in Projects |-> None] /\ raced = [p \in Projects |-> FALSE]

Go(r, s) == stage' = [stage EXCEPT ![r] = s]

\* The handler answers; its local variables are gone.
Over(r) ==
  /\ Go(r, "over")
  /\ user' = [user EXCEPT ![r] = None] /\ project' = [project EXCEPT ![r] = None]
  /\ cap' = [cap EXCEPT ![r] = 0] /\ kept' = [kept EXCEPT ![r] = None]

\* A query in PostgreSQL may fail, and some handlers take that for an answer:
\* IsProjectMember and IsProjectOwner are then false, and a count is 0.
MayFail == mode = "pg"

\* u joins p as a member, if u is none yet; whoever has counted and not
\* inserted gets a rival then.
Enter(u, p) ==
  /\ members' = [members EXCEPT ![p] = @ \cup {u}]
  /\ rivals' = [q \in Requests |->
       IF stage[q] = "counted" /\ project[q] = p /\ u \notin members[p]
         THEN rivals[q] \cup {u} ELSE rivals[q]]

\* The owner sends the token t for p.
Ask(p, t) ==
  /\ wanted' = [wanted EXCEPT ![p] = t]
  /\ raced' = [raced EXCEPT ![p] =
       \E r \in Requests : stage[r] = "renaming" /\ project[r] = p /\ kept[r] # t]

MutWithin(n, max) == max = NoCap \/ n <= max  \* a mutant: off by one
Within(n, max) == max = NoCap \/ n < max
Owned == projects  \* all of them have the same owner

\* More mutants: the bugs that the properties would catch.
MutAccepts(p) == TRUE  \* a table without the foreign key
MutLeave(u, p) ==  \* owners may leave
  /\ mode = "pg"
  /\ u \in members[p]
  /\ members' = [members EXCEPT ![p] = @ \ {u}]
  /\ crowned' = IF u = Owner THEN crowned \ {p} ELSE crowned
  /\ UNCHANGED <<mode, projects, token, issued, tier, stage, locals, history>>
MutUpdateToken(p, t) ==  \* changes the copy that GetProject has returned
  /\ p \in projects
  /\ Ask(p, t)
  /\ UNCHANGED <<mode, rows, tier, stage, locals, rivals, unread>>
-----------------------------------------------------------------------------
(* Create: the cap on owned projects is checked, then the project created. *)

CheckOwned(r) ==
  /\ stage[r] = "new"
  /\ \E n \in {Cardinality(Owned)} \cup (IF MayFail THEN {0} ELSE {}) :
       IF Within(n, MaxProjects[tier])
         THEN Go(r, "mayCreate") /\ UNCHANGED locals
         ELSE Over(r)
  /\ UNCHANGED <<mode, rows, tier, history>>

\* The identity is new; the token is the client's, or a random one.
CreateProject(r) ==
  /\ stage[r] = "mayCreate"
  /\ \E p \in Projects \ issued, t \in Tokens :
       /\ projects' = projects \cup {p}
       /\ members' = [members EXCEPT ![p] = {Owner}]
       /\ crowned' = crowned \cup {p}
       /\ token' = [token EXCEPT ![p] = t]
       /\ issued' = issued \cup {p}
       /\ Ask(p, t)
  /\ Over(r)
  /\ UNCHANGED <<mode, tier, rivals, unread>>

-----------------------------------------------------------------------------
(* Invite, JoinByToken and JoinProject *)

\* The owner invites, or somebody comes with an invite token (which is derived
\* from the project and does not change): the project is there.
Invited(r, u, p) ==
  /\ stage[r] = "new"
  /\ p \in projects
  /\ Go(r, "verified")
  /\ user' = [user EXCEPT ![r] = u]
  /\ project' = [project EXCEPT ![r] = p]
  /\ UNCHANGED <<mode, rows, tier, cap, kept, history>>

\* JoinProject: somebody presents a token, which must be the project's.
PresentToken(r, u, p, t) == t = token[p] /\ Invited(r, u, p)

\* Already a member; or the cap of the tier the owner has now.
FindCap(r) ==
  /\ stage[r] = "verified"
  /\ \/ user[r] \in members[project[r]] /\ Over(r)
     \/ /\ user[r] \notin members[project[r]] \/ MayFail
        /\ Go(r, "capped")
        /\ cap' = [cap EXCEPT ![r] = MaxMembers[tier]]
        /\ UNCHANGED <<user, project, kept>>
  /\ UNCHANGED <<mode, rows, tier, history>>

\* The INSERT; the foreign key refuses a project that is gone, the JSON store
\* does not look.
Accepts(p) == mode = "json" \/ p \in projects

Insert(r) ==
  /\ IF Accepts(project[r]) THEN Enter(user[r], project[r]) ELSE UNCHANGED <<members, rivals>>
  /\ Over(r)
  /\ UNCHANGED <<mode, projects, crowned, token, issued, tier, unread, asked>>

\* InviteMember, for tiers without a cap
InviteMember(r) ==
  /\ stage[r] = "capped" /\ cap[r] = NoCap
  /\ Insert(r)

Room(r) == Within(Cardinality(members[project[r]]), cap[r])

\* inviteMemberJSON with a limit: check and append under one lock.
InviteLimitedJson(r) ==
  /\ mode = "json"
  /\ stage[r] = "capped" /\ cap[r] # NoCap
  /\ IF user[r] \in members[project[r]] \/ ~Room(r)
       THEN Over(r) /\ UNCHANGED <<mode, rows, tier, history>>
       ELSE Insert(r)

\* inviteMemberWithLimit: SELECT EXISTS and SELECT COUNT ...
CountMembers(r) ==
  /\ mode = "pg"
  /\ stage[r] = "capped" /\ cap[r] # NoCap
  /\ IF user[r] \in members[project[r]] \/ ~Room(r)
       THEN Over(r)
       ELSE Go(r, "counted") /\ UNCHANGED locals
  /\ rivals' = [rivals EXCEPT ![r] = {}]
  /\ UNCHANGED <<mode, rows, tier, unread, asked>>

\* ... and INSERT ON CONFLICT DO NOTHING.
InsertCounted(r) ==
  /\ stage[r] = "counted"
  /\ Insert(r)

-----------------------------------------------------------------------------
(* RemoveMember and LeaveProject, DeleteProject, tokens and tiers.  The     *)
(* owner's handlers look whether their caller is the owner and act later,   *)
(* possibly when that is no longer so.  In JSON mode RemoveProjectMember    *)
(* and UpdateProjectToken never return: see JsonStore.                      *)

\* A member leaves or is removed.  Who leaves must not have the role "owner".
Leave(u, p) ==
  /\ mode = "pg"
  /\ u \in members[p]
  /\ u = Owner => p \notin crowned
  /\ members' = [members EXCEPT ![p] = @ \ {u}]
  /\ UNCHANGED <<mode, projects, crowned, token, issued, tier, stage, locals, history>>

\* The owner asks to leave, the query of isProjectOwner fails, and the owner's
\* row is removed as a member's would be.
LeaveUnread(p) ==
  /\ MayFail
  /\ p \in crowned
  /\ members' = [members EXCEPT ![p] = @ \ {Owner}]
  /\ crowned' = crowned \ {p}
  /\ unread' = unread \cup {p}
  /\ UNCHANGED <<mode, projects, token, issued, tier, stage, locals, rivals, asked>>

\* By the owner, once or twice, or by the sweep of projects without deltas.
DeleteProject(p) ==
  /\ p \in issued
  /\ projects' = projects \ {p}
  /\ members' = [members EXCEPT ![p] = {}]
  /\ crowned' = crowned \ {p}
  /\ token' = [token EXCEPT ![p] = None]
  /\ UNCHANGED <<mode, issued, tier, stage, locals, history>>

\* UpdateToken, or Update with a token in the request: whatever the owner sends.
UpdateToken(p, t) ==
  /\ p \in projects
  /\ token' = [token EXCEPT ![p] = t]
  /\ Ask(p, t)
  /\ UNCHANGED <<mode, projects, members, crowned, issued, tier, stage, locals, rivals, unread>>

\* Update without a token of its own: GetProject ...
ReadForRename(r, p) ==
  /\ stage[r] = "new"
  /\ p \in projects
  /\ Go(r, "renaming")
  /\ project' = [project EXCEPT ![r] = p]
  /\ kept' = [kept EXCEPT ![r] = token[p]]
  /\ UNCHANGED <<mode, rows, tier, user, cap, history>>

\* ... and UpdateProject, which writes the name and the token it has read.
WriteRename(r) ==
  /\ stage[r] = "renaming"
  /\ token' = IF project[r] \in projects THEN [token EXCEPT ![project[r]] = kept[r]] ELSE token
  /\ Over(r)
  /\ UNCHANGED <<mode, projects, members, crowned, issued, tier, history>>

\* A login or the licence sweeper.
ChangeTier ==
  /\ tier' \in Tiers \ {tier}
  /\ UNCHANGED <<mode, rows, stage, locals, history>>

\* A query whose error is not ignored fails: the handler answers 500, and what
\* its transaction has done is rolled back.
QueryFails(r) ==
  /\ MayFail
  /\ stage[r] \notin {"new", "over"}
  /\ Over(r)
  /\ UNCHANGED <<mode, rows, tier, history>>

-----------------------------------------------------------------------------

Join(r) ==
  \/ FindCap(r) \/ InviteMember(r) \/ InviteLimitedJson(r)
  \/ CountMembers(r) \/ InsertCounted(r) \/ QueryFails(r)

Next ==
  \/ \E r \in Requests :
       \/ CheckOwned(r) \/ CreateProject(r) \/ Join(r) \/ WriteRename(r)
       \/ \E p \in Projects : ReadForRename(r, p)
       \/ \E u \in Users, p \in Projects :
            Invited(r, u, p) \/ \E t \in Tokens : PresentToken(r, u, p, t)
  \/ \E p \in Projects :
       \/ DeleteProject(p) \/ LeaveUnread(p)
       \/ \E t \in Tokens : UpdateToken(p, t)
       \/ \E u \in Users : Leave(u, p)
  \/ ChangeTier

Spec == Init /\ [][Next]_vars

-----------------------------------------------------------------------------
(* Properties *)

\* A limited join of the handler r takes effect in this step.
JoinsNow(r) ==
  /\ stage[r] \in {"capped", "counted"} /\ cap[r] # NoCap
  /\ stage'[r] = "over"
  /\ user[r] \in members'[project[r]] \ members[project[r]]

\* "InviteMemberWithLimit enforces the tier's member cap atomically (both PG
\* and JSON modes)" (db.go:602): no join takes a project above the cap.
JoinRespectsCap ==
  [][\A r \in Requests : JoinsNow(r) =>
       Cardinality(members'[project[r]]) <= cap[r]]_vars

\* In PostgreSQL a join goes above the cap only by as many members as came in
\* between its count and its insert (postgres_methods.go:656-662).
OvershootIsARace ==
  [][\A r \in Requests : JoinsNow(r) =>
       Cardinality(members'[project[r]]) <= cap[r] + Cardinality(rivals[r])]_vars

\* In PostgreSQL nobody is a member of a project that is not there, however
\* the checks of a join and the deletion interleave (postgres.go:133).
NoGhostMember == mode = "pg" => \A p \in Projects : members[p] # {} => p \in projects

\* A project keeps its owner, and the owner the rights of one, whoever leaves,
\* is removed and returns, unless the server failed to read that it is the owner
\* who leaves and let it (project.go:475).
OwnerKept == \A p \in projects \ unread : p \in crowned /\ Owner \in members[p]

\* Both: no project is left that nobody may delete but for that failure, and in
\* PostgreSQL no member is left that belongs to no project (postgres.go:133).
RosterIsSound == NoGhostMember /\ OwnerKept

\* A project has the token that its owner asked for last, unless a rename that
\* had read another one was under way when the owner asked, which writes that
\* other one back (project.go:387-391).
TokenIsWanted == \A p \in projects : token[p] = wanted[p] \/ raced[p]

\* "The project cap counts owned projects" (project.go:98): while the tier
\* stays the same, nobody owns more than it allows.
OwnedWithinCap == MaxProjects[tier] # NoCap => Cardinality(Owned) <= MaxProjects[tier]

\* "owners cannot leave; delete the project instead" (project.go:476).
OwnerStays == \A p \in projects : Owner \in members[p]

\* "ask the owner to rotate the project token" (project.go:300): joining needs
\* the token that the owner asked for last.
LatestTokenHolds == \A p \in projects : token[p] = wanted[p]
=============================================================================
