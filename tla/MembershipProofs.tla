--------------------------- MODULE MembershipProofs ---------------------------
(***************************************************************************)
(* Proofs about Membership, for any finite set of users, any projects,     *)
(* tokens and requests, any caps, and both storage modes.                  *)
(***************************************************************************)
EXTENDS Membership, FiniteSetTheorems, TLAPS

\* A handler that is past its first check knows whom it lets in and where, and
\* identities once in use are never given out again: a project that is created
\* is none that a handler in progress has looked at.
HandlersKnow ==
  /\ projects \subseteq issued
  /\ \A r \in Requests :
       /\ project[r] # None => project[r] \in issued
       /\ stage[r] \in {"verified", "capped", "counted"} =>
            user[r] \in Users /\ project[r] \in Projects

\* A project has a token, and so does a rename that is going to write one.
TokensKnown ==
  /\ \A p \in projects : token[p] \in Tokens
  /\ \A r \in Requests : stage[r] = "renaming" => kept[r] \in Tokens

\* A handler that has counted found room, and the members it did not see
\* coming are among its rivals.
CountStillHolds ==
  \A r \in Requests : stage[r] = "counted" =>
    /\ cap[r] # NoCap
    /\ Cardinality(members[project[r]] \ rivals[r]) < cap[r]

Ind == TypeOK /\ HandlersKnow /\ TokensKnown /\ CountStillHolds

LEMMA Caps ==
  ASSUME TypeOK
  PROVE  MaxMembers[tier] \in Int
  BY CapsAssumption, ModeAssumption DEF TypeOK, MaxMembers, NoCap

\* Sets of users are finite, and taking members away or adding rivals makes
\* the members that are no rivals fewer.
LEMMA SmallerSet ==
  ASSUME NEW A \in SUBSET Users, NEW B \in SUBSET A
  PROVE  /\ Cardinality(A) \in Nat /\ Cardinality(B) \in Nat
         /\ Cardinality(B) <= Cardinality(A)
<1>1. IsFiniteSet(A) /\ IsFiniteSet(B)
  BY NamesAssumption, FS_Subset
<1>. QED
  BY <1>1, FS_CardinalityType, FS_Subset

LEMMA InitInd == Init => Ind
  BY NamesAssumption, ModeAssumption DEF Init, Ind, TypeOK, HandlersKnow, TokensKnown, CountStillHolds, Stages

\* CountStillHolds survives a step in which no handler gets to "counted", no
\* cap changes, and whoever is new among the members is a rival.
LEMMA CountKept ==
  ASSUME Ind, TypeOK',
         \A q \in Requests : stage'[q] = "counted" =>
           /\ stage[q] = "counted"
           /\ cap'[q] = cap[q] /\ project'[q] = project[q]
           /\ members'[project[q]] \ rivals'[q] \subseteq members[project[q]] \ rivals[q]
  PROVE  CountStillHolds'
<1>1. SUFFICES ASSUME NEW q \in Requests, stage'[q] = "counted"
               PROVE  cap'[q] # NoCap /\ Cardinality(members'[project'[q]] \ rivals'[q]) < cap'[q]
  BY DEF CountStillHolds
<1>2. project[q] \in Projects /\ members[project[q]] \subseteq Users /\ cap[q] \in Int
  BY <1>1 DEF Ind, TypeOK, HandlersKnow
<1>3. cap[q] # NoCap /\ Cardinality(members[project[q]] \ rivals[q]) < cap[q]
  BY <1>1 DEF Ind, CountStillHolds
<1>4. /\ Cardinality(members'[project[q]] \ rivals'[q]) <= Cardinality(members[project[q]] \ rivals[q])
      /\ Cardinality(members'[project[q]] \ rivals'[q]) \in Nat
      /\ Cardinality(members[project[q]] \ rivals[q]) \in Nat
  BY <1>1, <1>2, SmallerSet
<1>5. Cardinality(members'[project[q]] \ rivals'[q]) < cap[q]
  BY <1>2, <1>3, <1>4
<1>. QED
  BY <1>1, <1>3, <1>5

\* The insertion of a member, from "capped" or from "counted".
LEMMA InsertStep ==
  ASSUME Ind, NEW r \in Requests, stage[r] \in {"capped", "counted"}, Insert(r)
  PROVE  Ind'
<1>1. user[r] \in Users /\ project[r] \in Projects
  BY DEF Ind, HandlersKnow
<1>2. TypeOK'
  BY <1>1 DEF Ind, TypeOK, Insert, Enter, Over, Go, Stages, rows, asked, history
<1>3. HandlersKnow'
  BY DEF Ind, TypeOK, HandlersKnow, Insert, Over, Go
<1>4. CountStillHolds'
  BY <1>1, <1>2, CountKept DEF Ind, TypeOK, HandlersKnow, Insert, Enter, Over, Go
<1>5. TokensKnown'
  BY DEF Ind, TypeOK, TokensKnown, Insert, Over, Go
<1>. QED
  BY <1>2, <1>3, <1>4, <1>5 DEF Ind

\* A handler's step that leaves projects, members and rivals alone and does not
\* end with a count.
LEMMA LocalStep ==
  ASSUME Ind, NEW r \in Requests,
         \/ CheckOwned(r) \/ FindCap(r) \/ WriteRename(r)
         \/ \E p \in Projects : ReadForRename(r, p)
         \/ \E u \in Users, p \in Projects : Invited(r, u, p)
  PROVE  Ind'
<1>1. TypeOK'
  <2>1. CASE CheckOwned(r)
    BY <2>1 DEF Ind, TypeOK, CheckOwned, Over, Go, locals, history, Stages, rows, asked
  <2>2. CASE FindCap(r)
    BY <2>2, Caps DEF Ind, TypeOK, FindCap, Over, Go, locals, history, Stages, rows, asked
  <2>3. CASE WriteRename(r)
    BY <2>3 DEF Ind, TypeOK, WriteRename, Over, Go, locals, history, Stages, rows, asked
  <2>4. CASE \E p \in Projects : ReadForRename(r, p)
    BY <2>4 DEF Ind, TypeOK, ReadForRename, Go, locals, history, Stages, rows, asked
  <2>5. CASE \E u \in Users, p \in Projects : Invited(r, u, p)
    BY <2>5 DEF Ind, TypeOK, Invited, Go, locals, history, Stages, rows, asked
  <2>. QED
    BY <2>1, <2>2, <2>3, <2>4, <2>5
<1>2. HandlersKnow'
  BY DEF Ind, TypeOK, HandlersKnow, CheckOwned, FindCap, WriteRename, ReadForRename, Invited,
    Over, Go, locals, history, rows, asked
<1>3. \A q \in Requests : stage'[q] = "counted" =>
        stage[q] = "counted" /\ cap'[q] = cap[q] /\ project'[q] = project[q]
  BY DEF Ind, TypeOK, CheckOwned, FindCap, WriteRename, ReadForRename, Invited,
    Over, Go, locals, history
<1>4. members' = members /\ rivals' = rivals
  BY DEF CheckOwned, FindCap, WriteRename, ReadForRename, Invited, history, rows, asked
<1>5. CountStillHolds'
  BY <1>1, <1>3, <1>4, CountKept
<1>6. TokensKnown'
  BY DEF Ind, TypeOK, TokensKnown, CheckOwned, FindCap, WriteRename, ReadForRename, Invited,
    Over, Go, locals, history, rows, asked
<1>. QED
  BY <1>1, <1>2, <1>5, <1>6 DEF Ind

\* What the owner asks for is a token, and whether it raced is a Boolean.
LEMMA AskTypes ==
  ASSUME TypeOK, NEW p \in Projects, NEW t \in Tokens, Ask(p, t)
  PROVE  wanted' \in [Projects -> Tokens \cup {None}] /\ raced' \in [Projects -> BOOLEAN]
<1>. DEFINE late == \E r \in Requests : stage[r] = "renaming" /\ project[r] = p /\ kept[r] # t
<1>1. raced' = [raced EXCEPT ![p] = late] /\ wanted' = [wanted EXCEPT ![p] = t]
  BY DEF Ask
<1>2. late \in BOOLEAN
  OBVIOUS
<1>. HIDE DEF late
<1>. QED
  BY <1>1, <1>2 DEF TypeOK

LEMMA CreateStep ==
  ASSUME Ind, NEW r \in Requests, CreateProject(r)
  PROVE  Ind'
<1>1. PICK p \in Projects \ issued, t \in Tokens :
        /\ projects' = projects \cup {p}
        /\ members' = [members EXCEPT ![p] = {Owner}]
        /\ crowned' = crowned \cup {p}
        /\ token' = [token EXCEPT ![p] = t]
        /\ issued' = issued \cup {p}
        /\ Ask(p, t)
  BY DEF CreateProject
<1>2. TypeOK'
  BY <1>1, NamesAssumption, AskTypes DEF Ind, TypeOK, CreateProject, Over, Go, Stages
<1>3. HandlersKnow'
  BY <1>1 DEF Ind, TypeOK, HandlersKnow, CreateProject, Over, Go
<1>4. \A q \in Requests : stage'[q] = "counted" =>
        /\ stage[q] = "counted" /\ cap'[q] = cap[q] /\ project'[q] = project[q]
        /\ project[q] # p
  BY <1>1, NamesAssumption DEF Ind, TypeOK, HandlersKnow, CreateProject, Over, Go
<1>5. rivals' = rivals /\ \A x \in Projects : x # p => members'[x] = members[x]
  BY <1>1 DEF CreateProject, Ind, TypeOK
<1>6. CountStillHolds'
  BY <1>2, <1>4, <1>5, CountKept DEF Ind, HandlersKnow
<1>7. TokensKnown'
  BY <1>1 DEF Ind, TypeOK, TokensKnown, CreateProject, Over, Go
<1>. QED
  BY <1>2, <1>3, <1>6, <1>7 DEF Ind

LEMMA CountStep ==
  ASSUME Ind, NEW r \in Requests, CountMembers(r)
  PROVE  Ind'
<1>1. TypeOK'
  BY DEF Ind, TypeOK, CountMembers, Over, Go, locals, Stages, rows, asked, history
<1>2. HandlersKnow'
  BY DEF Ind, TypeOK, HandlersKnow, CountMembers, Over, Go, locals, rows, asked, history
<1>3. CountStillHolds'
  <2>1. SUFFICES ASSUME NEW q \in Requests, stage'[q] = "counted"
                 PROVE  cap'[q] # NoCap /\ Cardinality(members'[project'[q]] \ rivals'[q]) < cap'[q]
    BY DEF CountStillHolds
  <2>2. CASE q = r
    <3>1. /\ cap[r] # NoCap /\ Room(r) /\ UNCHANGED locals
      BY <2>1, <2>2 DEF CountMembers, Over, Go, Ind, TypeOK
    <3>2. rivals'[r] = {} /\ members' = members
      BY DEF CountMembers, Ind, TypeOK, rows, asked, history
    <3>3. Cardinality(members[project[r]]) < cap[r]
      BY <3>1 DEF Room, Within
    <3>. QED
      BY <2>2, <3>1, <3>2, <3>3 DEF locals
  <2>3. CASE q # r
    <3>1. /\ stage[q] = "counted" /\ cap'[q] = cap[q] /\ project'[q] = project[q]
          /\ rivals'[q] = rivals[q] /\ members' = members
      BY <2>1, <2>3 DEF CountMembers, Over, Go, locals, Ind, TypeOK, rows, asked, history
    <3>. QED
      BY <3>1 DEF Ind, CountStillHolds
  <2>. QED
    BY <2>2, <2>3
<1>4. TokensKnown'
  BY DEF Ind, TypeOK, TokensKnown, CountMembers, Over, Go, locals, rows, asked, history
<1>. QED
  BY <1>1, <1>2, <1>3, <1>4 DEF Ind

\* The steps of the owner and of members, which are no handler's.
LEMMA OtherStep ==
  ASSUME Ind,
         \/ \E p \in Projects :
              \/ DeleteProject(p) \/ LeaveUnread(p)
              \/ \E t \in Tokens : UpdateToken(p, t)
              \/ \E u \in Users : Leave(u, p)
         \/ ChangeTier
  PROVE  Ind'
<1>1. TypeOK'
  <2>1. CASE \E p \in Projects : DeleteProject(p)
    BY <2>1 DEF Ind, TypeOK, DeleteProject, locals, history, Stages, rows, asked
  <2>2. CASE \E p \in Projects, t \in Tokens : UpdateToken(p, t)
    BY <2>2, AskTypes DEF Ind, TypeOK, UpdateToken, locals, Stages
  <2>3. CASE \E p \in Projects : \E u \in Users : Leave(u, p)
    BY <2>3 DEF Ind, TypeOK, Leave, locals, history, Stages, rows, asked
  <2>4. CASE ChangeTier
    BY <2>4 DEF Ind, TypeOK, ChangeTier, locals, history, Stages, rows, asked
  <2>5. CASE \E p \in Projects : LeaveUnread(p)
    BY <2>5 DEF Ind, TypeOK, LeaveUnread, locals, asked, Stages
  <2>. QED
    BY <2>1, <2>2, <2>3, <2>4, <2>5
<1>2. /\ stage' = stage /\ cap' = cap /\ project' = project /\ user' = user /\ rivals' = rivals
      /\ projects' \subseteq projects /\ issued \subseteq issued'
  BY DEF DeleteProject, UpdateToken, LeaveUnread, Leave, ChangeTier, locals, history, rows, asked
<1>3. \A x \in Projects : members'[x] \subseteq members[x]
  BY DEF DeleteProject, UpdateToken, LeaveUnread, Leave, ChangeTier, Ind, TypeOK, rows, asked,
    history
<1>4. HandlersKnow'
  BY <1>2 DEF Ind, HandlersKnow
<1>5. CountStillHolds'
  <2>1. \A q \in Requests : stage[q] = "counted" => project[q] \in Projects
    BY DEF Ind, HandlersKnow
  <2>. QED
    BY <1>1, <1>2, <1>3, <2>1, CountKept
<1>6. TokensKnown'
  BY DEF Ind, TypeOK, TokensKnown, DeleteProject, UpdateToken, LeaveUnread, Leave, ChangeTier,
    locals, history, rows, asked
<1>. QED
  BY <1>1, <1>4, <1>5, <1>6 DEF Ind

\* What a handler does besides: either nothing, or it inserts.
LEMMA JoinCases ==
  ASSUME NEW r \in Requests, Join(r)
  PROVE  \/ FindCap(r)
         \/ CountMembers(r)
         \/ stage[r] \in {"capped", "counted"} /\ Insert(r)
         \/ (InviteLimitedJson(r) \/ QueryFails(r)) /\ Over(r) /\ UNCHANGED <<mode, rows, tier, history>>
  BY DEF Join, InviteMember, InviteLimitedJson, InsertCounted, QueryFails

LEMMA RefuseStep ==
  ASSUME Ind, NEW r \in Requests, Over(r),
         UNCHANGED <<mode, rows, tier, history>>
  PROVE  Ind'
<1>1. TypeOK'
  BY DEF Ind, TypeOK, Over, Go, history, Stages, rows, asked
<1>2. HandlersKnow'
  BY DEF Ind, TypeOK, HandlersKnow, Over, Go, history, rows, asked
<1>3. CountStillHolds'
  BY <1>1, CountKept DEF Ind, TypeOK, Over, Go, history, rows, asked
<1>4. TokensKnown'
  BY DEF Ind, TypeOK, TokensKnown, Over, Go, rows, asked, history
<1>. QED
  BY <1>1, <1>2, <1>3, <1>4 DEF Ind

LEMMA NextInd == Ind /\ [Next]_vars => Ind'
<1>1. SUFFICES ASSUME Ind, [Next]_vars PROVE Ind'
  OBVIOUS
<1>2. CASE UNCHANGED vars
  BY <1>1, <1>2 DEF Ind, TypeOK, HandlersKnow, TokensKnown, CountStillHolds, vars, locals,
    history, rows, asked
<1>3. CASE \E r \in Requests : CreateProject(r)
  BY <1>1, <1>3, CreateStep
<1>4. CASE \E r \in Requests : Join(r)
  BY <1>1, <1>4, JoinCases, InsertStep, CountStep, RefuseStep, LocalStep
<1>5. CASE \E r \in Requests :
             \/ CheckOwned(r) \/ WriteRename(r)
             \/ \E p \in Projects : ReadForRename(r, p)
             \/ \E u \in Users, p \in Projects :
                  Invited(r, u, p) \/ \E t \in Tokens : PresentToken(r, u, p, t)
  BY <1>1, <1>5, LocalStep DEF PresentToken
<1>6. CASE \/ \E p \in Projects :
                \/ DeleteProject(p) \/ LeaveUnread(p)
                \/ \E t \in Tokens : UpdateToken(p, t)
                \/ \E u \in Users : Leave(u, p)
           \/ ChangeTier
  BY <1>1, <1>6, OtherStep
<1>. QED
  BY <1>1, <1>2, <1>3, <1>4, <1>5, <1>6 DEF Next

LEMMA Invariance == Spec => []Ind
  BY InitInd, NextInd, PTL DEF Spec

\* The steps that change who is in a project.
LEMMA MembershipCases ==
  ASSUME [Next]_vars
  PROVE  \/ \E r \in Requests : CreateProject(r)
         \/ \E r \in Requests : stage[r] \in {"capped", "counted"} /\ Insert(r)
         \/ \E p \in Projects : DeleteProject(p)
         \/ \E p \in Projects : \E u \in Users : Leave(u, p)
         \/ \E p \in Projects : LeaveUnread(p)
         \/ UNCHANGED <<projects, members, crowned, unread>>
  BY JoinCases DEF Next, vars, CheckOwned, WriteRename, ReadForRename, PresentToken, Invited,
    FindCap, CountMembers, UpdateToken, ChangeTier, rows, asked, history

\* A join that takes effect is an insertion of the handler itself, after a
\* count or, in the JSON store, with room for it.
LEMMA InsertsItself ==
  ASSUME Ind, [Next]_vars, NEW r \in Requests, JoinsNow(r)
  PROVE  /\ members' = [members EXCEPT ![project[r]] = @ \cup {user[r]}]
         /\ stage[r] = "counted" \/ Room(r)
<1>1. /\ stage[r] \in {"capped", "counted"} /\ cap[r] # NoCap /\ stage'[r] = "over"
      /\ user[r] \in members'[project[r]] \ members[project[r]]
  BY DEF JoinsNow
<1>2. \E q \in Requests : Join(q)
  <2>1. ~ \E q \in Requests : CreateProject(q)
    BY <1>1 DEF CreateProject, Over, Go, Ind, TypeOK
  <2>2. ~ \E p \in Projects : DeleteProject(p) \/ LeaveUnread(p) \/ \E u \in Users : Leave(u, p)
    BY <1>1 DEF DeleteProject, LeaveUnread, Leave
  <2>3. members' # members
    BY <1>1
  <2>. QED
    BY <2>1, <2>2, <2>3 DEF Next, vars, CheckOwned, WriteRename, ReadForRename, PresentToken,
      Invited, UpdateToken, ChangeTier, rows, asked, history
<1>3. PICK q \in Requests : Join(q)
  BY <1>2
<1>4. q = r
  BY <1>1, <1>3 DEF Join, FindCap, InviteMember, InviteLimitedJson, CountMembers, InsertCounted,
    QueryFails, Insert, Over, Go, Ind, TypeOK
<1>5. InviteLimitedJson(r) \/ InsertCounted(r)
  BY <1>1, <1>3, <1>4 DEF Join, FindCap, InviteMember, CountMembers, QueryFails, rows
<1>6. Insert(r) /\ (stage[r] = "counted" \/ Room(r))
  BY <1>1, <1>5 DEF InviteLimitedJson, InsertCounted, rows, asked, history
<1>. QED
  BY <1>1, <1>6 DEF Insert, Enter

LEMMA WithoutRivals ==
  ASSUME NEW A \in SUBSET Users, NEW B \in SUBSET Users
  PROVE  /\ Cardinality(A \ B) \in Nat
         /\ Cardinality(A) <= Cardinality(A \ B) + Cardinality(B)
<1>1. IsFiniteSet(A) /\ IsFiniteSet(B) /\ IsFiniteSet(A \ B)
  BY NamesAssumption, FS_Subset
<1>2. /\ Cardinality(A) \in Nat /\ Cardinality(B) \in Nat /\ Cardinality(A \ B) \in Nat
      /\ Cardinality((A \ B) \cap B) \in Nat
  BY <1>1, FS_CardinalityType, FS_Subset
<1>3. /\ IsFiniteSet((A \ B) \cup B)
      /\ Cardinality((A \ B) \cup B) = Cardinality(A \ B) + Cardinality(B) - Cardinality((A \ B) \cap B)
  BY <1>1, FS_Union
<1>4. (A \ B) \cap B = {}
  OBVIOUS
<1>5. Cardinality((A \ B) \cap B) = 0
  BY <1>4, FS_EmptySet
<1>6. A \subseteq (A \ B) \cup B
  OBVIOUS
<1>7. Cardinality(A) <= Cardinality((A \ B) \cup B)
  BY <1>3, <1>6, FS_Subset
<1>8. Cardinality((A \ B) \cup B) = Cardinality(A \ B) + Cardinality(B)
  BY <1>2, <1>3, <1>5
<1>. QED
  BY <1>2, <1>7, <1>8

\* Every variable keeps its type.
THEOREM TypeCorrect == Spec => []TypeOK
<1>1. Ind => TypeOK
  BY DEF Ind
<1>. QED
  BY <1>1, Invariance, PTL

\* In PostgreSQL nobody is a member of a project that is not there: the insert
\* of a join meets the foreign key, in whatever order deletions come.
THEOREM NoGhosts == Spec => []NoGhostMember
<1>1. Init => NoGhostMember
  BY DEF Init, NoGhostMember
<1>2. [Next]_vars => mode' = mode
  BY JoinCases DEF Next, vars, CreateProject, CheckOwned, WriteRename, ReadForRename, PresentToken,
    Invited, FindCap, CountMembers, Insert, DeleteProject, UpdateToken, LeaveUnread, Leave, ChangeTier
<1>3. Ind /\ NoGhostMember /\ [Next]_vars => NoGhostMember'
  <2>1. SUFFICES ASSUME Ind, NoGhostMember, [Next]_vars, mode = "pg"
                 PROVE  \A p \in Projects : members'[p] # {} => p \in projects'
    BY <1>2 DEF NoGhostMember
  <2>2. CASE \E r \in Requests : CreateProject(r)
    BY <2>1, <2>2 DEF CreateProject, Ind, TypeOK, NoGhostMember
  <2>3. CASE \E r \in Requests : stage[r] \in {"capped", "counted"} /\ Insert(r)
    BY <2>1, <2>3 DEF Insert, Enter, Accepts, Ind, TypeOK, NoGhostMember
  <2>4. CASE \E p \in Projects : DeleteProject(p)
    BY <2>1, <2>4 DEF DeleteProject, Ind, TypeOK, NoGhostMember
  <2>5. CASE \E p \in Projects : \E u \in Users : Leave(u, p)
    BY <2>1, <2>5 DEF Leave, Ind, TypeOK, NoGhostMember
  <2>6. CASE \E p \in Projects : LeaveUnread(p)
    BY <2>1, <2>6 DEF LeaveUnread, Ind, TypeOK, NoGhostMember
  <2>7. CASE UNCHANGED <<projects, members>>
    BY <2>1, <2>7 DEF NoGhostMember
  <2>. QED
    BY <2>1, <2>2, <2>3, <2>4, <2>5, <2>6, <2>7, MembershipCases
<1>. QED
  BY <1>1, <1>3, Invariance, PTL DEF Spec

\* A project keeps its owner, who keeps the rights of one, unless the owner asked
\* to leave and the server failed to read whose project it is.
THEOREM OwnersKept == Spec => []OwnerKept
<1>1. Init => OwnerKept
  BY DEF Init, OwnerKept
<1>2. Ind /\ OwnerKept /\ [Next]_vars => OwnerKept'
  <2>1. SUFFICES ASSUME Ind, OwnerKept, [Next]_vars PROVE OwnerKept'
    OBVIOUS
  <2>2. CASE \E r \in Requests : CreateProject(r)
    BY <2>1, <2>2 DEF CreateProject, Ind, TypeOK, OwnerKept
  <2>3. CASE \E r \in Requests : stage[r] \in {"capped", "counted"} /\ Insert(r)
    BY <2>1, <2>3 DEF Insert, Enter, Ind, TypeOK, OwnerKept
  <2>4. CASE \E p \in Projects : DeleteProject(p)
    BY <2>1, <2>4 DEF DeleteProject, history, Ind, TypeOK, OwnerKept
  <2>5. CASE \E p \in Projects : \E u \in Users : Leave(u, p)
    BY <2>1, <2>5 DEF Leave, history, Ind, TypeOK, OwnerKept
  <2>6. CASE \E p \in Projects : LeaveUnread(p)
    BY <2>1, <2>6 DEF LeaveUnread, Ind, TypeOK, OwnerKept
  <2>7. CASE UNCHANGED <<projects, members, crowned, unread>>
    BY <2>1, <2>7 DEF OwnerKept
  <2>. QED
    BY <2>1, <2>2, <2>3, <2>4, <2>5, <2>6, <2>7, MembershipCases
<1>. QED
  BY <1>1, <1>2, Invariance, PTL DEF Spec

\* Both together: members of a project that is there, its owner among them unless
\* that failure let it go.
THEOREM RosterSound == Spec => []RosterIsSound
BY NoGhosts, OwnersKept, PTL DEF RosterIsSound

\* A join takes a project above the cap only by as many members as came in
\* between its count and its insert.
THEOREM OvershootBounded == Spec => OvershootIsARace
<1>1. Ind /\ [Next]_vars =>
        [\A r \in Requests : JoinsNow(r) =>
           Cardinality(members'[project[r]]) <= cap[r] + Cardinality(rivals[r])]_vars
  <2>1. SUFFICES ASSUME Ind, [Next]_vars, NEW r \in Requests, JoinsNow(r)
                 PROVE  Cardinality(members'[project[r]]) <= cap[r] + Cardinality(rivals[r])
    OBVIOUS
  <2>2. /\ project[r] \in Projects /\ user[r] \in Users /\ cap[r] \in Int
        /\ members[project[r]] \subseteq Users /\ rivals[r] \subseteq Users
    BY <2>1 DEF JoinsNow, Ind, TypeOK, HandlersKnow
  <2>3. members' = [members EXCEPT ![project[r]] = @ \cup {user[r]}]
        /\ (stage[r] = "counted" \/ Room(r))
    BY <2>1, InsertsItself
  <2>4. user[r] \notin members[project[r]]
    BY <2>1 DEF JoinsNow
  <2>5. Cardinality(members'[project[r]]) = Cardinality(members[project[r]]) + 1
    BY <2>1, <2>2, <2>3, <2>4, NamesAssumption, FS_Subset, FS_AddElement DEF Ind, TypeOK
  <2>6. Cardinality(members[project[r]]) \in Nat /\ Cardinality(rivals[r]) \in Nat
    BY <2>2, SmallerSet
  <2>7. CASE Room(r)
    BY <2>1, <2>2, <2>5, <2>6, <2>7 DEF Room, Within, JoinsNow
  <2>8. CASE stage[r] = "counted"
    <3>1. Cardinality(members[project[r]] \ rivals[r]) < cap[r]
      BY <2>1, <2>8 DEF Ind, CountStillHolds
    <3>2. /\ Cardinality(members[project[r]]) <=
               Cardinality(members[project[r]] \ rivals[r]) + Cardinality(rivals[r])
          /\ Cardinality(members[project[r]] \ rivals[r]) \in Nat
      BY <2>2, WithoutRivals
    <3>. QED
      BY <2>2, <2>5, <2>6, <3>1, <3>2
  <2>. QED
    BY <2>3, <2>7, <2>8
<1>. QED
  BY <1>1, Invariance, PTL DEF Spec, OvershootIsARace

\* When no rename raced with the owner's last request, what that asked for is
\* the token, and every rename under way carries it.
RenamesAgree ==
  \A p \in projects : ~raced[p] =>
    /\ token[p] = wanted[p]
    /\ \A r \in Requests : stage[r] = "renaming" /\ project[r] = p => kept[r] = wanted[p]

\* What the steps that touch tokens do with them; the others leave them alone.
LEMMA TokenCases ==
  ASSUME [Next]_vars, Ind
  PROVE  \/ \E r \in Requests : CreateProject(r) \/ WriteRename(r)
         \/ \E r \in Requests, p \in Projects : ReadForRename(r, p)
         \/ \E p \in Projects : DeleteProject(p) \/ \E t \in Tokens : UpdateToken(p, t)
         \/ /\ UNCHANGED <<projects, token, wanted, raced>>
            /\ \A r \in Requests : stage'[r] = "renaming" =>
                 stage[r] = "renaming" /\ kept'[r] = kept[r] /\ project'[r] = project[r]
<1>1. CASE \E r \in Requests : CheckOwned(r)
  BY <1>1 DEF CheckOwned, Over, Go, Ind, TypeOK, rows, locals, asked, history
<1>2. CASE \E r \in Requests : Join(r)
  BY <1>2 DEF Join, FindCap, InviteMember, InviteLimitedJson, CountMembers, InsertCounted,
    QueryFails, Insert, Over, Go, Ind, TypeOK, rows, locals, asked, history
<1>3. CASE \E r \in Requests, u \in Users, p \in Projects : Invited(r, u, p)
  BY <1>3 DEF Invited, Go, Ind, TypeOK, rows, asked, history
<1>4. CASE UNCHANGED vars
  BY <1>4 DEF vars, rows, locals, asked, history
<1>5. CASE ChangeTier \/ \E p \in Projects : LeaveUnread(p) \/ \E u \in Users : Leave(u, p)
  BY <1>5 DEF ChangeTier, Leave, LeaveUnread, rows, locals, asked, history
<1>. QED
  BY <1>1, <1>2, <1>3, <1>4, <1>5 DEF Next, PresentToken

\* Asking for t at p leaves the other projects alone and finds out who races.
LEMMA AskedAgree ==
  ASSUME Ind, RenamesAgree, NEW p \in Projects, NEW t \in Tokens, Ask(p, t),
         token' = [token EXCEPT ![p] = t], projects' \subseteq projects \cup {p},
         \A r \in Requests : stage'[r] = "renaming" =>
           stage[r] = "renaming" /\ kept'[r] = kept[r] /\ project'[r] = project[r]
  PROVE  RenamesAgree'
<1>1. SUFFICES ASSUME NEW q \in projects', ~raced'[q]
               PROVE  /\ token'[q] = wanted'[q]
                      /\ \A r \in Requests : stage'[r] = "renaming" /\ project'[r] = q =>
                           kept'[r] = wanted'[q]
  BY DEF RenamesAgree
<1>2. CASE q = p
  <2>1. token'[q] = t /\ wanted'[q] = t
    BY <1>2 DEF Ask, Ind, TypeOK
  <2>2. ~ \E r \in Requests : stage[r] = "renaming" /\ project[r] = p /\ kept[r] # t
    BY <1>1, <1>2 DEF Ask, Ind, TypeOK
  <2>. QED
    BY <1>2, <2>1, <2>2
<1>3. CASE q # p
  <2>1. q \in projects /\ q \in Projects /\ token'[q] = token[q] /\ wanted'[q] = wanted[q] /\ ~raced[q]
    BY <1>1, <1>3 DEF Ask, Ind, TypeOK
  <2>. QED
    BY <2>1 DEF RenamesAgree
<1>. QED
  BY <1>2, <1>3

LEMMA RenamesAgreeKept == Ind /\ RenamesAgree /\ [Next]_vars => RenamesAgree'
<1>1. SUFFICES ASSUME Ind, RenamesAgree, [Next]_vars PROVE RenamesAgree'
  OBVIOUS
<1>2. CASE \E r \in Requests : CreateProject(r)
  <2>1. PICK r \in Requests, p \in Projects, t \in Tokens :
          /\ Over(r) /\ Ask(p, t)
          /\ projects' = projects \cup {p} /\ token' = [token EXCEPT ![p] = t]
    BY <1>2 DEF CreateProject
  <2>2. \A q \in Requests : stage'[q] = "renaming" =>
          stage[q] = "renaming" /\ kept'[q] = kept[q] /\ project'[q] = project[q]
    BY <1>1, <2>1 DEF Over, Go, Ind, TypeOK
  <2>. QED
    BY <1>1, <2>1, <2>2, AskedAgree
<1>3. CASE \E r \in Requests : WriteRename(r)
  BY <1>1, <1>3 DEF WriteRename, Over, Go, Ind, TypeOK, RenamesAgree, asked, history
<1>4. CASE \E r \in Requests, p \in Projects : ReadForRename(r, p)
  BY <1>1, <1>4 DEF ReadForRename, Go, Ind, TypeOK, RenamesAgree, rows, asked, history
<1>5. CASE \E p \in Projects : DeleteProject(p)
  BY <1>1, <1>5 DEF DeleteProject, Ind, TypeOK, RenamesAgree, locals, asked, history
<1>6. CASE \E p \in Projects, t \in Tokens : UpdateToken(p, t)
  BY <1>1, <1>6, AskedAgree DEF UpdateToken, locals
<1>7. CASE /\ UNCHANGED <<projects, token, wanted, raced>>
           /\ \A r \in Requests : stage'[r] = "renaming" =>
                stage[r] = "renaming" /\ kept'[r] = kept[r] /\ project'[r] = project[r]
  BY <1>1, <1>7 DEF RenamesAgree
<1>. QED
  BY <1>1, <1>2, <1>3, <1>4, <1>5, <1>6, <1>7, TokenCases

\* A project has the token its owner asked for last, unless a rename with another
\* one was under way then.
THEOREM TokensAreWanted == Spec => []TokenIsWanted
<1>1. Init => RenamesAgree
  BY DEF Init, RenamesAgree
<1>2. RenamesAgree /\ Ind => TokenIsWanted
  BY DEF RenamesAgree, TokenIsWanted
<1>. QED
  BY <1>1, <1>2, RenamesAgreeKept, Invariance, PTL DEF Spec
=============================================================================
