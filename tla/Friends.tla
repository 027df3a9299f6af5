-------------------------------- MODULE Friends --------------------------------
(***************************************************************************)
(* Friend requests and friendships.  Each operation is one statement, one  *)
(* transaction that locks the row it updates, or one critical section of   *)
(* the JSON store: an atomic step.  There is one request per ordered pair  *)
(* of users, which a new request replaces under a new id; nothing ends a   *)
(* friendship.                                                             *)
(***************************************************************************)
EXTENDS Integers

CONSTANTS
  Users,        \* registered users
  NoUser,       \* nobody
  Stores,       \* where the server may keep its data: "pg", "json"
  MaxRequests   \* bound: requests that get an id

ASSUME FriendsAssumption ==
  /\ NoUser \notin Users
  /\ Stores \subseteq {"pg", "json"}
  /\ MaxRequests \in Nat

Ids   == 1 .. MaxRequests
Pairs == Users \X Users

VARIABLES
  db,        \* where the data is, decided at start
  requestId, \* friend_requests: the id of the pair's request, 0 without one
  status,    \* friend_requests: its status
  friends,   \* friends: the ordered pairs
  issued,    \* generateID("frq"): ids given out so far
  sender, recipient,  \* history: who sent an id to whom
  phantom,   \* history: ids that were answered and not stored
  acceptedBy, declinedBy  \* history: who answered an id, NoUser before

requestVars == <<requestId, status>>
friendsVars == <<db, requestVars, friends, issued, sender, recipient, phantom,
                 acceptedBy, declinedBy>>

FriendsTypeOK ==
  /\ db \in {"pg", "json"}
  /\ requestId \in [Pairs -> 0 .. MaxRequests]
  /\ status \in [Pairs -> {"none", "pending", "accepted", "rejected"}]
  /\ friends \subseteq Pairs
  /\ issued \in 0 .. MaxRequests
  /\ sender \in [Ids -> Users \cup {NoUser}]
  /\ recipient \in [Ids -> Users \cup {NoUser}]
  /\ phantom \subseteq Ids
  /\ acceptedBy \in [Ids -> Users \cup {NoUser}]
  /\ declinedBy \in [Ids -> Users \cup {NoUser}]

FriendsInit ==
  /\ db \in Stores
  /\ requestId = [p \in Pairs |-> 0] /\ status = [p \in Pairs |-> "none"]
  /\ friends = {}
  /\ issued = 0
  /\ sender = [i \in Ids |-> NoUser] /\ recipient = [i \in Ids |-> NoUser]
  /\ phantom = {}
  /\ acceptedBy = [i \in Ids |-> NoUser] /\ declinedBy = [i \in Ids |-> NoUser]

IsPending(p, i) == status[p] = "pending" /\ requestId[p] = i

\* Mutants: the bugs that the properties would catch.
MutStoreRequest(a, b) ==  \* the row keeps its id when it is pending again
  /\ requestId' = [requestId EXCEPT ![<<a, b>>] = IF @ = 0 THEN issued + 1 ELSE @]
  /\ status' = [status EXCEPT ![<<a, b>>] = "pending"]
  /\ UNCHANGED phantom
MutMayAnswer(a, b, u) == TRUE  \* anyone who knows the id
-----------------------------------------------------------------------------

\* The new request takes the pair's place ...
StoreRequest(a, b) ==
  /\ requestId' = [requestId EXCEPT ![<<a, b>>] = issued + 1]
  /\ status' = [status EXCEPT ![<<a, b>>] = "pending"]
  /\ UNCHANGED phantom

\* ... unless one is pending.  Then PostgreSQL's ON CONFLICT does nothing and
\* the sender is answered with an id that no row has; the JSON store refuses.
KeepRequest ==
  /\ db = "pg"
  /\ phantom' = phantom \cup {issued + 1}
  /\ UNCHANGED requestVars

\* SendRequest from a to b.
SendFriendRequest(a, b) ==
  /\ a # b
  /\ issued < MaxRequests
  /\ IF status[<<a, b>>] = "pending" THEN KeepRequest ELSE StoreRequest(a, b)
  /\ issued' = issued + 1
  /\ sender' = [sender EXCEPT ![issued + 1] = a]
  /\ recipient' = [recipient EXCEPT ![issued + 1] = b]
  /\ UNCHANGED <<db, friends, acceptedBy, declinedBy>>

MayAnswer(a, b, u) == u = b

Befriend(a, b) == friends' = friends \cup {<<a, b>>, <<b, a>>}

\* AcceptRequest: u names an id, which anyone may know.
AcceptFriendRequest(u, i) ==
  \E a, b \in Users :
    /\ IsPending(<<a, b>>, i)
    /\ MayAnswer(a, b, u)
    /\ status' = [status EXCEPT ![<<a, b>>] = "accepted"]
    /\ Befriend(a, b)
    /\ acceptedBy' = [acceptedBy EXCEPT ![i] = u]
    /\ UNCHANGED <<db, requestId, issued, sender, recipient, phantom, declinedBy>>

\* DeclineRequest.
RejectFriendRequest(u, i) ==
  \E a, b \in Users :
    /\ IsPending(<<a, b>>, i)
    /\ MayAnswer(a, b, u)
    /\ status' = [status EXCEPT ![<<a, b>>] = "rejected"]
    /\ declinedBy' = [declinedBy EXCEPT ![i] = u]
    /\ UNCHANGED <<db, requestId, friends, issued, sender, recipient, phantom, acceptedBy>>

FriendsNext ==
  \/ \E a, b \in Users : SendFriendRequest(a, b)
  \/ \E u \in Users, i \in Ids : AcceptFriendRequest(u, i) \/ RejectFriendRequest(u, i)

FriendsSpec == FriendsInit /\ [][FriendsNext]_friendsVars

-----------------------------------------------------------------------------
(* Properties *)

\* Two users are friends because one of them accepted what the other sent, and
\* then each is the other's friend: knowing an id that another user was sent, or
\* one that was declined or replaced, makes no friendship.
FriendsByConsent ==
  \A a, b \in Users :
    <<a, b>> \in friends =>
      /\ <<b, a>> \in friends
      /\ \E i \in Ids :
           /\ {sender[i], recipient[i]} = {a, b}
           /\ acceptedBy[i] = recipient[i]
           /\ declinedBy[i] = NoUser

\* An id is answered once: a retried or late answer to a request that was
\* declined, accepted or sent again under a new id finds nothing to answer.
AnsweredOnce == \A i \in Ids : acceptedBy[i] = NoUser \/ declinedBy[i] = NoUser

\* The id that a sender was answered with waits for its recipient or was
\* answered by it.  PostgreSQL keeps that unless another request of the pair
\* was pending: the id of its answer is then in no row
\* (postgres_methods.go:434-443).
SentIsKept ==
  \A i \in 1 .. issued :
    \/ IsPending(<<sender[i], recipient[i]>>, i)
    \/ recipient[i] \in {acceptedBy[i], declinedBy[i]}
    \/ db = "pg" /\ i \in phantom
=============================================================================
