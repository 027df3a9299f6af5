------------------------------- MODULE Accounts -------------------------------
(***************************************************************************)
(* One user's account in PostgreSQL and the authority that decides about   *)
(* it, the website: logins, profile requests and the licence sweeper each  *)
(* read something, ask the website, and write what it answered into the    *)
(* row, with nothing held in between.  The website and the keys it sold to *)
(* the user are external.  In the JSON store the sweeper's downgrade does  *)
(* not return, see JsonStore.                                              *)
(***************************************************************************)
EXTENDS Integers

CONSTANTS
  LicenseKeys,  \* the keys that the website has given this user
  Machines,     \* the devices the user logs in from
  Logins,       \* calls of AuthenticateKey
  Syncs,        \* calls of GetProfile and SyncWebProfile
  Nothing,      \* no key, no machine, no answer
  MaxChanges,   \* bound: changes of the website's mind
  MaxOutages    \* bound: failed lookups and questions

ASSUME AccountsAssumption ==
  /\ Nothing \notin LicenseKeys \cup Machines \cup {"free", "pro"}
  /\ "sweeper" \notin Logins \cup Syncs
  /\ Logins \cap Syncs = {}
  /\ MaxChanges \in Nat /\ MaxOutages \in Nat

Calls    == Logins \cup Syncs \cup {"sweeper"}
Verdicts == {"free", "pro", "lapsed", "refused"}

VARIABLES
  verdict,   \* website: the plan it answers for a key, "lapsed" if it refuses the key
             \* as expired, inactive or not found, "refused" if in other words
  changes,   \* website: how often it changed a verdict
  outages,   \* how often a lookup or a question failed
  tier,      \* users: plan_tier, Nothing while there is no row
  machine,   \* users: machine_id
  index,     \* license_index: the keys with this user's id
  step,      \* what a call does next
  seen,      \* the machine it read, or was sent
  listed,    \* the tier that the sweeper read
  key,       \* the key it asks about
  answer,    \* the plan it was answered
  logins,    \* history: logins that were written so far
  readAt,    \* history: logins when the call read the row
  loggedIn,  \* history: the machine of the last login
  excuse,    \* history: a key was free or lapsed, a lookup failed, or an error was misread
  reverted   \* history: since the last login, a call wrote what it read before

websiteVars == <<verdict, changes>>
rowVars     == <<tier, machine, index>>
callVars    == <<step, seen, listed, key, answer, readAt>>
pastVars    == <<logins, loggedIn, reverted>>
accountVars == <<websiteVars, outages, rowVars, callVars, pastVars, excuse>>

AccountsTypeOK ==
  /\ verdict \in [LicenseKeys -> Verdicts]
  /\ changes \in 0 .. MaxChanges /\ outages \in 0 .. MaxOutages
  /\ tier \in {"free", "pro", Nothing}
  /\ machine \in Machines \cup {Nothing}
  /\ tier = Nothing <=> index = {}
  /\ index \subseteq LicenseKeys
  /\ step \in [Calls -> {"new", "look", "ask", "upsert", "downgrade", "over"}]
  /\ seen \in [Calls -> Machines \cup {Nothing}]
  /\ listed \in {"free", "pro", Nothing}
  /\ key \in [Calls -> LicenseKeys \cup {Nothing}]
  /\ answer \in [Calls -> {"free", "pro", Nothing}]
  /\ \A c \in Calls : step[c] = "upsert" => key[c] # Nothing /\ answer[c] # Nothing
  /\ logins \in Nat
  /\ readAt \in [Calls -> Nat]
  /\ loggedIn \in Machines \cup {Nothing}
  /\ excuse \in BOOLEAN /\ reverted \in BOOLEAN

AccountsInit ==
  /\ verdict \in [LicenseKeys -> Verdicts] /\ changes = 0
  /\ outages = 0
  /\ tier = Nothing /\ machine = Nothing /\ index = {}
  /\ step = [c \in Calls |-> "new"]
  /\ seen = [c \in Calls |-> Nothing] /\ listed = Nothing
  /\ key = [c \in Calls |-> Nothing] /\ answer = [c \in Calls |-> Nothing]
  /\ readAt = [c \in Calls |-> 0]
  /\ logins = 0 /\ loggedIn = Nothing /\ reverted = FALSE
  /\ excuse = (\E k \in LicenseKeys : verdict[k] \in {"free", "lapsed"})

\* The user pays, cancels, lets a key expire or renews it.
Decide(k, v) ==
  /\ changes < MaxChanges
  /\ v # verdict[k]
  /\ verdict' = [verdict EXCEPT ![k] = v]
  /\ changes' = changes + 1
  /\ excuse' = (excuse \/ v \in {"free", "lapsed"})
  /\ UNCHANGED <<outages, rowVars, callVars, pastVars>>

Do(c, s) == step' = [step EXCEPT ![c] = s]

\* A request ends; the sweeper starts over at its next tick.
End(c) == IF c = "sweeper" THEN "new" ELSE "over"

Finish(c) ==
  /\ Do(c, End(c))
  /\ seen' = [seen EXCEPT ![c] = Nothing]
  /\ key' = [key EXCEPT ![c] = Nothing]
  /\ answer' = [answer EXCEPT ![c] = Nothing]
  /\ readAt' = [readAt EXCEPT ![c] = 0]
  /\ listed' = IF c = "sweeper" THEN Nothing ELSE listed

\* Mutants: the bugs that the properties would catch.
MutUpsert(c) ==  \* an UPDATE that inserts nothing
  /\ index' = index \cup {key[c]}
  /\ IF tier = Nothing THEN UNCHANGED <<tier, machine>>
                       ELSE tier' = answer[c] /\ machine' = seen[c]
MutLoginUpsert(l) ==  \* the machine stays that of the first login
  /\ step[l] = "upsert"
  /\ tier' = answer[l]
  /\ machine' = IF tier = Nothing THEN seen[l] ELSE machine
  /\ index' = index \cup {key[l]}
  /\ logins' = logins + 1
  /\ loggedIn' = seen[l]
  /\ reverted' = FALSE
  /\ Finish(l)
  /\ UNCHANGED <<websiteVars, outages, excuse>>
\* Every error condemns, whatever its words.
MutUnverified(c) == Do(c, IF c = "sweeper" THEN "downgrade" ELSE End(c))
                    /\ UNCHANGED <<seen, listed, key, answer, readAt, excuse>>
MutSweepDowngrade ==  \* the tier that was listed
  /\ step["sweeper"] = "downgrade"
  /\ tier' = listed
  /\ Finish("sweeper")
  /\ UNCHANGED <<websiteVars, outages, machine, index, pastVars, excuse>>

-----------------------------------------------------------------------------

\* UpsertUser: the row and the index, in one transaction.
Upsert(c) ==
  /\ tier' = answer[c]
  /\ machine' = seen[c]
  /\ index' = index \cup {key[c]}

-----------------------------------------------------------------------------
(* Validate: the website is asked about the key of the call *)

\* A plan for a key that is good.  A refusal ends a request; the sweeper looks
\* for one of three words in it, and downgrades if it finds one.
Verified(c) ==
  /\ step[c] = "ask"
  /\ \/ /\ verdict[key[c]] \in {"free", "pro"}
        /\ Do(c, "upsert")
        /\ answer' = [answer EXCEPT ![c] = verdict[key[c]]]
        /\ UNCHANGED <<seen, listed, key, readAt>>
     \/ verdict[key[c]] = "refused" /\ Finish(c)
     \/ verdict[key[c]] = "lapsed" /\ c # "sweeper" /\ Finish(c)
     \/ /\ verdict[key[c]] = "lapsed" /\ c = "sweeper"
        /\ Do(c, "downgrade")
        /\ UNCHANGED <<seen, listed, key, answer, readAt>>
  /\ UNCHANGED <<websiteVars, outages, rowVars, pastVars, excuse>>

\* Any other error: no connection, too many devices, another status, no JSON.
\* The sweeper looks for the three words in its text as well, and finds one in
\* that of a certificate that has expired or of a host that is not found.
Unverified(c) ==
  \/ Finish(c) /\ UNCHANGED excuse
  \/ /\ c = "sweeper"
     /\ Do(c, "downgrade")
     /\ excuse' = TRUE
     /\ UNCHANGED <<seen, listed, key, answer, readAt>>

VerifyFails(c) ==
  /\ step[c] = "ask"
  /\ outages < MaxOutages
  /\ outages' = outages + 1
  /\ Unverified(c)
  /\ UNCHANGED <<websiteVars, rowVars, pastVars>>

-----------------------------------------------------------------------------
(* AuthenticateKey *)

LoginBegins(l, k, m) ==
  /\ step[l] = "new"
  /\ Do(l, "ask")
  /\ key' = [key EXCEPT ![l] = k]
  /\ seen' = [seen EXCEPT ![l] = m]
  /\ UNCHANGED <<websiteVars, outages, rowVars, listed, answer, readAt, pastVars, excuse>>

LoginUpsert(l) ==
  /\ step[l] = "upsert"
  /\ Upsert(l)
  /\ logins' = logins + 1
  /\ loggedIn' = seen[l]
  /\ reverted' = FALSE
  /\ Finish(l)
  /\ UNCHANGED <<websiteVars, outages, excuse>>

-----------------------------------------------------------------------------
(* GetProfile, SyncWebProfile and the licence sweeper *)

\* GetUserByID, or GetAllUsers for the sweeper.
ReadUser(c) ==
  /\ step[c] = "new"
  /\ tier # Nothing
  /\ Do(c, "look")
  /\ seen' = [seen EXCEPT ![c] = machine]
  /\ readAt' = [readAt EXCEPT ![c] = logins]
  /\ listed' = IF c = "sweeper" THEN tier ELSE listed
  /\ UNCHANGED <<websiteVars, outages, rowVars, key, answer, pastVars, excuse>>

\* GetLicenseKeyByUserID: LIMIT 1 of the user's keys.
FindKey(c, k) ==
  /\ step[c] = "look"
  /\ k \in index
  /\ Do(c, "ask")
  /\ key' = [key EXCEPT ![c] = k]
  /\ UNCHANGED <<websiteVars, outages, rowVars, seen, listed, answer, readAt, pastVars, excuse>>

\* An error is no key; for the sweeper, no key is a reason to downgrade.
FindKeyFails(c) ==
  /\ step[c] = "look"
  /\ outages < MaxOutages
  /\ outages' = outages + 1
  /\ IF c = "sweeper" /\ listed # "free"
       THEN /\ Do(c, "downgrade")
            /\ excuse' = TRUE
            /\ UNCHANGED <<seen, listed, key, answer, readAt>>
       ELSE Finish(c) /\ UNCHANGED excuse
  /\ UNCHANGED <<websiteVars, rowVars, pastVars>>

\* What the website said now, with the machine that was read at the start.
SyncUpsert(c) ==
  /\ step[c] = "upsert"
  /\ Upsert(c)
  /\ reverted' = (reverted \/ readAt[c] < logins)
  /\ Finish(c)
  /\ UNCHANGED <<websiteVars, outages, logins, loggedIn, excuse>>

\* DowngradeUserTier.
SweepDowngrade ==
  /\ step["sweeper"] = "downgrade"
  /\ tier' = "free"
  /\ Finish("sweeper")
  /\ UNCHANGED <<websiteVars, outages, machine, index, pastVars, excuse>>

-----------------------------------------------------------------------------

Sync(c) ==
  \/ ReadUser(c) \/ FindKeyFails(c) \/ SyncUpsert(c)
  \/ \E k \in LicenseKeys : FindKey(c, k)

Login(l) ==
  \/ LoginUpsert(l)
  \/ \E k \in LicenseKeys, m \in Machines : LoginBegins(l, k, m)

AccountsNext ==
  \/ \E k \in LicenseKeys, v \in Verdicts : Decide(k, v)
  \/ \E c \in Calls : Verified(c) \/ VerifyFails(c)
  \/ \E l \in Logins : Login(l)
  \/ \E c \in Syncs \cup {"sweeper"} : Sync(c)
  \/ SweepDowngrade

AccountsSpec == AccountsInit /\ [][AccountsNext]_accountVars

\* The sweeper's ticker fires and its database and HTTP calls end.
SweeperRuns == Sync("sweeper") \/ Verified("sweeper") \/ SweepDowngrade

AccountsLiveSpec == AccountsSpec /\ WF_accountVars(SweeperRuns)

-----------------------------------------------------------------------------
(* Properties *)

\* The row says "free" only for a reason, however late the answers are: some
\* key was free or lapsed, the database failed to find the user's key and the
\* sweeper took that for no key (main.go:126-130), or the website could not be
\* asked and the error had one of the three words in it (main.go:135).  A
\* failure or a refusal in other words leaves the row alone.
PayersKeepTheirTier == tier = "free" => excuse

\* "Downgrading expired/inactive user" (main.go:136): who has paid for every key
\* all the time is not downgraded, whatever fails.
OnlyTheLapsedAreDowngraded ==
  changes = 0 /\ (\A k \in LicenseKeys : verdict[k] = "pro") => tier # "free"

\* The device of the last login is the row's, unless a profile request or the
\* sweeper wrote back the one it had read before that login (main.go:133-140,
\* user.go:74-80).
DeviceOnlyLostToAStaleRead == machine # loggedIn => reverted

\* With one key, the tier becomes what the website says of it, once it stops
\* changing its mind, and neither a late answer nor a misread error undoes that
\* for long.  A refusal in other words is no answer (main.go:135).
Entitled(k) == IF verdict[k] = "lapsed" THEN "free" ELSE verdict[k]
TierConverges ==
  \A k \in LicenseKeys :
    <>[](index = {k} /\ verdict[k] # "refused" => tier = Entitled(k))
=============================================================================
