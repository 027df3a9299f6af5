------------------------------ MODULE RateLimiter ------------------------------
(***************************************************************************)
(* The token buckets that limit a client's requests: one bucket per        *)
(* category and address, made full by the first request, refilled by the   *)
(* time since refillAt when a request comes, and forgotten by the sweeper  *)
(* when no refill has moved refillAt for StaleAge.  rl.mu makes allow and  *)
(* purgeStale atomic.                                                      *)
(***************************************************************************)
EXTENDS Integers

CONSTANTS
  Clients,     \* addresses that requests come from
  Loopback,    \* those of them that are this machine's
  Categories,  \* "auth_user", "auth", "write" and "read", or some of them
  Cap,         \* maxTokens of each category
  Rate,        \* the time that gives one token back: 100 ms in every category
  StaleAge,    \* one hour
  MaxClock     \* bound: the clock stops here

ASSUME RateLimiterAssumption ==
  /\ Loopback \subseteq Clients
  /\ Categories \subseteq {"auth_user", "auth", "write", "read"}
  /\ Cap \in [Categories -> Nat \ {0}]
  /\ Rate \in Nat \ {0}
  /\ StaleAge \in Nat \ {0} /\ MaxClock \in Nat

Keys == Categories \X Clients

VARIABLES
  clock,     \* time.Now(), finer than Rate
  buckets,   \* the keys of rl.buckets
  tokens,    \* their tokens
  refillAt,  \* the time up to which they were refilled
  watched,   \* history: a key, and ...
  from,      \* history: ... the time from which its requests are counted
  passed,    \* history: its requests that passed since `from`
  lastPass,  \* history: when the last one of all passed
  drought    \* history: the longest time since lastPass at a refusal

bucketVars  == <<buckets, tokens, refillAt>>
countVars   == <<watched, from, passed, lastPass, drought>>
limiterVars == <<clock, bucketVars, countVars>>

LimiterTypeOK ==
  /\ clock \in Nat
  /\ buckets \subseteq Keys
  /\ tokens \in [Keys -> Nat]
  /\ \A k \in buckets : tokens[k] <= Cap[k[1]]
  /\ refillAt \in [Keys -> Nat]
  /\ \A k \in buckets : refillAt[k] <= clock
  /\ watched \in Keys
  /\ from \in Nat /\ passed \in Nat /\ lastPass \in Nat /\ drought \in Nat

LimiterInit ==
  /\ clock = 0
  /\ buckets = {}
  /\ tokens = [k \in Keys |-> 0] /\ refillAt = [k \in Keys |-> 0]
  /\ watched \in Keys
  /\ from \in 0 .. MaxClock
  /\ passed = 0 /\ lastPass = 0 /\ drought = 0

TimePasses ==
  /\ clock < MaxClock
  /\ clock' = clock + 1
  /\ UNCHANGED <<bucketVars, countVars>>

-----------------------------------------------------------------------------

\* RateLimit: which bucket a request from c takes its token from.  Requests
\* without a token from this machine (c \in Loopback) take none and pass.
Limited(category, c) == category = "auth_user" \/ c \notin Loopback

\* The whole tokens that time has earned bucket k.
Refill(k) == (clock - refillAt[k]) \div Rate

Lesser(a, b) == IF a <= b THEN a ELSE b

\* The bucket of k as allow has it when it decides.
MutTokensNow(k) ==  \* a mutant: without the upper limit
  IF k \in buckets THEN tokens[k] + Refill(k) ELSE Cap[k[1]]
TokensNow(k) == IF k \in buckets THEN Lesser(tokens[k] + Refill(k), Cap[k[1]])
                                 ELSE Cap[k[1]]
MutRefilledTo(k) == clock  \* a mutant: the remainder of the time is lost
RefilledTo(k) == IF k \in buckets THEN refillAt[k] + Refill(k) * Rate ELSE clock

\* allow: the request passes or is refused.
Pass(k) ==
  /\ TokensNow(k) > 0
  /\ buckets' = buckets \cup {k}
  /\ tokens' = [tokens EXCEPT ![k] = TokensNow(k) - 1]
  /\ refillAt' = [refillAt EXCEPT ![k] = RefilledTo(k)]
  /\ passed' = IF k = watched /\ clock >= from THEN passed + 1 ELSE passed
  /\ lastPass' = IF k = watched THEN clock ELSE lastPass
  /\ UNCHANGED <<clock, watched, from, drought>>

Refuse(k) ==
  /\ TokensNow(k) = 0
  /\ tokens' = [tokens EXCEPT ![k] = TokensNow(k)]
  /\ refillAt' = [refillAt EXCEPT ![k] = RefilledTo(k)]
  /\ drought' = IF k = watched /\ clock - lastPass > drought
                  THEN clock - lastPass ELSE drought
  /\ UNCHANGED <<clock, buckets, watched, from, passed, lastPass>>

Request(category, c) == Limited(category, c) /\ (Pass(<<category, c>>) \/ Refuse(<<category, c>>))

\* purgeStale, every ten minutes.
MutStale(k) == clock > refillAt[k]  \* a mutant: the cutoff is now
Stale(k) == refillAt[k] < clock - StaleAge

PurgeStale ==
  /\ \E k \in buckets : Stale(k)
  /\ buckets' = {k \in buckets : ~Stale(k)}
  /\ tokens' = [k \in Keys |-> IF k \in buckets' THEN tokens[k] ELSE 0]
  /\ refillAt' = [k \in Keys |-> IF k \in buckets' THEN refillAt[k] ELSE 0]
  /\ UNCHANGED <<clock, countVars>>

LimiterNext ==
  \/ TimePasses
  \/ \E category \in Categories, c \in Clients : Request(category, c)
  \/ PurgeStale

LimiterSpec == LimiterInit /\ [][LimiterNext]_limiterVars

-----------------------------------------------------------------------------
(* Properties *)

\* What a full bucket of the watched key is worth, in time.
Size == Cap[watched[1]] * Rate

\* A bucket that is stale would be full by then, so that forgetting it gives
\* nothing away: "auth" and "write", but not "auth_user" and "read".
FullWhenStale == Size <= StaleAge

\* The time from `from` to t, and the part of a token that was earned before.
Since(t) == t - from + Rate - 1

\* Over any time, a client gets no more than a full bucket and one token per
\* Rate, also across refills with remainders and purges (ratelimit.go:66-90) ...
WindowBound ==
  FullWhenStale /\ clock >= from => passed * Rate <= Size + Since(clock)

\* ... and in the categories whose purge forgets a debt (ratelimit.go:53), no
\* more than one further bucket per StaleAge.
OneBucketPerPurge ==
  clock >= from =>
    passed * Rate <= Size * (1 + Since(clock) \div StaleAge) + Since(clock)

\* A client that polls faster than its bucket refills is never locked out: when
\* it is refused, it had passed less than one Rate before.
RefusedIsRecent == drought < Rate

\* A client gets what the rate promises: no more over any time, and no less
\* often (ratelimit.go:66-90).
RateIsKept == WindowBound /\ OneBucketPerPurge /\ RefusedIsRecent
=============================================================================
