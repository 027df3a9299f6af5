----------------------------- MODULE PeopleProofs -----------------------------
(***************************************************************************)
(* Proofs about what the server keeps for one person: the request budget   *)
(* (RateLimiter), the friends (Friends), the account with its tier and     *)
(* device (Accounts), and the presence (Presence).  The four share no      *)
(* state; each has an inductive invariant of its own.                      *)
(***************************************************************************)
EXTENDS RateLimiter, Friends, Accounts, Presence, TLAPS

-----------------------------------------------------------------------------
(***************************************************************************)
(* WindowBound, OneBucketPerPurge and RefusedIsRecent for any bucket size, *)
(* rate and number of clients.  What a client has spent since `from` and   *)
(* what its bucket still holds are paid for by one full bucket and by the  *)
(* time up to refillAt (not up to now: the remainder is not spent yet).    *)
(* While the bucket is forgotten, the full bucket that the next request    *)
(* will get has been paid for by the time it lay still, or is the bonus    *)
(* of the purge.                                                           *)
(***************************************************************************)

\* What purges may have given up to time t.
Bonus(t) == IF FullWhenStale THEN 0 ELSE Size * (Since(t) \div StaleAge)

\* Nothing is counted before `from`.
Uncounted == clock < from => passed = 0

\* Only a pass takes the last token.
Drained ==
  /\ lastPass <= clock
  /\ watched \in buckets /\ tokens[watched] = 0 => refillAt[watched] <= lastPass

\* The account of a bucket ...
Paid ==
  watched \in buckets =>
    IF refillAt[watched] <= from - Rate
      THEN passed = 0
      ELSE (passed + tokens[watched]) * Rate
             <= Size + Bonus(refillAt[watched]) + Since(refillAt[watched])

\* ... and of a forgotten one.
Forgotten ==
  watched \notin buckets =>
    passed = 0 \/ passed * Rate <= Bonus(clock) + Since(clock)

LimiterInv ==
  LimiterTypeOK /\ Uncounted /\ Drained /\ Paid /\ Forgotten /\ RefusedIsRecent

-----------------------------------------------------------------------------
(* Arithmetic *)

LEMMA Quotient ==
  ASSUME NEW e \in Nat, NEW r \in Nat \ {0}
  PROVE  /\ e \div r \in Nat
         /\ (e \div r) * r <= e
         /\ e < (e \div r) * r + r
  OBVIOUS

LEMMA QuotientGrows ==
  ASSUME NEW d \in Nat, NEW e \in Nat, NEW r \in Nat \ {0}
  PROVE  /\ d <= e => d \div r <= e \div r
         /\ d + r <= e => (d \div r) + 1 <= e \div r
  OBVIOUS

LEMMA Distribute ==
  ASSUME NEW a \in Int, NEW b \in Int, NEW r \in Int
  PROVE  (a + b) * r = a * r + b * r
  OBVIOUS

LEMMA TimesGrows ==
  ASSUME NEW a \in Int, NEW b \in Int, NEW r \in Nat, a <= b
  PROVE  a * r <= b * r /\ r * a <= r * b
  OBVIOUS

LEMMA SizeIsNat ==
  ASSUME watched \in Keys
  PROVE  Cap[watched[1]] \in Nat \ {0} /\ Size \in Nat
<1>1. Cap[watched[1]] \in Nat \ {0}
  BY RateLimiterAssumption DEF Keys
<1>. QED
  BY <1>1, RateLimiterAssumption DEF Size

\* Bonuses do not shrink, and a purge is worth what a full bucket is.
LEMMA BonusGrows ==
  ASSUME watched \in Keys, from \in Nat, NEW t \in Int, NEW u \in Int,
         from - Rate < t, t <= u
  PROVE  /\ Bonus(t) \in Nat /\ Bonus(u) \in Nat /\ Bonus(t) <= Bonus(u)
         /\ Since(t) \in Nat /\ Since(u) \in Nat
         /\ t + StaleAge < u => Size + Bonus(t) + Since(t) <= Bonus(u) + Since(u)
<1>. DEFINE q == Since(t) \div StaleAge
            p == Since(u) \div StaleAge
<1>1. /\ Since(t) \in Nat /\ Since(u) \in Nat /\ Since(t) <= Since(u)
      /\ t + StaleAge < u => Since(t) + StaleAge <= Since(u)
      /\ StaleAge \in Nat \ {0}
  BY RateLimiterAssumption DEF Since
<1>2. /\ q \in Nat /\ p \in Nat /\ q <= p
      /\ t + StaleAge < u => q + 1 <= p
  BY <1>1, Quotient, QuotientGrows
<1>3. Size \in Nat /\ Size * q \in Nat /\ Size * p \in Nat /\ Size * (q + 1) = Size * q + Size
  BY <1>2, SizeIsNat
<1>4. /\ Size * q <= Size * p
      /\ t + StaleAge < u => Size * q + Size <= Size * p
  BY <1>2, <1>3, TimesGrows
<1>5. CASE FullWhenStale
  BY <1>1, <1>3, <1>5 DEF Bonus, FullWhenStale
<1>6. CASE ~FullWhenStale
  BY <1>1, <1>3, <1>4, <1>6 DEF Bonus
<1>. QED
  BY <1>5, <1>6

-----------------------------------------------------------------------------

\* What allow computes before it decides: the tokens are within the limit, the
\* refill leaves less than one Rate behind.
LEMMA Refilled ==
  ASSUME LimiterTypeOK, NEW k \in Keys
  PROVE  /\ TokensNow(k) \in Nat /\ TokensNow(k) <= Cap[k[1]]
         /\ RefilledTo(k) \in Nat /\ RefilledTo(k) <= clock /\ clock < RefilledTo(k) + Rate
         /\ k \in buckets =>
              /\ Refill(k) \in Nat /\ Refill(k) * Rate \in Nat
              /\ RefilledTo(k) = refillAt[k] + Refill(k) * Rate
              /\ TokensNow(k) <= tokens[k] + Refill(k)
              /\ TokensNow(k) \in {tokens[k] + Refill(k), Cap[k[1]]}
         /\ k \notin buckets => TokensNow(k) = Cap[k[1]] /\ RefilledTo(k) = clock
         /\ Cap[k[1]] \in Nat \ {0}
<1>. USE RateLimiterAssumption DEF LimiterTypeOK
<1>1. Cap[k[1]] \in Nat \ {0}
  BY DEF Keys
<1>2. CASE k \in buckets
  <2>. DEFINE e == clock - refillAt[k]
  <2>1. e \in Nat
    BY <1>2
  <2>2. Refill(k) = e \div Rate
    BY DEF Refill
  <2>. HIDE DEF e
  <2>3. Refill(k) \in Nat /\ Refill(k) * Rate <= e /\ e < Refill(k) * Rate + Rate
    BY <2>1, <2>2, Quotient
  <2>4. Refill(k) * Rate \in Nat
    BY <2>3
  <2>. QED
    BY <1>1, <1>2, <2>3, <2>4 DEF e, TokensNow, RefilledTo, Lesser
<1>3. CASE k \notin buckets
  BY <1>1, <1>3 DEF TokensNow, RefilledTo
<1>. QED
  BY <1>1, <1>2, <1>3

\* The account balances at the moment of the decision.
LEMMA Balance ==
  ASSUME LimiterInv
  PROVE  IF RefilledTo(watched) <= from - Rate
           THEN passed = 0 /\ clock < from
           ELSE (passed + TokensNow(watched)) * Rate
                  <= Size + Bonus(RefilledTo(watched)) + Since(RefilledTo(watched))
<1>. DEFINE T == TokensNow(watched)
            F == RefilledTo(watched)
            r == refillAt[watched]
            n == Refill(watched)
            held == tokens[watched]
<1>1. /\ clock \in Nat /\ from \in Nat /\ passed \in Nat /\ watched \in Keys
      /\ held \in Nat /\ r \in Nat /\ Rate \in Nat \ {0}
  BY RateLimiterAssumption DEF LimiterInv, LimiterTypeOK
<1>2. /\ T \in Nat /\ T <= Cap[watched[1]]
      /\ F \in Nat /\ F <= clock /\ clock < F + Rate
      /\ watched \in buckets => /\ n \in Nat /\ n * Rate \in Nat /\ F = r + n * Rate
                                /\ T <= held + n
      /\ watched \notin buckets => T = Cap[watched[1]] /\ F = clock
      /\ Cap[watched[1]] \in Nat \ {0}
  BY <1>1, Refilled DEF LimiterInv
<1>3. Size \in Nat /\ Size = Cap[watched[1]] * Rate
  BY <1>1, SizeIsNat DEF Size
<1>. HIDE DEF T, F, r, n, held
<1>4. CASE F <= from - Rate
  <2>1. clock < from
    BY <1>1, <1>2, <1>4
  <2>. QED
    BY <1>4, <2>1 DEF LimiterInv, Uncounted, F
<1>5. CASE ~(F <= from - Rate)
  <2>1. Bonus(F) \in Nat /\ Since(F) \in Nat
    BY <1>1, <1>2, <1>5, BonusGrows
  <2>2. CASE passed = 0
    <3>1. T * Rate <= Size
      BY <1>1, <1>2, <1>3, TimesGrows
    <3>2. passed + T = T
      BY <1>2, <2>2
    <3>3. T * Rate \in Nat
      BY <1>1, <1>2
    <3>. QED
      BY <1>3, <1>5, <2>1, <3>1, <3>2, <3>3 DEF T, F
  <2>3. CASE passed # 0 /\ watched \in buckets
    <3>1. /\ ~(r <= from - Rate)
          /\ (passed + held) * Rate <= Size + Bonus(r) + Since(r)
      BY <2>3 DEF LimiterInv, Paid, r, held
    <3>2. /\ F = r + n * Rate /\ n \in Nat /\ n * Rate \in Nat /\ T <= held + n
      BY <1>2, <2>3
    <3>3. (passed + T) * Rate <= (passed + held) * Rate + n * Rate
      <4>1. (passed + T) * Rate <= ((passed + held) + n) * Rate
        BY <1>1, <1>2, <3>2, TimesGrows
      <4>2. ((passed + held) + n) * Rate = (passed + held) * Rate + n * Rate
        BY <1>1, <3>2, Distribute
      <4>. QED
        BY <4>1, <4>2
    <3>4. /\ Bonus(r) <= Bonus(F) /\ Bonus(r) \in Nat
          /\ Since(r) \in Nat /\ Since(F) = Since(r) + n * Rate
      <4>1. Bonus(r) <= Bonus(F) /\ Bonus(r) \in Nat /\ Since(r) \in Nat
        BY <1>1, <3>1, <3>2, BonusGrows
      <4>2. Since(F) = Since(r) + n * Rate
        BY <1>1, <3>2 DEF Since
      <4>. QED
        BY <4>1, <4>2
    <3>5. (passed + held) * Rate \in Nat /\ (passed + T) * Rate \in Nat
      BY <1>1, <1>2
    <3>. QED
      BY <1>3, <1>5, <2>1, <3>1, <3>2, <3>3, <3>4, <3>5 DEF T, F
  <2>4. CASE passed # 0 /\ watched \notin buckets
    <3>1. passed * Rate <= Bonus(F) + Since(F) /\ T = Cap[watched[1]]
      BY <1>2, <2>4 DEF LimiterInv, Forgotten
    <3>2. (passed + T) * Rate = passed * Rate + Size
      BY <1>1, <1>2, <1>3, <3>1, Distribute
    <3>3. passed * Rate \in Nat
      BY <1>1
    <3>. QED
      BY <1>3, <1>5, <2>1, <3>1, <3>2, <3>3 DEF T, F
  <2>. QED
    BY <2>2, <2>3, <2>4
<1>. QED
  BY <1>4, <1>5

-----------------------------------------------------------------------------

LEMMA LimiterInitInv == LimiterInit => LimiterInv
  BY RateLimiterAssumption DEF LimiterInit, LimiterInv, LimiterTypeOK, Uncounted, Drained, Paid,
     Forgotten, RefusedIsRecent

LEMMA TimePassesStep == ASSUME LimiterInv, TimePasses PROVE LimiterInv'
<1>1. /\ clock' = clock + 1 /\ clock \in Nat /\ from \in Nat /\ passed \in Nat /\ Rate \in Nat \ {0}
      /\ watched \in Keys
      /\ buckets' = buckets /\ tokens' = tokens /\ refillAt' = refillAt
      /\ watched' = watched /\ from' = from /\ passed' = passed /\ lastPass' = lastPass
      /\ drought' = drought
  BY RateLimiterAssumption
     DEF LimiterInv, LimiterTypeOK, TimePasses, bucketVars, countVars
<1>2. LimiterTypeOK' /\ Uncounted' /\ Drained' /\ RefusedIsRecent'
  BY <1>1 DEF LimiterInv, LimiterTypeOK, Uncounted, Drained, RefusedIsRecent
<1>3. Paid'
  BY <1>1 DEF LimiterInv, Paid, Bonus, Since, FullWhenStale, Size
<1>4. Forgotten'
  <2>. SUFFICES ASSUME watched \notin buckets, passed # 0
                PROVE  passed * Rate <= Bonus(clock)' + Since(clock)'
    BY <1>1 DEF Forgotten
  <2>1. passed * Rate <= Bonus(clock) + Since(clock) /\ from <= clock
    BY <1>1 DEF LimiterInv, Forgotten, Uncounted
  <2>2. /\ Bonus(clock)' = Bonus(clock + 1) /\ Since(clock)' = Since(clock + 1)
    BY <1>1 DEF Bonus, Since, FullWhenStale, Size
  <2>3. /\ Bonus(clock) <= Bonus(clock + 1) /\ Bonus(clock) \in Nat /\ Bonus(clock + 1) \in Nat
        /\ Since(clock) \in Nat /\ Since(clock + 1) \in Nat
    BY <1>1, <2>1, BonusGrows
  <2>4. Since(clock) <= Since(clock + 1) /\ passed * Rate \in Nat
    BY <1>1 DEF Since
  <2>. QED
    BY <2>1, <2>2, <2>3, <2>4
<1>. QED
  BY <1>2, <1>3, <1>4 DEF LimiterInv

\* A request of another bucket, or one that leaves the watched bucket as allow
\* computed it, less the token it took.
LEMMA RequestStep ==
  ASSUME LimiterInv, NEW k \in Keys, Pass(k) \/ Refuse(k)
  PROVE  LimiterInv'
<1>0. /\ clock' = clock /\ watched' = watched /\ from' = from
      /\ refillAt' = [refillAt EXCEPT ![k] = RefilledTo(k)]
      /\ clock \in Nat /\ from \in Nat /\ passed \in Nat /\ lastPass \in Nat /\ drought \in Nat
      /\ watched \in Keys /\ Rate \in Nat \ {0}
      /\ \A j \in Keys : tokens[j] \in Nat /\ refillAt[j] \in Nat
  BY RateLimiterAssumption DEF LimiterInv, LimiterTypeOK, Pass, Refuse
<1>1. /\ TokensNow(k) \in Nat /\ TokensNow(k) <= Cap[k[1]]
      /\ RefilledTo(k) \in Nat /\ RefilledTo(k) <= clock /\ clock < RefilledTo(k) + Rate
      /\ Cap[k[1]] \in Nat \ {0}
      /\ k \in buckets =>
           /\ Refill(k) \in Nat /\ RefilledTo(k) = refillAt[k] + Refill(k) * Rate
           /\ TokensNow(k) \in {tokens[k] + Refill(k), Cap[k[1]]}
      /\ k \notin buckets => TokensNow(k) = Cap[k[1]]
  BY Refilled DEF LimiterInv
<1>2. \/ /\ TokensNow(k) > 0 /\ buckets' = buckets \cup {k}
         /\ tokens' = [tokens EXCEPT ![k] = TokensNow(k) - 1]
         /\ passed' = IF k = watched /\ clock >= from THEN passed + 1 ELSE passed
         /\ lastPass' = IF k = watched THEN clock ELSE lastPass
         /\ drought' = drought
      \/ /\ TokensNow(k) = 0 /\ buckets' = buckets /\ k \in buckets
         /\ tokens' = [tokens EXCEPT ![k] = TokensNow(k)]
         /\ passed' = passed /\ lastPass' = lastPass
         /\ drought' = IF k = watched /\ clock - lastPass > drought
                         THEN clock - lastPass ELSE drought
  BY <1>1 DEF Pass, Refuse
<1>3. LimiterTypeOK'
  <2>1. /\ clock' \in Nat /\ watched' \in Keys /\ from' \in Nat /\ passed' \in Nat
        /\ lastPass' \in Nat /\ buckets' \subseteq Keys
    BY <1>0, <1>2 DEF LimiterInv, LimiterTypeOK
  <2>2. drought' \in Nat
    BY <1>0, <1>2 DEF LimiterInv, Drained
  <2>3. /\ tokens' \in [Keys -> Nat] /\ refillAt' \in [Keys -> Nat]
        /\ \A j \in buckets' : tokens'[j] <= Cap[j[1]] /\ refillAt'[j] <= clock
    BY <1>0, <1>1, <1>2 DEF LimiterInv, LimiterTypeOK
  <2>. QED
    BY <1>0, <2>1, <2>2, <2>3 DEF LimiterTypeOK
<1>4. CASE k # watched
  <2>1. /\ tokens'[watched] = tokens[watched] /\ refillAt'[watched] = refillAt[watched]
        /\ watched \in buckets' <=> watched \in buckets
        /\ passed' = passed /\ lastPass' = lastPass /\ drought' = drought
    BY <1>0, <1>2, <1>4 DEF LimiterInv, LimiterTypeOK
  <2>2. Uncounted' /\ Drained' /\ RefusedIsRecent'
    BY <1>0, <2>1 DEF LimiterInv, Uncounted, Drained, RefusedIsRecent
  <2>3. Paid' /\ Forgotten'
    BY <1>0, <2>1 DEF LimiterInv, Paid, Forgotten, Bonus, Since, FullWhenStale, Size
  <2>. QED
    BY <1>3, <2>2, <2>3 DEF LimiterInv
<1>5. CASE k = watched
  <2>1. /\ refillAt'[watched] = RefilledTo(watched)
        /\ watched \in buckets'
        /\ tokens'[watched] \in Nat /\ passed' \in Nat
        /\ passed' + tokens'[watched] <= passed + TokensNow(watched)
        /\ clock < from => passed' = passed
    BY <1>0, <1>1, <1>2, <1>5 DEF LimiterInv, LimiterTypeOK
  <2>2. Uncounted'
    BY <1>0, <2>1 DEF LimiterInv, Uncounted
  <2>3. Drained' /\ RefusedIsRecent'
    <3>1. CASE TokensNow(k) > 0
      BY <1>0, <1>1, <1>2, <1>5, <2>1, <3>1 DEF LimiterInv, Drained, RefusedIsRecent
    <3>2. CASE TokensNow(k) = 0
      <4>1. k \in buckets /\ tokens[k] = 0 /\ Refill(k) = 0
        BY <1>0, <1>1, <3>2
      <4>2. RefilledTo(k) <= lastPass
        BY <1>0, <1>1, <1>5, <4>1 DEF LimiterInv, Drained
      <4>. QED
        BY <1>0, <1>1, <1>2, <1>5, <2>1, <3>2, <4>2 DEF LimiterInv, Drained, RefusedIsRecent
    <3>. QED
      BY <1>1, <3>1, <3>2
  <2>4. Paid'
    <3>. DEFINE F == RefilledTo(watched)
    <3>1. /\ Size' = Size /\ Since(refillAt[watched])' = Since(F)
          /\ Bonus(refillAt[watched])' = Bonus(F)
      BY <1>0, <2>1 DEF Size, Since, Bonus, FullWhenStale
    <3>2. CASE F <= from - Rate
      BY <1>0, <2>1, <3>2, Balance DEF Paid
    <3>3. CASE ~(F <= from - Rate)
      <4>1. (passed + TokensNow(watched)) * Rate <= Size + Bonus(F) + Since(F)
        BY <3>3, Balance
      <4>2. (passed' + tokens'[watched]) * Rate <= (passed + TokensNow(watched)) * Rate
        BY <1>0, <1>1, <1>5, <2>1, TimesGrows
      <4>3. Size \in Nat /\ Bonus(F) \in Nat /\ Since(F) \in Nat
        BY <1>0, <1>1, <1>5, <3>3, SizeIsNat, BonusGrows
      <4>4. /\ (passed' + tokens'[watched]) * Rate \in Nat
            /\ (passed + TokensNow(watched)) * Rate \in Nat
        BY <1>0, <1>1, <1>5, <2>1
      <4>5. (passed' + tokens'[watched]) * Rate <= Size + Bonus(F) + Since(F)
        BY <4>1, <4>2, <4>3, <4>4
      <4>. QED
        BY <1>0, <2>1, <3>1, <3>3, <4>5 DEF Paid
    <3>. QED
      BY <3>2, <3>3
  <2>5. Forgotten'
    BY <1>0, <2>1 DEF Forgotten
  <2>. QED
    BY <1>3, <2>2, <2>3, <2>4, <2>5 DEF LimiterInv
<1>. QED
  BY <1>4, <1>5

LEMMA PurgeStep == ASSUME LimiterInv, PurgeStale PROVE LimiterInv'
<1>1. /\ clock' = clock /\ watched' = watched /\ from' = from /\ passed' = passed
      /\ lastPass' = lastPass /\ drought' = drought
      /\ clock \in Nat /\ from \in Nat /\ passed \in Nat /\ watched \in Keys
      /\ Rate \in Nat \ {0} /\ StaleAge \in Nat \ {0}
      /\ buckets' = {k \in buckets : ~Stale(k)}
      /\ \A k \in buckets' : tokens'[k] = tokens[k] /\ refillAt'[k] = refillAt[k]
  BY RateLimiterAssumption DEF LimiterInv, LimiterTypeOK, PurgeStale, countVars
<1>2. LimiterTypeOK'
  BY <1>1 DEF LimiterInv, LimiterTypeOK, PurgeStale
<1>3. Uncounted' /\ Drained' /\ RefusedIsRecent'
  BY <1>1 DEF LimiterInv, Uncounted, Drained, RefusedIsRecent
<1>4. Paid'
  BY <1>1 DEF LimiterInv, Paid, Bonus, Since, FullWhenStale, Size
<1>5. Forgotten'
  <2>1. Bonus(clock)' = Bonus(clock) /\ Since(clock)' = Since(clock)
    BY <1>1 DEF Bonus, Since, FullWhenStale, Size
  <2>. SUFFICES ASSUME watched \notin buckets', passed # 0
                PROVE  passed * Rate <= Bonus(clock) + Since(clock)
    BY <1>1, <2>1 DEF Forgotten
  <2>2. CASE watched \notin buckets
    BY <2>2 DEF LimiterInv, Forgotten
  <2>3. CASE watched \in buckets
    <3>. DEFINE r == refillAt[watched]
                held == tokens[watched]
    <3>1. r < clock - StaleAge
      BY <1>1, <2>3 DEF Stale
    <3>2. /\ ~(r <= from - Rate)
          /\ (passed + held) * Rate <= Size + Bonus(r) + Since(r)
      BY <2>3 DEF LimiterInv, Paid
    <3>3. r \in Nat /\ held \in Nat /\ Size \in Nat
      BY <1>1, SizeIsNat DEF LimiterInv, LimiterTypeOK
    <3>. HIDE DEF r, held
    <3>4. /\ Size + Bonus(r) + Since(r) <= Bonus(clock) + Since(clock)
          /\ Bonus(r) \in Nat /\ Since(r) \in Nat /\ Bonus(clock) \in Nat /\ Since(clock) \in Nat
      BY <1>1, <3>1, <3>2, <3>3, BonusGrows
    <3>5. passed * Rate <= (passed + held) * Rate
      BY <1>1, <3>3, TimesGrows
    <3>6. passed * Rate \in Nat /\ (passed + held) * Rate \in Nat
      BY <1>1, <3>3
    <3>. QED
      BY <3>2, <3>3, <3>4, <3>5, <3>6
  <2>. QED
    BY <2>2, <2>3
<1>. QED
  BY <1>2, <1>3, <1>4, <1>5 DEF LimiterInv

LEMMA LimiterStep == LimiterInv /\ [LimiterNext]_limiterVars => LimiterInv'
<1>. SUFFICES ASSUME LimiterInv, [LimiterNext]_limiterVars PROVE LimiterInv'
  OBVIOUS
<1>1. CASE TimePasses
  BY <1>1, TimePassesStep
<1>2. ASSUME NEW category \in Categories, NEW c \in Clients, Request(category, c)
      PROVE  LimiterInv'
  <2>1. <<category, c>> \in Keys
    BY DEF Keys
  <2>. QED
    BY <1>2, <2>1, RequestStep DEF Request
<1>3. CASE PurgeStale
  BY <1>3, PurgeStep
<1>4. CASE UNCHANGED limiterVars
  <2>. USE <1>4 DEF limiterVars, bucketVars, countVars, LimiterInv
  <2>1. LimiterTypeOK' /\ Uncounted' /\ Drained' /\ RefusedIsRecent'
    BY DEF LimiterTypeOK, Uncounted, Drained, RefusedIsRecent
  <2>2. Paid' /\ Forgotten'
    BY DEF Paid, Forgotten, Bonus, Since, FullWhenStale, Size
  <2>. QED
    BY <2>1, <2>2
<1>. QED
  BY <1>1, <1>2, <1>3, <1>4 DEF LimiterNext

LEMMA LimiterInvariant == LimiterSpec => []LimiterInv
<1>. QED
  BY LimiterInitInv, LimiterStep, PTL DEF LimiterSpec

\* What a client got since any time, in the account's terms.
LEMMA Spent ==
  ASSUME LimiterInv, clock >= from
  PROVE  passed * Rate <= Size + Bonus(clock) + Since(clock)
<1>1. /\ clock \in Nat /\ from \in Nat /\ passed \in Nat /\ watched \in Keys
      /\ Rate \in Nat \ {0} /\ passed * Rate \in Nat /\ Size \in Nat
  BY RateLimiterAssumption, SizeIsNat DEF LimiterInv, LimiterTypeOK
<1>2. Bonus(clock) \in Nat /\ Since(clock) \in Nat
  BY <1>1, BonusGrows
<1>3. CASE passed = 0
  BY <1>1, <1>2, <1>3
<1>4. CASE passed # 0 /\ watched \notin buckets
  BY <1>1, <1>2, <1>4 DEF LimiterInv, Forgotten
<1>5. CASE passed # 0 /\ watched \in buckets
  <2>. DEFINE r == refillAt[watched]
              held == tokens[watched]
  <2>1. /\ ~(r <= from - Rate)
        /\ (passed + held) * Rate <= Size + Bonus(r) + Since(r)
    BY <1>5 DEF LimiterInv, Paid
  <2>2. r \in Nat /\ held \in Nat /\ r <= clock
    BY <1>1, <1>5 DEF LimiterInv, LimiterTypeOK
  <2>. HIDE DEF r, held
  <2>3. Bonus(r) <= Bonus(clock) /\ Bonus(r) \in Nat /\ Since(r) \in Nat
    BY <1>1, <2>1, <2>2, BonusGrows
  <2>4. Since(r) <= Since(clock)
    BY <1>1, <2>2 DEF Since
  <2>5. passed * Rate <= (passed + held) * Rate /\ (passed + held) * Rate \in Nat
    BY <1>1, <2>2, TimesGrows
  <2>. QED
    BY <1>1, <1>2, <2>1, <2>3, <2>4, <2>5
<1>. QED
  BY <1>3, <1>4, <1>5

\* The types; a bucket never holds more than its limit nor a refill of the future.
THEOREM LimiterTypes == LimiterSpec => []LimiterTypeOK
<1>1. LimiterInv => LimiterTypeOK
  BY DEF LimiterInv
<1>. QED
  BY <1>1, LimiterInvariant, PTL

\* Where a stale bucket is full, a client gets no more than a bucket and the
\* tokens of the time, over any stretch of time.
THEOREM WindowIsBounded == LimiterSpec => []WindowBound
<1>1. LimiterInv => WindowBound
  <2>. SUFFICES ASSUME LimiterInv, FullWhenStale, clock >= from
                PROVE  passed * Rate <= Size + Since(clock)
    BY DEF WindowBound
  <2>1. Bonus(clock) = 0
    BY DEF Bonus
  <2>2. Size \in Nat /\ Since(clock) \in Int
    BY SizeIsNat, RateLimiterAssumption DEF LimiterInv, LimiterTypeOK, Since
  <2>. QED
    BY <2>1, <2>2, Spent
<1>. QED
  BY <1>1, LimiterInvariant, PTL

\* Elsewhere, the purges give it one more bucket per StaleAge, and no more.
THEOREM PurgesAreBounded == LimiterSpec => []OneBucketPerPurge
<1>1. LimiterInv => OneBucketPerPurge
  <2>. SUFFICES ASSUME LimiterInv, clock >= from
                PROVE  passed * Rate <= Size * (1 + Since(clock) \div StaleAge) + Since(clock)
    BY DEF OneBucketPerPurge
  <2>. DEFINE q == Since(clock) \div StaleAge
  <2>1. /\ watched \in Keys /\ clock \in Nat /\ from \in Nat /\ passed * Rate \in Nat
        /\ Since(clock) \in Nat /\ StaleAge \in Nat \ {0}
    BY RateLimiterAssumption DEF LimiterInv, LimiterTypeOK, Since
  <2>2. Size \in Nat /\ q \in Nat
    BY <2>1, SizeIsNat, Quotient
  <2>3. Size * q \in Nat /\ Size * (1 + q) = Size + Size * q
    BY <2>2
  <2>4. Bonus(clock) <= Size * q /\ Bonus(clock) \in Nat
    BY <2>3 DEF Bonus
  <2>. HIDE DEF q
  <2>5. passed * Rate <= Size + Bonus(clock) + Since(clock)
    BY Spent
  <2>6. passed * Rate <= Size * (1 + q) + Since(clock)
    BY <2>1, <2>2, <2>3, <2>4, <2>5
  <2>. QED
    BY <2>6 DEF q
<1>. QED
  BY <1>1, LimiterInvariant, PTL

\* A client is refused only within one Rate of its last pass.
THEOREM RefusalIsRecent == LimiterSpec => []RefusedIsRecent
<1>1. LimiterInv => RefusedIsRecent
  BY DEF LimiterInv
<1>. QED
  BY <1>1, LimiterInvariant, PTL

\* All three at once: the rate is kept for every capacity, rate and age.
THEOREM RateAlwaysKept == LimiterSpec => []RateIsKept
BY WindowIsBounded, PurgesAreBounded, RefusalIsRecent, PTL DEF RateIsKept

-----------------------------------------------------------------------------
(***************************************************************************)
(* FriendsByConsent, AnsweredOnce and SentIsKept for any users and any     *)
(* number of requests.  The row of a pair must be tied to the history of   *)
(* its id: a pending row is of the pair that the id was sent for, nobody   *)
(* answered it, and no other row has it.                                   *)
(***************************************************************************)

\* What every row says of its id.
RowsOk ==
  \A a, b \in Users :
    status[<<a, b>>] = "pending" =>
      LET i == requestId[<<a, b>>] IN
        /\ i \in 1 .. issued
        /\ sender[i] = a /\ recipient[i] = b
        /\ acceptedBy[i] = NoUser /\ declinedBy[i] = NoUser

\* Ids that were not given out are in no history.
FreshOk ==
  \A i \in Ids : i > issued =>
    /\ sender[i] = NoUser
    /\ acceptedBy[i] = NoUser /\ declinedBy[i] = NoUser /\ i \notin phantom

\* Only recipients answer.
AnswersOk ==
  \A i \in Ids : i <= issued =>
    /\ sender[i] \in Users /\ recipient[i] \in Users
    /\ acceptedBy[i] \in {NoUser, recipient[i]}
    /\ declinedBy[i] \in {NoUser, recipient[i]}

PhantomOk == phantom # {} => db = "pg"

FriendsInv ==
  /\ FriendsTypeOK
  /\ RowsOk /\ FreshOk /\ AnswersOk /\ PhantomOk
  /\ FriendsByConsent /\ AnsweredOnce /\ SentIsKept

LEMMA FriendsInitInv == FriendsInit => FriendsInv
  BY FriendsAssumption DEF FriendsInit, FriendsInv, FriendsTypeOK, RowsOk, FreshOk, AnswersOk,
     PhantomOk, FriendsByConsent, AnsweredOnce, SentIsKept, Pairs, Ids

\* Consent outlives a step that makes no friends and keeps the answered ids.
LEMMA ConsentStep ==
  ASSUME FriendsByConsent, friends' = friends,
         NEW new,
         \A i \in Ids : recipient[i] \in Users \cup {NoUser},
         \A i \in Ids : i # new => /\ sender'[i] = sender[i] /\ recipient'[i] = recipient[i]
                                  /\ acceptedBy'[i] = acceptedBy[i]
                                  /\ declinedBy'[i] = declinedBy[i],
         \A i \in Ids : acceptedBy[i] = recipient[i] /\ recipient[i] \in Users => i # new
  PROVE  FriendsByConsent'
<1>. SUFFICES ASSUME NEW a \in Users, NEW b \in Users, <<a, b>> \in friends
              PROVE  /\ <<b, a>> \in friends
                     /\ \E i \in Ids : /\ {sender'[i], recipient'[i]} = {a, b}
                                      /\ acceptedBy'[i] = recipient'[i]
                                      /\ declinedBy'[i] = NoUser
  BY DEF FriendsByConsent
<1>1. PICK i \in Ids : /\ {sender[i], recipient[i]} = {a, b}
                       /\ acceptedBy[i] = recipient[i] /\ declinedBy[i] = NoUser
  BY DEF FriendsByConsent
<1>2. recipient[i] \in {a, b}
  BY <1>1
<1>3. i # new
  BY <1>1, <1>2
<1>. QED
  BY <1>1, <1>3 DEF FriendsByConsent

\* A request is stored, or not stored because one is pending.
LEMMA SendStep ==
  ASSUME FriendsInv, NEW a \in Users, NEW b \in Users, SendFriendRequest(a, b)
  PROVE  FriendsInv'
<1>. DEFINE new == issued + 1
<1>0. /\ new \in Ids /\ issued' = new /\ issued \in Nat /\ NoUser \notin Users
      /\ MaxRequests \in Nat /\ issued < MaxRequests
      /\ <<a, b>> \in Pairs /\ \A c, d \in Users : <<c, d>> \in Pairs
      /\ StoreRequest(a, b) \/ (status[<<a, b>>] = "pending" /\ KeepRequest)
  BY FriendsAssumption DEF FriendsInv, FriendsTypeOK, SendFriendRequest, Ids, Pairs
<1>1. FriendsTypeOK'
  <2>1. /\ db' \in {"pg", "json"} /\ friends' \subseteq Pairs
        /\ acceptedBy' \in [Ids -> Users \cup {NoUser}]
        /\ declinedBy' \in [Ids -> Users \cup {NoUser}]
    BY DEF FriendsInv, FriendsTypeOK, SendFriendRequest
  <2>4. issued' \in 0 .. MaxRequests
    BY <1>0
  <2>5. phantom' \subseteq Ids
    <3>1. phantom' = phantom \/ phantom' = phantom \cup {new}
      BY <1>0 DEF StoreRequest, KeepRequest
    <3>. QED
      BY <1>0, <3>1 DEF FriendsInv, FriendsTypeOK
  <2>2. /\ sender' \in [Ids -> Users \cup {NoUser}]
        /\ recipient' \in [Ids -> Users \cup {NoUser}]
    BY <1>0 DEF FriendsInv, FriendsTypeOK, SendFriendRequest
  <2>3. /\ requestId' \in [Pairs -> 0 .. MaxRequests]
        /\ status' \in [Pairs -> {"none", "pending", "accepted", "rejected"}]
    <3>1. CASE StoreRequest(a, b)
      <4>. new \in 0 .. MaxRequests
        BY <1>0 DEF Ids
      <4>. QED
        BY <1>0, <3>1 DEF FriendsInv, FriendsTypeOK, StoreRequest
    <3>2. CASE KeepRequest
      BY <3>2 DEF FriendsInv, FriendsTypeOK, KeepRequest, requestVars
    <3>. QED
      BY <1>0, <3>1, <3>2
  <2>. QED
    BY <2>1, <2>2, <2>3, <2>4, <2>5 DEF FriendsTypeOK
<1>h. /\ sender'[new] = a /\ recipient'[new] = b
      /\ acceptedBy' = acceptedBy /\ declinedBy' = declinedBy
      /\ acceptedBy[new] = NoUser /\ declinedBy[new] = NoUser
      /\ \A i \in Ids : i # new => sender'[i] = sender[i] /\ recipient'[i] = recipient[i]
  BY <1>0 DEF FriendsInv, FriendsTypeOK, FreshOk, SendFriendRequest, Ids
<1>r. \A c, d \in Users :
        IF StoreRequest(a, b) /\ c = a /\ d = b
          THEN requestId'[<<c, d>>] = new /\ status'[<<c, d>>] = "pending"
          ELSE requestId'[<<c, d>>] = requestId[<<c, d>>] /\ status'[<<c, d>>] = status[<<c, d>>]
  <2>1. CASE StoreRequest(a, b)
    BY <1>0, <2>1 DEF FriendsInv, FriendsTypeOK, StoreRequest
  <2>2. CASE ~StoreRequest(a, b)
    BY <1>0, <2>2 DEF KeepRequest, requestVars
  <2>. QED
    BY <2>1, <2>2
<1>2. RowsOk'
  <2>. SUFFICES ASSUME NEW c \in Users, NEW d \in Users, status'[<<c, d>>] = "pending"
                PROVE  /\ requestId'[<<c, d>>] \in 1 .. issued'
                       /\ sender'[requestId'[<<c, d>>]] = c
                       /\ recipient'[requestId'[<<c, d>>]] = d
                       /\ acceptedBy'[requestId'[<<c, d>>]] = NoUser
                       /\ declinedBy'[requestId'[<<c, d>>]] = NoUser
    BY DEF RowsOk
  <2>1. CASE StoreRequest(a, b) /\ c = a /\ d = b
    BY <1>0, <1>h, <1>r, <2>1 DEF Ids
  <2>2. CASE ~(StoreRequest(a, b) /\ c = a /\ d = b)
    <3>1. requestId'[<<c, d>>] = requestId[<<c, d>>] /\ status[<<c, d>>] = "pending"
      BY <1>r, <2>2
    <3>2. /\ requestId[<<c, d>>] \in 1 .. issued
          /\ sender[requestId[<<c, d>>]] = c /\ recipient[requestId[<<c, d>>]] = d
          /\ acceptedBy[requestId[<<c, d>>]] = NoUser
          /\ declinedBy[requestId[<<c, d>>]] = NoUser
      BY <3>1 DEF FriendsInv, RowsOk
    <3>3. requestId[<<c, d>>] \in Ids /\ requestId[<<c, d>>] # new
      BY <1>0, <3>2 DEF Ids
    <3>. QED
      BY <1>0, <1>h, <3>1, <3>2, <3>3
  <2>. QED
    BY <2>1, <2>2
<1>3. FreshOk'
  BY <1>0 DEF FriendsInv, FriendsTypeOK, FreshOk, SendFriendRequest, StoreRequest,
     KeepRequest, requestVars, Ids
<1>4. AnswersOk'
  BY <1>0 DEF FriendsInv, FriendsTypeOK, FreshOk, AnswersOk, SendFriendRequest, Ids
<1>5. PhantomOk'
  BY <1>0 DEF FriendsInv, PhantomOk, SendFriendRequest, StoreRequest, KeepRequest
<1>6. FriendsByConsent'
  <2>1. friends' = friends
    BY DEF SendFriendRequest
  <2>2. ASSUME NEW i \in Ids, acceptedBy[i] = recipient[i], recipient[i] \in Users PROVE i # new
    BY <1>0, <1>h, <2>2
  <2>3. \A i \in Ids : recipient[i] \in Users \cup {NoUser}
    BY DEF FriendsInv, FriendsTypeOK
  <2>. QED
    BY <1>h, <2>1, <2>2, <2>3, ConsentStep DEF FriendsInv
<1>7. AnsweredOnce'
  BY DEF FriendsInv, AnsweredOnce, SendFriendRequest
<1>8. SentIsKept'
  <2>. SUFFICES ASSUME NEW i \in 1 .. issued'
                PROVE  \/ IsPending(<<sender[i], recipient[i]>>, i)'
                       \/ recipient'[i] \in {acceptedBy'[i], declinedBy'[i]}
                       \/ db' = "pg" /\ i \in phantom'
    BY DEF SentIsKept
  <2>0. db' = db
    BY DEF SendFriendRequest
  <2>1. CASE i = new
    <3>1. CASE StoreRequest(a, b)
      BY <1>h, <1>r, <2>1, <3>1 DEF IsPending
    <3>2. CASE KeepRequest
      BY <2>0, <2>1, <3>2 DEF KeepRequest
    <3>. QED
      BY <1>0, <3>1, <3>2
  <2>2. CASE i # new
    <3>1. /\ i \in 1 .. issued /\ i \in Ids
          /\ sender'[i] = sender[i] /\ recipient'[i] = recipient[i]
          /\ sender[i] \in Users /\ recipient[i] \in Users
      BY <1>0, <1>h, <2>2 DEF FriendsInv, AnswersOk, Ids
    <3>2. CASE IsPending(<<sender[i], recipient[i]>>, i)
      <4>. ~(StoreRequest(a, b) /\ sender[i] = a /\ recipient[i] = b)
        <5>. SUFFICES ASSUME StoreRequest(a, b), sender[i] = a, recipient[i] = b PROVE FALSE
          OBVIOUS
        <5>1. status[<<a, b>>] = "pending"
          BY <3>2 DEF IsPending
        <5>2. StoreRequest(a, b) /\ KeepRequest
          BY <5>1 DEF SendFriendRequest
        <5>. QED
          BY <1>0, <5>2 DEF StoreRequest, KeepRequest, FriendsInv, FreshOk
      <4>. QED
        BY <1>r, <3>1, <3>2 DEF IsPending
    <3>3. CASE recipient[i] \in {acceptedBy[i], declinedBy[i]}
      BY <1>h, <3>1, <3>3
    <3>4. CASE db = "pg" /\ i \in phantom
      BY <2>0, <3>4 DEF SendFriendRequest, StoreRequest, KeepRequest
    <3>. QED
      BY <3>1, <3>2, <3>3, <3>4 DEF FriendsInv, SentIsKept
  <2>. QED
    BY <2>1, <2>2
<1>. QED
  BY <1>1, <1>2, <1>3, <1>4, <1>5, <1>6, <1>7, <1>8 DEF FriendsInv

LEMMA AcceptStep ==
  ASSUME FriendsInv, NEW u \in Users, NEW i \in Ids, AcceptFriendRequest(u, i)
  PROVE  FriendsInv'
<1>0. PICK a \in Users, b \in Users :
        /\ IsPending(<<a, b>>, i) /\ u = b
        /\ status' = [status EXCEPT ![<<a, b>>] = "accepted"]
        /\ friends' = friends \cup {<<a, b>>, <<b, a>>}
        /\ acceptedBy' = [acceptedBy EXCEPT ![i] = u]
        /\ UNCHANGED <<db, requestId, issued, sender, recipient, phantom, declinedBy>>
  BY DEF AcceptFriendRequest, MayAnswer, Befriend
<1>a. /\ NoUser \notin Users /\ issued \in Nat /\ i <= issued
      /\ <<a, b>> \in Pairs /\ \A c, d \in Users : <<c, d>> \in Pairs
      /\ sender[i] = a /\ recipient[i] = b
      /\ acceptedBy[i] = NoUser /\ declinedBy[i] = NoUser
  BY <1>0, FriendsAssumption DEF FriendsInv, FriendsTypeOK, RowsOk, IsPending, Ids, Pairs
<1>1. FriendsTypeOK'
  BY <1>0, <1>a DEF FriendsInv, FriendsTypeOK
<1>2. RowsOk'
  BY <1>0, <1>a DEF FriendsInv, FriendsTypeOK, RowsOk, Ids
<1>3. FreshOk' /\ PhantomOk'
  BY <1>0, <1>a DEF FriendsInv, FriendsTypeOK, FreshOk, PhantomOk, Ids
<1>4. AnswersOk'
  BY <1>0, <1>a DEF FriendsInv, FriendsTypeOK, AnswersOk
<1>6. FriendsByConsent'
  <2>. SUFFICES ASSUME NEW c \in Users, NEW d \in Users, <<c, d>> \in friends'
                PROVE  /\ <<d, c>> \in friends'
                       /\ \E j \in Ids : /\ {sender'[j], recipient'[j]} = {c, d}
                                        /\ acceptedBy'[j] = recipient'[j]
                                        /\ declinedBy'[j] = NoUser
    BY DEF FriendsByConsent
  <2>1. CASE <<c, d>> \in friends
    <3>1. PICK j \in Ids : /\ {sender[j], recipient[j]} = {c, d}
                           /\ acceptedBy[j] = recipient[j] /\ declinedBy[j] = NoUser
      BY <2>1 DEF FriendsInv, FriendsByConsent
    <3>2. recipient[j] \in {c, d}
      BY <3>1
    <3>3. j # i
      BY <1>a, <3>1, <3>2
    <3>4. acceptedBy'[j] = acceptedBy[j]
      BY <1>0, <3>3 DEF FriendsInv, FriendsTypeOK
    <3>5. <<d, c>> \in friends'
      BY <1>0, <2>1 DEF FriendsInv, FriendsByConsent
    <3>. QED
      BY <1>0, <3>1, <3>4, <3>5
  <2>2. CASE <<c, d>> \notin friends
    <3>1. /\ (c = a /\ d = b) \/ (c = b /\ d = a)
          /\ <<d, c>> \in friends'
      BY <1>0, <2>2
    <3>2. {a, b} = {c, d}
      BY <3>1
    <3>3. acceptedBy'[i] = b /\ declinedBy'[i] = NoUser
      BY <1>0, <1>a DEF FriendsInv, FriendsTypeOK
    <3>. QED
      BY <1>0, <1>a, <3>1, <3>2, <3>3
  <2>. QED
    BY <2>1, <2>2
<1>7. AnsweredOnce'
  BY <1>0, <1>a DEF FriendsInv, FriendsTypeOK, AnsweredOnce
<1>8. SentIsKept'
  BY <1>0, <1>a DEF FriendsInv, FriendsTypeOK, SentIsKept, IsPending, AnswersOk, Ids
<1>. QED
  BY <1>1, <1>2, <1>3, <1>4, <1>6, <1>7, <1>8 DEF FriendsInv

LEMMA RejectStep ==
  ASSUME FriendsInv, NEW u \in Users, NEW i \in Ids, RejectFriendRequest(u, i)
  PROVE  FriendsInv'
<1>0. PICK a \in Users, b \in Users :
        /\ IsPending(<<a, b>>, i) /\ u = b
        /\ status' = [status EXCEPT ![<<a, b>>] = "rejected"]
        /\ declinedBy' = [declinedBy EXCEPT ![i] = u]
        /\ UNCHANGED <<db, requestId, friends, issued, sender, recipient, phantom, acceptedBy>>
  BY DEF RejectFriendRequest, MayAnswer
<1>a. /\ NoUser \notin Users /\ issued \in Nat /\ i <= issued
      /\ <<a, b>> \in Pairs /\ \A c, d \in Users : <<c, d>> \in Pairs
      /\ sender[i] = a /\ recipient[i] = b
      /\ acceptedBy[i] = NoUser /\ declinedBy[i] = NoUser
  BY <1>0, FriendsAssumption DEF FriendsInv, FriendsTypeOK, RowsOk, IsPending, Ids, Pairs
<1>1. FriendsTypeOK'
  BY <1>0, <1>a DEF FriendsInv, FriendsTypeOK
<1>2. RowsOk'
  BY <1>0, <1>a DEF FriendsInv, FriendsTypeOK, RowsOk, Ids
<1>3. FreshOk' /\ PhantomOk'
  BY <1>0, <1>a DEF FriendsInv, FriendsTypeOK, FreshOk, PhantomOk, Ids
<1>4. AnswersOk'
  BY <1>0, <1>a DEF FriendsInv, FriendsTypeOK, AnswersOk
<1>6. FriendsByConsent'
  <2>1. \A j \in Ids : j # i => declinedBy'[j] = declinedBy[j]
    BY <1>0 DEF FriendsInv, FriendsTypeOK
  <2>2. \A j \in Ids : recipient[j] \in Users \cup {NoUser}
    BY DEF FriendsInv, FriendsTypeOK
  <2>3. \A j \in Ids : acceptedBy[j] = recipient[j] /\ recipient[j] \in Users => j # i
    BY <1>a
  <2>. QED
    BY <1>0, <2>1, <2>2, <2>3, ConsentStep DEF FriendsInv
<1>7. AnsweredOnce'
  BY <1>0, <1>a DEF FriendsInv, FriendsTypeOK, AnsweredOnce
<1>8. SentIsKept'
  BY <1>0, <1>a DEF FriendsInv, FriendsTypeOK, SentIsKept, IsPending, AnswersOk, Ids
<1>. QED
  BY <1>1, <1>2, <1>3, <1>4, <1>6, <1>7, <1>8 DEF FriendsInv

LEMMA FriendsStep == FriendsInv /\ [FriendsNext]_friendsVars => FriendsInv'
<1>. SUFFICES ASSUME FriendsInv, [FriendsNext]_friendsVars PROVE FriendsInv'
  OBVIOUS
<1>1. CASE UNCHANGED friendsVars
  <2>. USE <1>1 DEF FriendsInv, friendsVars, requestVars
  <2>1. FriendsTypeOK' /\ RowsOk' /\ FreshOk' /\ AnswersOk' /\ PhantomOk' /\ AnsweredOnce'
    BY DEF FriendsTypeOK, RowsOk, FreshOk, AnswersOk, PhantomOk, AnsweredOnce
  <2>2. FriendsByConsent'
    BY DEF FriendsByConsent
  <2>3. SentIsKept'
    BY DEF SentIsKept, IsPending
  <2>. QED
    BY <2>1, <2>2, <2>3
<1>2. CASE FriendsNext
  BY <1>2, SendStep, AcceptStep, RejectStep DEF FriendsNext
<1>. QED
  BY <1>1, <1>2

LEMMA FriendsInvariant == FriendsSpec => []FriendsInv
<1>. QED
  BY FriendsInitInv, FriendsStep, PTL DEF FriendsSpec

\* Friends are the two users of a request that its recipient accepted and did
\* not decline, and each is the other's friend, in both stores.
THEOREM FriendsConsented == FriendsSpec => []FriendsByConsent
<1>1. FriendsInv => FriendsByConsent
  BY DEF FriendsInv
<1>. QED
  BY <1>1, FriendsInvariant, PTL

\* No request is both accepted and declined.
THEOREM RequestsAnsweredOnce == FriendsSpec => []AnsweredOnce
<1>1. FriendsInv => AnsweredOnce
  BY DEF FriendsInv
<1>. QED
  BY <1>1, FriendsInvariant, PTL

\* The id that a sender was given is pending, answered, or PostgreSQL's phantom.
THEOREM RequestsAreKept == FriendsSpec => []SentIsKept
<1>1. FriendsInv => SentIsKept
  BY DEF FriendsInv
<1>. QED
  BY <1>1, FriendsInvariant, PTL

-----------------------------------------------------------------------------
(***************************************************************************)
(* PayersKeepTheirTier and DeviceOnlyLostToAStaleRead for any keys,        *)
(* machines, calls and outages.  The first needs that "free" has an excuse *)
(* on its whole way into the row: as a verdict, an answer and a decision   *)
(* to downgrade.  The second needs what a call knows between its read and  *)
(* its write: while no login has been written since, the machine it read   *)
(* is that of the last login.                                              *)
(***************************************************************************)

\* Calls that read the row and write it back.
Readers == Syncs \cup {"sweeper"}

\* A call that asks has a key, and the sweeper only works on a row that exists.
Underway ==
  /\ \A c \in Calls : step[c] = "ask" => key[c] \in LicenseKeys
  /\ step["sweeper"] # "new" => tier # Nothing
  /\ step["sweeper"] # "over"

FreeHasAnExcuse ==
  /\ tier = "free" => excuse
  /\ \A k \in LicenseKeys : verdict[k] \in {"free", "lapsed"} => excuse
  /\ \A c \in Calls : answer[c] = "free" => excuse
  /\ step["sweeper"] = "downgrade" => excuse

ReadsAreDated ==
  \A c \in Readers : step[c] \in {"look", "ask", "upsert"} =>
    /\ readAt[c] <= logins
    /\ readAt[c] = logins /\ ~reverted => seen[c] = loggedIn

AccountsInv ==
  /\ AccountsTypeOK /\ Underway
  /\ FreeHasAnExcuse
  /\ ReadsAreDated /\ DeviceOnlyLostToAStaleRead

LEMMA AccountsInitInv == AccountsInit => AccountsInv
<1>. SUFFICES ASSUME AccountsInit PROVE AccountsInv
  OBVIOUS
<1>. USE AccountsAssumption DEF AccountsInit, Calls, Readers
<1>1. AccountsTypeOK
  <2>1. excuse \in BOOLEAN
    OBVIOUS
  <2>2. /\ changes \in 0 .. MaxChanges /\ outages \in 0 .. MaxOutages
        /\ step \in [Calls -> {"new", "look", "ask", "upsert", "downgrade", "over"}]
        /\ readAt \in [Calls -> Nat]
    OBVIOUS
  <2>. QED
    BY <2>1, <2>2 DEF AccountsTypeOK
<1>2. Underway /\ ReadsAreDated /\ DeviceOnlyLostToAStaleRead
  BY DEF Underway, ReadsAreDated, DeviceOnlyLostToAStaleRead
<1>3. FreeHasAnExcuse
  BY DEF FreeHasAnExcuse
<1>. QED
  BY <1>1, <1>2, <1>3 DEF AccountsInv

\* A call that ends leaves the others alone and forgets what it knew.
LEMMA FinishCall ==
  ASSUME AccountsTypeOK, NEW c \in Calls, Finish(c)
  PROVE  /\ step' \in [Calls -> {"new", "look", "ask", "upsert", "downgrade", "over"}]
         /\ seen' \in [Calls -> Machines \cup {Nothing}]
         /\ key' \in [Calls -> LicenseKeys \cup {Nothing}]
         /\ answer' \in [Calls -> {"free", "pro", Nothing}]
         /\ readAt' \in [Calls -> Nat]
         /\ listed' \in {"free", "pro", Nothing}
         /\ step'[c] = End(c) /\ answer'[c] = Nothing
         /\ \A d \in Calls : d # c =>
              /\ step'[d] = step[d] /\ seen'[d] = seen[d] /\ key'[d] = key[d]
              /\ answer'[d] = answer[d] /\ readAt'[d] = readAt[d]
  BY DEF AccountsTypeOK, Finish, Do, End

LEMMA DecideStep ==
  ASSUME AccountsInv, NEW k \in LicenseKeys, NEW v \in Verdicts, Decide(k, v)
  PROVE  AccountsInv'
<1>. USE AccountsAssumption DEF AccountsInv, Calls, Readers, Verdicts, Do, End,
     websiteVars, rowVars, callVars, pastVars
<1>1. AccountsTypeOK'
  BY DEF AccountsTypeOK, Underway, Decide
<1>2. Underway'
  BY DEF AccountsTypeOK, Underway, Decide
<1>3. FreeHasAnExcuse'
  <2>1. excuse => excuse'
    BY DEF Decide
  <2>2. ASSUME NEW l \in LicenseKeys, verdict'[l] \in {"free", "lapsed"} PROVE excuse'
    <3>1. CASE l = k
      BY <2>2, <3>1 DEF Decide, AccountsTypeOK
    <3>2. CASE l # k
      BY <2>2, <3>2 DEF Decide, AccountsTypeOK, FreeHasAnExcuse
    <3>. QED
      BY <3>1, <3>2
  <2>3. UNCHANGED <<tier, answer, step>>
    BY DEF Decide
  <2>. QED
    BY <2>1, <2>2, <2>3 DEF FreeHasAnExcuse
<1>4. ReadsAreDated' /\ DeviceOnlyLostToAStaleRead'
  BY DEF AccountsTypeOK, ReadsAreDated, DeviceOnlyLostToAStaleRead, Decide
<1>. QED
  BY <1>1, <1>2, <1>3, <1>4

LEMMA VerifiedStep ==
  ASSUME AccountsInv, NEW c \in Calls, Verified(c)
  PROVE  AccountsInv'
<1>. USE AccountsAssumption DEF AccountsInv, Calls, Readers, Verdicts, Do, End,
     websiteVars, rowVars, callVars, pastVars
<1>1. AccountsTypeOK'
  BY FinishCall DEF AccountsTypeOK, Underway, Verified
<1>2. Underway'
  BY FinishCall DEF AccountsTypeOK, Underway, Verified
<1>3. FreeHasAnExcuse'
  BY FinishCall DEF AccountsTypeOK, Underway, FreeHasAnExcuse, Verified
<1>4. ReadsAreDated' /\ DeviceOnlyLostToAStaleRead'
  BY FinishCall DEF AccountsTypeOK, ReadsAreDated, DeviceOnlyLostToAStaleRead, Verified
<1>. QED
  BY <1>1, <1>2, <1>3, <1>4

LEMMA VerifyFailsStep ==
  ASSUME AccountsInv, NEW c \in Calls, VerifyFails(c)
  PROVE  AccountsInv'
<1>. USE AccountsAssumption DEF AccountsInv, Calls, Readers, Verdicts, Do, End,
     websiteVars, rowVars, callVars, pastVars
<1>1. /\ UNCHANGED <<verdict, changes, tier, machine, index, logins, loggedIn, reverted>>
      /\ step[c] = "ask" /\ outages' \in 0 .. MaxOutages
  BY DEF VerifyFails, AccountsTypeOK
\* The call gives up ...
<1>2. CASE Finish(c) /\ UNCHANGED excuse
  <2>1. AccountsTypeOK'
    BY <1>1, <1>2, FinishCall DEF AccountsTypeOK
  <2>2. Underway' /\ FreeHasAnExcuse'
    BY <1>1, <1>2, FinishCall DEF AccountsTypeOK, Underway, FreeHasAnExcuse
  <2>3. ReadsAreDated' /\ DeviceOnlyLostToAStaleRead'
    BY <1>1, <1>2, FinishCall DEF AccountsTypeOK, ReadsAreDated, DeviceOnlyLostToAStaleRead
  <2>. QED
    BY <2>1, <2>2, <2>3
\* ... or the sweeper finds one of its words in the error.
<1>3. CASE /\ c = "sweeper" /\ Do(c, "downgrade") /\ excuse' = TRUE
           /\ UNCHANGED <<seen, listed, key, answer, readAt>>
  <2>1. AccountsTypeOK'
    BY <1>1, <1>3 DEF AccountsTypeOK
  <2>2. Underway' /\ FreeHasAnExcuse'
    BY <1>1, <1>3 DEF AccountsTypeOK, Underway, FreeHasAnExcuse
  <2>3. ReadsAreDated' /\ DeviceOnlyLostToAStaleRead'
    BY <1>1, <1>3 DEF AccountsTypeOK, ReadsAreDated, DeviceOnlyLostToAStaleRead
  <2>. QED
    BY <2>1, <2>2, <2>3
<1>. QED
  BY <1>2, <1>3 DEF VerifyFails, Unverified

LEMMA LoginBeginsStep ==
  ASSUME AccountsInv, NEW c \in Logins, NEW k \in LicenseKeys, NEW m \in Machines,
     LoginBegins(c, k, m)
  PROVE  AccountsInv'
<1>. USE AccountsAssumption DEF AccountsInv, Calls, Readers, Verdicts, Do, End,
     websiteVars, rowVars, callVars, pastVars
<1>1. AccountsTypeOK'
  BY DEF AccountsTypeOK, Underway, LoginBegins
<1>2. Underway'
  BY DEF AccountsTypeOK, Underway, LoginBegins
<1>3. FreeHasAnExcuse'
  BY DEF AccountsTypeOK, Underway, FreeHasAnExcuse, LoginBegins
<1>4. ReadsAreDated' /\ DeviceOnlyLostToAStaleRead'
  BY DEF AccountsTypeOK, ReadsAreDated, DeviceOnlyLostToAStaleRead, LoginBegins
<1>. QED
  BY <1>1, <1>2, <1>3, <1>4

LEMMA LoginUpsertStep ==
  ASSUME AccountsInv, NEW c \in Logins, LoginUpsert(c)
  PROVE  AccountsInv'
<1>. USE AccountsAssumption DEF AccountsInv, Calls, Readers, Verdicts, Do, End,
     websiteVars, rowVars, callVars, pastVars
<1>1. AccountsTypeOK'
  <2>1. /\ tier' = answer[c] /\ machine' = seen[c] /\ index' = index \cup {key[c]}
        /\ key[c] \in LicenseKeys /\ answer[c] \in {"free", "pro"}
    BY DEF LoginUpsert, Upsert, AccountsTypeOK
  <2>2. /\ tier' \in {"free", "pro", Nothing} /\ machine' \in Machines \cup {Nothing}
        /\ (tier' = Nothing <=> index' = {}) /\ index' \subseteq LicenseKeys
        /\ logins' \in Nat /\ loggedIn' \in Machines \cup {Nothing}
    BY <2>1 DEF AccountsTypeOK, LoginUpsert
  <2>3. /\ Finish(c) /\ UNCHANGED <<verdict, changes, outages, excuse>> /\ reverted' = FALSE
    BY DEF LoginUpsert
  <2>4. \A d \in Calls : step'[d] = "upsert" => key'[d] # Nothing /\ answer'[d] # Nothing
    BY <2>3, FinishCall DEF AccountsTypeOK
  <2>. QED
    BY <2>2, <2>3, <2>4, FinishCall DEF AccountsTypeOK
<1>2. Underway'
  BY FinishCall DEF AccountsTypeOK, Underway, LoginUpsert, Upsert
<1>3. FreeHasAnExcuse'
  BY FinishCall DEF AccountsTypeOK, Underway, FreeHasAnExcuse, LoginUpsert, Upsert
<1>4. ReadsAreDated' /\ DeviceOnlyLostToAStaleRead'
  BY FinishCall DEF AccountsTypeOK, ReadsAreDated, DeviceOnlyLostToAStaleRead, LoginUpsert, Upsert
<1>. QED
  BY <1>1, <1>2, <1>3, <1>4

LEMMA ReadUserStep ==
  ASSUME AccountsInv, NEW c \in Readers, ReadUser(c)
  PROVE  AccountsInv'
<1>. USE AccountsAssumption DEF AccountsInv, Calls, Readers, Verdicts, Do, End,
     websiteVars, rowVars, callVars, pastVars
<1>1. AccountsTypeOK'
  BY DEF AccountsTypeOK, Underway, ReadUser
<1>2. Underway'
  BY DEF AccountsTypeOK, Underway, ReadUser
<1>3. FreeHasAnExcuse'
  BY DEF AccountsTypeOK, Underway, FreeHasAnExcuse, ReadUser
<1>4. ReadsAreDated' /\ DeviceOnlyLostToAStaleRead'
  BY DEF AccountsTypeOK, ReadsAreDated, DeviceOnlyLostToAStaleRead, ReadUser
<1>. QED
  BY <1>1, <1>2, <1>3, <1>4

LEMMA FindKeyStep ==
  ASSUME AccountsInv, NEW c \in Readers, NEW k \in LicenseKeys, FindKey(c, k)
  PROVE  AccountsInv'
<1>. USE AccountsAssumption DEF AccountsInv, Calls, Readers, Verdicts, Do, End,
     websiteVars, rowVars, callVars, pastVars
<1>1. AccountsTypeOK'
  BY DEF AccountsTypeOK, Underway, FindKey
<1>2. Underway'
  BY DEF AccountsTypeOK, Underway, FindKey
<1>3. FreeHasAnExcuse'
  BY DEF AccountsTypeOK, Underway, FreeHasAnExcuse, FindKey
<1>4. ReadsAreDated' /\ DeviceOnlyLostToAStaleRead'
  BY DEF AccountsTypeOK, ReadsAreDated, DeviceOnlyLostToAStaleRead, FindKey
<1>. QED
  BY <1>1, <1>2, <1>3, <1>4

LEMMA FindKeyFailsStep ==
  ASSUME AccountsInv, NEW c \in Readers, FindKeyFails(c)
  PROVE  AccountsInv'
<1>. USE AccountsAssumption DEF AccountsInv, Calls, Readers, Verdicts, Do, End,
     websiteVars, rowVars, callVars, pastVars
<1>1. AccountsTypeOK'
  <2>1. UNCHANGED <<verdict, changes, tier, machine, index, logins, loggedIn, reverted>>
    BY DEF FindKeyFails
  <2>2. outages' \in 0 .. MaxOutages /\ excuse' \in BOOLEAN
    <3>1. outages' \in 0 .. MaxOutages
      BY DEF FindKeyFails, AccountsTypeOK
    <3>2. excuse' = TRUE \/ excuse' = excuse
      BY DEF FindKeyFails
    <3>. QED
      BY <3>1, <3>2 DEF AccountsTypeOK
  <2>3. CASE c = "sweeper" /\ listed # "free"
    BY <2>1, <2>2, <2>3 DEF FindKeyFails, AccountsTypeOK
  <2>4. CASE ~(c = "sweeper" /\ listed # "free")
    <3>1. Finish(c)
      BY <2>4 DEF FindKeyFails
    <3>2. \A d \in Calls : step'[d] = "upsert" => key'[d] # Nothing /\ answer'[d] # Nothing
      BY <3>1, FinishCall DEF AccountsTypeOK
    <3>. QED
      BY <2>1, <2>2, <3>1, <3>2, FinishCall DEF AccountsTypeOK
  <2>. QED
    BY <2>3, <2>4
<1>2. Underway'
  BY FinishCall DEF AccountsTypeOK, Underway, FindKeyFails
<1>3. FreeHasAnExcuse'
  BY FinishCall DEF AccountsTypeOK, Underway, FreeHasAnExcuse, FindKeyFails
<1>4. ReadsAreDated' /\ DeviceOnlyLostToAStaleRead'
  BY FinishCall DEF AccountsTypeOK, ReadsAreDated, DeviceOnlyLostToAStaleRead, FindKeyFails
<1>. QED
  BY <1>1, <1>2, <1>3, <1>4

LEMMA SyncUpsertStep ==
  ASSUME AccountsInv, NEW c \in Readers, SyncUpsert(c)
  PROVE  AccountsInv'
<1>. USE AccountsAssumption DEF AccountsInv, Calls, Readers, Verdicts, Do, End,
     websiteVars, rowVars, callVars, pastVars
<1>1. AccountsTypeOK'
  BY FinishCall DEF AccountsTypeOK, Underway, SyncUpsert, Upsert
<1>2. Underway'
  BY FinishCall DEF AccountsTypeOK, Underway, SyncUpsert, Upsert
<1>3. FreeHasAnExcuse'
  BY FinishCall DEF AccountsTypeOK, Underway, FreeHasAnExcuse, SyncUpsert, Upsert
<1>4. ReadsAreDated' /\ DeviceOnlyLostToAStaleRead'
  <2>1. /\ Finish(c) /\ UNCHANGED <<logins, loggedIn>> /\ machine' = seen[c]
        /\ reverted' = (reverted \/ readAt[c] < logins) /\ step[c] = "upsert"
    BY DEF SyncUpsert, Upsert
  <2>2. logins \in Nat /\ readAt[c] \in Nat /\ c \in Calls
    BY DEF AccountsTypeOK
  <2>3. DeviceOnlyLostToAStaleRead'
    <3>. SUFFICES ASSUME ~reverted' PROVE seen[c] = loggedIn
      BY <2>1 DEF DeviceOnlyLostToAStaleRead
    <3>1. ~reverted /\ ~(readAt[c] < logins)
      BY <2>1
    <3>2. readAt[c] <= logins /\ (readAt[c] = logins /\ ~reverted => seen[c] = loggedIn)
      BY <2>1 DEF ReadsAreDated
    <3>3. readAt[c] = logins
      BY <2>2, <3>1, <3>2
    <3>. QED
      BY <3>1, <3>2, <3>3
  <2>4. ReadsAreDated'
    <3>. SUFFICES ASSUME NEW d \in Readers, step'[d] \in {"look", "ask", "upsert"}
                  PROVE  /\ readAt'[d] <= logins'
                         /\ readAt'[d] = logins' /\ ~reverted' => seen'[d] = loggedIn'
      BY DEF ReadsAreDated
    <3>1. d # c
      BY <2>1, <2>2, FinishCall
    <3>2. step'[d] = step[d] /\ seen'[d] = seen[d] /\ readAt'[d] = readAt[d]
      BY <2>1, <2>2, <3>1, FinishCall
    <3>. QED
      BY <2>1, <3>2 DEF ReadsAreDated
  <2>. QED
    BY <2>3, <2>4
<1>. QED
  BY <1>1, <1>2, <1>3, <1>4

LEMMA SweepDowngradeStep ==
  ASSUME AccountsInv, SweepDowngrade
  PROVE  AccountsInv'
<1>. USE AccountsAssumption DEF AccountsInv, Calls, Readers, Verdicts, Do, End,
     websiteVars, rowVars, callVars, pastVars
<1>1. AccountsTypeOK'
  BY FinishCall DEF AccountsTypeOK, Underway, SweepDowngrade
<1>2. Underway'
  BY FinishCall DEF AccountsTypeOK, Underway, SweepDowngrade
<1>3. FreeHasAnExcuse'
  BY FinishCall DEF AccountsTypeOK, Underway, FreeHasAnExcuse, SweepDowngrade
<1>4. ReadsAreDated' /\ DeviceOnlyLostToAStaleRead'
  BY FinishCall DEF AccountsTypeOK, ReadsAreDated, DeviceOnlyLostToAStaleRead, SweepDowngrade
<1>. QED
  BY <1>1, <1>2, <1>3, <1>4

LEMMA AccountsStep == AccountsInv /\ [AccountsNext]_accountVars => AccountsInv'
<1>. SUFFICES ASSUME AccountsInv, [AccountsNext]_accountVars PROVE AccountsInv'
  OBVIOUS
<1>1. CASE UNCHANGED accountVars
  BY <1>1 DEF AccountsInv, AccountsTypeOK, Underway, FreeHasAnExcuse, ReadsAreDated,
     DeviceOnlyLostToAStaleRead, accountVars, websiteVars, rowVars, callVars, pastVars
<1>2. CASE AccountsNext
  BY <1>2, DecideStep, VerifiedStep, VerifyFailsStep, LoginBeginsStep, LoginUpsertStep,
     ReadUserStep, FindKeyStep, FindKeyFailsStep, SyncUpsertStep, SweepDowngradeStep
     DEF AccountsNext, Login, Sync, Readers
<1>. QED
  BY <1>1, <1>2

LEMMA AccountsInvariant == AccountsSpec => []AccountsInv
<1>. QED
  BY AccountsInitInv, AccountsStep, PTL DEF AccountsSpec

\* The types, for any calls: every call that writes has a key and a plan, and
\* the row and the index of its keys come together.
THEOREM AccountsTypes == AccountsSpec => []AccountsTypeOK
<1>1. AccountsInv => AccountsTypeOK
  BY DEF AccountsInv
<1>. QED
  BY <1>1, AccountsInvariant, PTL

\* "free" in the row has an excuse: a key that was free or lapsed, a lookup that
\* failed, or an error with one of the sweeper's three words in its text.
THEOREM PayersKept == AccountsSpec => []PayersKeepTheirTier
<1>1. AccountsInv => PayersKeepTheirTier
  BY DEF AccountsInv, FreeHasAnExcuse, PayersKeepTheirTier
<1>. QED
  BY <1>1, AccountsInvariant, PTL

\* The device of the last login is lost only to a call that had read the row
\* before that login and wrote it back after it.
THEOREM DeviceKept == AccountsSpec => []DeviceOnlyLostToAStaleRead
<1>1. AccountsInv => DeviceOnlyLostToAStaleRead
  BY DEF AccountsInv
<1>. QED
  BY <1>1, AccountsInvariant, PTL

-----------------------------------------------------------------------------
(***************************************************************************)
(* OnlineIsFresh and OnlyTheSilentAreSwept for any delays, clock           *)
(* differences and periods, and any number of beats in flight.  Both rest  *)
(* on how far the row can lag behind the newest beat: beats land within    *)
(* Delay, so last_seen is at most Delay older than the newest stamp; and   *)
(* what the last sweep left online was fresh at that sweep.                *)
(***************************************************************************)

Scheduled == sinceSweep <= Period

InFlight ==
  \A b \in Beats : stampOf[b] # Never =>
    moment - Delay <= stampOf[b] /\ stampOf[b] <= moment /\ born # Never

\* Landing out of order costs at most Delay.
RowLag ==
  /\ born = Never => lastSeen = Never
  /\ lastSeen # Never =>
       newest - Delay <= lastSeen /\ lastSeen <= newest /\ newest <= moment

FreshAtTheSweep ==
  online =>
    IF lastSeen = Never THEN moment - sinceSweep <= born
                        ELSE moment - sinceSweep <= lastSeen + MaxSilence + Skew

PresenceInv == PresenceTypeOK /\ Scheduled /\ InFlight /\ RowLag /\ FreshAtTheSweep

LEMMA PresenceInitInv == PresenceInit => PresenceInv
<1>. SUFFICES ASSUME PresenceInit PROVE PresenceInv
  OBVIOUS
<1>1. PresenceTypeOK
  BY DEF PresenceInit, PresenceTypeOK, Moments
<1>2. Scheduled /\ InFlight /\ RowLag /\ FreshAtTheSweep
  BY PresenceAssumption DEF PresenceInit, Scheduled, InFlight, RowLag, FreshAtTheSweep
<1>. QED
  BY <1>1, <1>2 DEF PresenceInv

LEMMA PresenceStep == PresenceInv /\ [PresenceNext]_presenceVars => PresenceInv'
<1>. SUFFICES ASSUME PresenceInv, [PresenceNext]_presenceVars PROVE PresenceInv'
  OBVIOUS
<1>. USE PresenceAssumption
     DEF PresenceInv, PresenceTypeOK, Scheduled, InFlight, RowLag, FreshAtTheSweep, Moments,
         Never, rowState, beatState
<1>1. CASE MomentPasses
  BY <1>1 DEF MomentPasses
<1>2. CASE InsertUser
  BY <1>2 DEF InsertUser
<1>3. ASSUME NEW b \in Beats, NEW quits \in BOOLEAN, Beat(b, quits) PROVE PresenceInv'
  BY <1>3 DEF Beat
<1>4. ASSUME NEW b \in Beats, Land(b) PROVE PresenceInv'
  BY <1>4 DEF Land
<1>5. ASSUME NEW b \in Beats, BeatFails(b) PROVE PresenceInv'
  BY <1>5 DEF BeatFails
<1>6. ASSUME NEW ahead \in -Skew .. Skew, HeartbeatSweep(ahead) PROVE PresenceInv'
  <2>1. /\ online' \in BOOLEAN
        /\ online' => online /\ ~TooSilent(moment + ahead)
    BY <1>6 DEF HeartbeatSweep
  <2>2. /\ sinceSweep' = 0 /\ moment' = moment /\ born' = born /\ lastSeen' = lastSeen
        /\ newest' = newest /\ stampOf' = stampOf /\ quitting' = quitting
    BY <1>6 DEF HeartbeatSweep
  <2>3. FreshAtTheSweep'
    BY <2>1, <2>2 DEF TooSilent
  <2>4. PresenceTypeOK' /\ Scheduled' /\ InFlight' /\ RowLag'
    BY <2>1, <2>2
  <2>. QED
    BY <2>3, <2>4
<1>7. CASE UNCHANGED presenceVars
  BY <1>7 DEF presenceVars
<1>. QED
  BY <1>1, <1>2, <1>3, <1>4, <1>5, <1>6, <1>7 DEF PresenceNext

LEMMA PresenceInvariant == PresenceSpec => []PresenceInv
<1>. QED
  BY PresenceInitInv, PresenceStep, PTL DEF PresenceSpec

\* The row of a user without a last_seen has seen no beat, and nobody is online
\* before the row exists.
THEOREM PresenceTypes == PresenceSpec => []PresenceTypeOK
<1>1. PresenceInv => PresenceTypeOK
  BY DEF PresenceInv
<1>. QED
  BY <1>1, PresenceInvariant, PTL

\* Nobody is online for longer after the last sign of life than the limit, a
\* clock difference and one period of the sweep.
THEOREM OnlineStaysFresh == PresenceSpec => []OnlineIsFresh
<1>1. PresenceInv => OnlineIsFresh
  BY PresenceAssumption DEF PresenceInv, PresenceTypeOK, Scheduled, RowLag, FreshAtTheSweep,
     OnlineIsFresh, Alive, Moments, Never
<1>. QED
  BY <1>1, PresenceInvariant, PTL

\* A sweep takes a user offline only after a silence of the limit, less the
\* clock difference and the delay of a beat.
THEOREM SweptWereSilent == PresenceSpec => OnlyTheSilentAreSwept
<1>1. PresenceInv /\ [PresenceNext]_presenceVars =>
        [(\E ahead \in -Skew .. Skew : HeartbeatSweep(ahead)) /\ online /\ ~online' /\ newest # Never
          => moment - newest > MaxSilence - Skew - Delay]_presenceVars
  <2>. SUFFICES ASSUME PresenceInv, NEW ahead \in -Skew .. Skew, HeartbeatSweep(ahead),
                       online, ~online', newest # Never
                PROVE  moment - newest > MaxSilence - Skew - Delay
    OBVIOUS
  <2>1. lastSeen # Never /\ newest - Delay <= lastSeen
    BY DEF PresenceInv, PresenceTypeOK, RowLag
  <2>2. lastSeen < moment + ahead - MaxSilence
    <3>1. TooSilent(moment + ahead)
      BY DEF HeartbeatSweep
    <3>. QED
      BY <2>1, <3>1, PresenceAssumption DEF TooSilent, PresenceInv, PresenceTypeOK, Moments, Never
  <2>. QED
    BY <2>1, <2>2, PresenceAssumption DEF PresenceInv, PresenceTypeOK, Moments, Never
<1>. QED
  BY <1>1, PresenceInvariant, PTL DEF PresenceSpec, OnlyTheSilentAreSwept
=============================================================================
