--------------------------- MODULE RateLimitProofs ---------------------------
(***************************************************************************)
(* Proofs about RateLimit for every policy, clock skew and fault: the      *)
(* types, what a sliding window and a token bucket let pass at most, that  *)
(* a request passes only when every rule has charged it, and that a client *)
(* that waits for Retry-After is not refused again.                        *)
(***************************************************************************)
EXTENDS RateLimit, FiniteSetTheorems, WellFoundedInduction, TLAPS

-----------------------------------------------------------------------------
\* Arithmetic

\* The integer operators of the scripts have integer results.
LEMMA DivNat ==
  ASSUME NEW a \in Nat, NEW b \in Positive
  PROVE  a \div b \in Nat
BY DEF Positive

LEMMA CeilDivInt ==
  ASSUME NEW a \in Int, NEW b \in Positive
  PROVE  CeilDiv(a, b) \in Int
BY DEF CeilDiv, Positive

\* Dividing what was multiplied.
LEMMA DivTimes ==
  ASSUME NEW a \in Nat, NEW b \in Positive
  PROVE  (a * b) \div b = a
BY DEF Positive

\* Cancelling a common factor.
LEMMA DivCancel ==
  ASSUME NEW a \in Nat, NEW b \in Positive, NEW c \in Positive
  PROVE  (a * b) \div (b * c) = a \div c
<1> DEFINE q == a \div c
           r == a % c
<1>1. q \in Nat /\ r \in 0 .. c - 1 /\ a = c * q + r /\ b * c \in Positive
  BY DEF Positive
<1> HIDE DEF q, r
<1>2. a * b = (b * c) * q + r * b
  BY <1>1 DEF Positive
<1>3. r * b \in Nat /\ r * b < b * c
  BY <1>1 DEF Positive
<1>4. \A d \in Positive, m \in Nat, s \in Nat : s < d => (d * m + s) \div d = m
  BY DEF Positive
<1>5. (a * b) \div (b * c) = q
  BY <1>1, <1>2, <1>3, <1>4
<1> QED
  BY <1>5 DEF q

\* A multiple is one.
LEMMA DivMod ==
  ASSUME NEW a \in Positive, NEW b \in Positive, a % b = 0
  PROVE  a \div b \in Positive /\ a = b * (a \div b)
BY DEF Positive

-----------------------------------------------------------------------------
\* What the scripts compute

\* How long one unit of tokens_fp takes to refill.
UnitMs(r) == PeriodMs(r) \div RefillFp(r)

\* The period is the time that a refill takes; a key lives, in Redis's time, for longer
\* than a full refill and the skew.
LEMMA BucketConstants ==
  ASSUME NEW r \in TokenBucket
  PROVE  /\ CapacityFp(r) \in Positive /\ Scale <= CapacityFp(r)
         /\ RefillFp(r) \in Positive /\ PeriodMs(r) \in Positive
         /\ UnitMs(r) \in Positive
         /\ PeriodMs(r) = RefillFp(r) * UnitMs(r)
         /\ TtlMs(r) \in Nat
         /\ CapacityFp(r) * UnitMs(r) + Skew <= TtlMs(r)
<1> DEFINE c == capacity[r]
           f == refill_tokens[r]
           d == refill_period_seconds[r]
           a == d \div f
           b == Second \div Scale
<1>1. c \in Positive /\ f \in Positive /\ d \in Positive /\ d % f = 0
  BY RateLimitAssumption
<1>2. Second \in Positive /\ Scale \in Positive /\ Second % Scale = 0
      /\ Buffer \in Nat /\ Skew \in Nat /\ Skew <= Buffer * Second
  BY RateLimitAssumption
<1>3. a \in Positive /\ d = f * a
  BY <1>1, DivMod
<1>4. b \in Positive /\ Second = Scale * b
  BY <1>2, DivMod
<1>5. CapacityFp(r) = c * Scale /\ RefillFp(r) = f * Scale /\ PeriodMs(r) = d * Second
  BY DEF CapacityFp, RefillFp, PeriodMs
<1>6. TtlMs(r) = ((c * d) \div f + Buffer) * Second
  BY DEF TtlMs
<1> HIDE DEF a, b, c, d, f
<1>7. PeriodMs(r) = (a * b) * (f * Scale) /\ a * b \in Positive
  BY <1>1, <1>2, <1>3, <1>4, <1>5 DEF Positive
<1>8. f * Scale \in Positive /\ c * Scale \in Positive /\ Scale <= c * Scale
  BY <1>1, <1>2 DEF Positive
<1>9. UnitMs(r) = a * b
  BY <1>5, <1>7, <1>8, DivTimes DEF UnitMs, Positive
<1>10. PeriodMs(r) = RefillFp(r) * UnitMs(r) /\ PeriodMs(r) \in Positive
  BY <1>5, <1>7, <1>8, <1>9 DEF Positive
<1>11. c * d = (c * a) * f /\ c * a \in Nat
  BY <1>1, <1>3 DEF Positive
<1>12. (c * d) \div f = c * a
  BY <1>1, <1>11, DivTimes
<1>13. TtlMs(r) = (c * a) * (Scale * b) + Buffer * Second
  BY <1>1, <1>2, <1>3, <1>4, <1>6, <1>12 DEF Positive
<1>14. (c * a) * (Scale * b) = (c * Scale) * (a * b)
  BY <1>1, <1>2, <1>3, <1>4 DEF Positive
<1>15. (c * Scale) * (a * b) \in Nat /\ Buffer * Second \in Nat
  BY <1>2, <1>7, <1>8 DEF Positive
<1>16. CapacityFp(r) * UnitMs(r) + Skew <= TtlMs(r) /\ TtlMs(r) \in Nat
  BY <1>2, <1>5, <1>9, <1>13, <1>14, <1>15
<1> QED
  BY <1>5, <1>7, <1>8, <1>9, <1>10, <1>16

\* The constants of a sliding window.
LEMMA WindowConstants ==
  ASSUME NEW r \in SlidingWindow
  PROVE  WindowMs(r) \in Positive /\ TtlMs(r) \in Nat /\ WindowMs(r) <= TtlMs(r)
         /\ max_requests[r] \in Positive
<1>1. window_seconds[r] \in Positive /\ max_requests[r] \in Positive /\ Second \in Positive
      /\ Buffer \in Nat /\ r \notin TokenBucket
  BY RateLimitAssumption
<1>2. (window_seconds[r] + Buffer) * Second = window_seconds[r] * Second + Buffer * Second
  BY <1>1 DEF Positive
<1>3. window_seconds[r] * Second \in Positive /\ Buffer * Second \in Nat
  BY <1>1 DEF Positive
<1> QED
  BY <1>1, <1>2, <1>3 DEF WindowMs, TtlMs, Positive

\* The bucket the script starts from.
OldBucket(k, now, t) ==
  IF Live(bucket[k], t) THEN bucket[k]
  ELSE [bucket[k] EXCEPT !.tokens_fp = CapacityFp(k[1]), !.refilled_at_ms = now]

\* A refill adds at most a unit for every UnitMs since the last, and moves the time of the
\* last by exactly what it added, to within a unit of now.
LEMMA RefilledFacts ==
  ASSUME TypeOK, NEW k \in TokenBucket \X Subject, NEW now \in Nat, NEW t \in Nat
  PROVE  LET old == OldBucket(k, now, t)
             new == Refilled(k, now, t)
             u == UnitMs(k[1]) IN
         /\ old \in Bucket /\ new \in Bucket
         /\ new.expires_at = t + TtlMs(k[1])
         /\ new.tokens_fp <= CapacityFp(k[1])
         /\ \E added \in Nat : /\ new.tokens_fp <= old.tokens_fp + added
                               /\ new.refilled_at_ms = old.refilled_at_ms + added * u
         /\ new.refilled_at_ms <= Larger(now, old.refilled_at_ms)
         /\ now < new.refilled_at_ms + u
<1> DEFINE r == k[1]
           old == OldBucket(k, now, t)
           new == Refilled(k, now, t)
           u == UnitMs(r)
           e == Larger(0, now - old.refilled_at_ms)
           added == (e * RefillFp(r)) \div PeriodMs(r)
<1>1. r \in TokenBucket /\ bucket[k] \in Bucket
  BY DEF TypeOK
<1>2. /\ CapacityFp(r) \in Positive /\ RefillFp(r) \in Positive /\ u \in Positive
      /\ PeriodMs(r) = RefillFp(r) * u /\ TtlMs(r) \in Nat
  BY <1>1, BucketConstants
<1>3. old \in Bucket
  BY <1>1, <1>2 DEF OldBucket, Bucket, Positive
<1>4. e \in Nat
  BY <1>3 DEF Larger, Bucket
<1>5. new = [tokens_fp      |-> Smaller(CapacityFp(r), old.tokens_fp + added),
             refilled_at_ms |-> old.refilled_at_ms + (added * PeriodMs(r)) \div RefillFp(r),
             expires_at     |-> t + TtlMs(r)]
  BY DEF Refilled, OldBucket
<1> HIDE DEF u, e, old
<1>6. added = e \div u
  BY <1>2, <1>4, DivCancel, e * RefillFp(r) = e * RefillFp(r)
<1>7. added \in Nat /\ added * u <= e /\ e < added * u + u
  BY <1>2, <1>4, <1>6 DEF Positive
<1> HIDE DEF added
<1>8. (added * PeriodMs(r)) \div RefillFp(r) = added * u
  <2>1. added * PeriodMs(r) = (added * u) * RefillFp(r) /\ added * u \in Nat
    BY <1>2, <1>7 DEF Positive
  <2> QED
    BY <2>1, <1>2, DivTimes
<1>9. new.tokens_fp = Smaller(CapacityFp(r), old.tokens_fp + added)
      /\ new.refilled_at_ms = old.refilled_at_ms + added * u
      /\ new.expires_at = t + TtlMs(r)
  BY <1>5, <1>8
<1>10. new \in Bucket
  BY <1>2, <1>3, <1>5, <1>7, <1>8 DEF Bucket, Smaller, Positive
<1>11. new.tokens_fp <= CapacityFp(r) /\ new.tokens_fp <= old.tokens_fp + added
  BY <1>2, <1>3, <1>7, <1>9 DEF Bucket, Smaller, Positive
<1>12. added * u \in Nat
  BY <1>2, <1>7 DEF Positive
<1>13. new.refilled_at_ms <= Larger(now, old.refilled_at_ms) /\ now < new.refilled_at_ms + u
  BY <1>2, <1>3, <1>7, <1>9, <1>12 DEF Larger, Bucket, Positive, e
<1> QED
  BY <1>3, <1>7, <1>9, <1>10, <1>11, <1>13 DEF old, u
-----------------------------------------------------------------------------
\* Steps

\* A rule counts either with a token bucket or with a sliding window.
LEMMA Keys ==
  /\ Rule \X Subject = (TokenBucket \X Subject) \cup (SlidingWindow \X Subject)
  /\ \A k \in TokenBucket \X Subject : k[1] \in TokenBucket /\ k[1] \notin SlidingWindow
                                       /\ k \notin SlidingWindow \X Subject
  /\ \A k \in SlidingWindow \X Subject : k[1] \in SlidingWindow /\ k[1] \notin TokenBucket
                                         /\ k \notin TokenBucket \X Subject
BY RateLimitAssumption

\* A rule with a subject is evaluated for a key, at a time no further ahead than the skew.
LEMMA KeyFacts ==
  ASSUME TypeOK, NEW p \in Process, Checking(p)
  PROVE  /\ request[p] \in Request
         /\ RuleOf(p) \in Rule
         /\ KeyOf(p) = <<RuleOf(p), SubjectOf[RuleOf(p)][request[p].client]>>
         /\ HasSubject(p) => KeyOf(p) \in Rule \X Subject
         /\ Now(p) \in time .. time + Skew /\ Now(p) \in Nat
<1>1. request[p] \in Request
  BY DEF TypeOK, Checking, Passing
<1>2. RulesOf[request[p].policy] \in Seq(Rule)
  BY <1>1, RateLimitAssumption DEF Request
<1>3. RuleOf(p) \in Rule
  BY <1>1, <1>2 DEF Checking, RulesLeft, RuleOf, Request, Positive
<1>4. SubjectOf[RuleOf(p)][request[p].client] \in Subject \cup {NoSubject}
  BY <1>1, <1>3, RateLimitAssumption DEF Request
<1>5. Now(p) \in time .. time + Skew /\ Now(p) \in Nat
  BY RateLimitAssumption DEF Now, TypeOK
<1> QED
  BY <1>1, <1>3, <1>4, <1>5 DEF KeyOf, HasSubject

\* A step runs no script, or one script for one key.
LEMMA Steps ==
  ASSUME TypeOK, [Next]_vars
  PROVE  \/ UNCHANGED <<bucket, window, charges>> /\ time' \in {time, time + 1}
         \/ /\ time' = time
            /\ \E k \in Rule \X Subject, now \in time .. time + Skew : Script(k, now)
<1>1. CASE UNCHANGED vars
  BY <1>1 DEF vars
<1>2. CASE Tick
  BY <1>2 DEF Tick
<1>3. ASSUME NEW p \in Process, Arrive(p) \/ SkipRule(p)
      PROVE  UNCHANGED <<bucket, window, charges, time>>
  BY <1>3 DEF Arrive, SkipRule
<1>4. ASSUME NEW p \in Process, EvaluateRule(p)
      PROVE  time' = time /\ \E k \in Rule \X Subject, now \in time .. time + Skew : Script(k, now)
  BY <1>4, KeyFacts DEF EvaluateRule
<1>5. ASSUME NEW p \in Process, RedisFails(p)
      PROVE  /\ time' = time
             /\ \/ UNCHANGED <<bucket, window, charges>>
                \/ \E k \in Rule \X Subject, now \in time .. time + Skew : Script(k, now)
  BY <1>5, KeyFacts DEF RedisFails
<1> QED
  BY <1>1, <1>2, <1>3, <1>4, <1>5 DEF Next

\* The places of a history are finitely many.
LEMMA PlacesFinite ==
  ASSUME NEW T, NEW q \in Seq(T)
  PROVE  IsFiniteSet(DOMAIN q) /\ IsFiniteSet(1 .. Len(q))
<1>1. Len(q) \in Int /\ DOMAIN q = 1 .. Len(q)
  OBVIOUS
<1>2. 1 \in Int
  OBVIOUS
<1>3. IsFiniteSet(1 .. Len(q))
  BY <1>1, <1>2, FS_Interval
<1> QED  BY <1>1, <1>3

\* What is left of a window are requests it let pass.
LEMMA RemainingFacts ==
  ASSUME TypeOK, NEW k \in SlidingWindow \X Subject, NEW now \in Nat, NEW t \in Nat
  PROVE  /\ Remaining(k, now, t) \subseteq DOMAIN charges[k]
         /\ charges[k] \in Seq(Charge)
         /\ \A n \in DOMAIN charges[k] : charges[k][n] \in Charge
         /\ IsFiniteSet(Remaining(k, now, t)) /\ Cardinality(Remaining(k, now, t)) \in Nat
<1>1. k \in Rule \X Subject
  BY RateLimitAssumption
<1>2. charges[k] \in Seq(Charge) /\ window[k].members \subseteq DOMAIN charges[k]
  BY <1>1 DEF TypeOK
<1>3. Remaining(k, now, t) \subseteq 1 .. Len(charges[k])
  BY <1>2 DEF Remaining
<1>4. IsFiniteSet(1 .. Len(charges[k]))
  BY <1>2, PlacesFinite
<1>5. IsFiniteSet(Remaining(k, now, t)) /\ Cardinality(Remaining(k, now, t)) \in Nat
  BY <1>3, <1>4, FS_Subset, FS_CardinalityType
<1> QED
  BY <1>2, <1>3, <1>5

\* A script keeps the types.
LEMMA ScriptType ==
  ASSUME TypeOK, NEW k \in Rule \X Subject, NEW now \in time .. time + Skew, Script(k, now)
  PROVE  /\ bucket' \in [TokenBucket \X Subject -> Bucket]
         /\ window' \in [SlidingWindow \X Subject -> Window]
         /\ charges' \in [Rule \X Subject -> Seq(Charge)]
         /\ \A j \in SlidingWindow \X Subject : window'[j].members \subseteq DOMAIN charges'[j]
<1>1. now \in Nat /\ time \in Nat
  BY RateLimitAssumption DEF TypeOK
<1>2. /\ charges' \in [Rule \X Subject -> Seq(Charge)]
      /\ \A j \in Rule \X Subject : DOMAIN charges[j] \subseteq DOMAIN charges'[j]
      /\ Allowed(k, now, time) => Len(charges[k]) + 1 \in DOMAIN charges'[k]
  <2>1. charges[k] \in Seq(Charge) /\ [at |-> time, now_ms |-> now] \in Charge
    BY <1>1 DEF TypeOK, Charge
  <2>2. Append(charges[k], [at |-> time, now_ms |-> now]) \in Seq(Charge)
        /\ Len(Append(charges[k], [at |-> time, now_ms |-> now])) = Len(charges[k]) + 1
    BY <2>1
  <2>3. \A j \in Rule \X Subject : charges[j] \in Seq(Charge)
    BY DEF TypeOK
  <2> QED
    BY <2>1, <2>2, <2>3 DEF Script, TypeOK
<1>3. CASE k \in TokenBucket \X Subject
  <2>1. WriteBucket(k, now) /\ UNCHANGED window
    BY <1>3, Keys DEF Script
  <2>2. Refilled(k, now, time) \in Bucket
    BY <1>1, <1>3, RefilledFacts
  <2>3. Scale \in Positive
    BY RateLimitAssumption
  <2> DEFINE w == [Refilled(k, now, time) EXCEPT
                     !.tokens_fp = IF @ >= Scale THEN @ - Scale ELSE @]
  <2>4. w \in Bucket
    BY <2>2, <2>3 DEF Bucket, Positive
  <2>5. bucket' = [bucket EXCEPT ![k] = w]
    BY <2>1 DEF WriteBucket
  <2>6. bucket' \in [TokenBucket \X Subject -> Bucket]
    BY <2>4, <2>5 DEF TypeOK
  <2>7. ASSUME NEW j \in SlidingWindow \X Subject
        PROVE  window'[j].members \subseteq DOMAIN charges'[j]
    <3>0. j \in Rule \X Subject
      BY Keys
    <3>1. window'[j].members = window[j].members
      BY <2>1
    <3>2. window[j].members \subseteq DOMAIN charges[j]
      BY DEF TypeOK
    <3>3. DOMAIN charges[j] \subseteq DOMAIN charges'[j]
      BY <1>2, <3>0, Zenon
    <3> QED
      BY <3>1, <3>2, <3>3
  <2> QED
    BY <1>2, <2>1, <2>6, <2>7 DEF TypeOK
<1>4. CASE k \in SlidingWindow \X Subject
  <2>1. WriteWindow(k, now) /\ UNCHANGED bucket
    BY <1>4, Keys DEF Script
  <2>2. Remaining(k, now, time) \subseteq DOMAIN charges[k] /\ charges[k] \in Seq(Charge)
    BY <1>1, <1>4, RemainingFacts
  <2>3. TtlMs(k[1]) \in Nat
    BY <1>4, WindowConstants
  <2> DEFINE R == Remaining(k, now, time)
             w == IF Allowed(k, now, time)
                    THEN [members |-> R \cup {Len(charges[k]) + 1},
                          expires_at |-> time + TtlMs(k[1])]
                    ELSE [window[k] EXCEPT !.members = R]
  <2>a. window[k] \in Window /\ R \in SUBSET Nat /\ Len(charges[k]) + 1 \in Nat
    BY <1>4, <2>2 DEF TypeOK
  <2>b. w \in Window /\ w.members \subseteq R \cup {Len(charges[k]) + 1}
        /\ (~Allowed(k, now, time) => w.members = R)
    BY <1>1, <2>a, <2>3 DEF Window
  <2>c. window' = [window EXCEPT ![k] = w]
    BY <2>1 DEF WriteWindow
  <2> HIDE DEF w
  <2>4. window' \in [SlidingWindow \X Subject -> Window]
    BY <2>b, <2>c DEF TypeOK
  <2>5. ASSUME NEW j \in SlidingWindow \X Subject
        PROVE  window'[j].members \subseteq DOMAIN charges'[j]
    <3>0. j \in Rule \X Subject
      BY Keys
    <3>1. DOMAIN charges[j] \subseteq DOMAIN charges'[j]
      BY <1>2, <3>0, Zenon
    <3>2. CASE j # k
      <4>1. window'[j].members = window[j].members
        BY <2>c, <3>2 DEF TypeOK
      <4>2. window[j].members \subseteq DOMAIN charges[j]
        BY DEF TypeOK
      <4> QED
        BY <3>1, <4>1, <4>2
    <3>3. CASE j = k
      <4>1. window'[j].members = w.members
        BY <1>4, <2>c, <3>3 DEF TypeOK
      <4>2. R \subseteq DOMAIN charges'[j]
        BY <2>2, <3>1, <3>3
      <4>3. Allowed(k, now, time) => Len(charges[k]) + 1 \in DOMAIN charges'[j]
        BY <1>2, <3>3
      <4> HIDE DEF R
      <4> QED
        BY <2>b, <4>1, <4>2, <4>3
    <3> QED
      BY <3>2, <3>3
  <2> QED
    BY <1>2, <2>1, <2>4, <2>5 DEF TypeOK
<1> QED
  BY <1>3, <1>4, Keys

\* Of a nonempty set of requests one came first.
LEMMA OldestExists ==
  ASSUME TypeOK, NEW k \in SlidingWindow \X Subject, NEW S, S \subseteq DOMAIN charges[k], S # {}
  PROVE  \E n \in S : \A m \in S : charges[k][n].now_ms <= charges[k][m].now_ms
<1> DEFINE D == DOMAIN charges[k]
           Before(n) == {m \in S : charges[k][m].now_ms <= charges[k][n].now_ms}
           T == {Before(n) : n \in S}
<1>1. charges[k] \in Seq(Charge)
  BY Keys DEF TypeOK
<1>2. \A n \in S : charges[k][n] \in Charge
  BY <1>1
<1>3. \A n \in S : charges[k][n].now_ms \in Nat
  BY <1>2 DEF Charge
<1>4. IsFiniteSet(D)
  BY <1>1, PlacesFinite
<1>5. T \subseteq FiniteSubsetsOf(D) /\ T # {}
  <2>1. \A n \in S : Before(n) \in SUBSET D
    OBVIOUS
  <2>2. \A n \in S : IsFiniteSet(Before(n))
    BY <1>4, <2>1, FS_Subset
  <2> HIDE DEF D, Before
  <2> QED
    BY <2>1, <2>2 DEF FiniteSubsetsOf
<1>6. PICK X \in T : \A Y \in T : <<Y, X>> \notin StrictSubsetOrdering(D)
  BY <1>5, FS_StrictSubsetOrderingWellFounded, WFMin, Zenon
<1>7. PICK n \in S : X = Before(n)
  BY <1>6
<1>8. ASSUME NEW m \in S, charges[k][m].now_ms < charges[k][n].now_ms
      PROVE  FALSE
  <2>1. Before(m) \subseteq Before(n) /\ n \notin Before(m) /\ n \in Before(n)
    BY <1>3, <1>8
  <2>2. <<Before(m), Before(n)>> \in StrictSubsetOrdering(D)
    BY <2>1 DEF StrictSubsetOrdering
  <2> QED
    BY <1>6, <1>7, <2>2
<1> QED
  BY <1>3, <1>8

\* Retry-After is a number of seconds.
LEMMA RetryAfterType ==
  ASSUME TypeOK, NEW k \in Rule \X Subject, NEW now \in Nat, ~Allowed(k, now, time)
  PROVE  RetryAfter(k, now, time) \in Nat
<1>1. Second \in Positive /\ Scale \in Positive /\ time \in Nat
  BY RateLimitAssumption DEF TypeOK
<1>2. CASE k \in TokenBucket \X Subject
  <2>1. Refilled(k, now, time) \in Bucket
    BY <1>1, <1>2, RefilledFacts
  <2>2. PeriodMs(k[1]) \in Positive /\ RefillFp(k[1]) \in Positive
    BY <1>2, BucketConstants
  <2> DEFINE a == (Scale - Refilled(k, now, time).tokens_fp) * PeriodMs(k[1])
             b == RefillFp(k[1]) * Second
  <2>3. a \in Int /\ b \in Positive
    BY <1>1, <2>1, <2>2 DEF Bucket, Positive
  <2>4. CeilDiv(a, b) \in Int
    BY <2>3, CeilDivInt
  <2>5. RetryAfter(k, now, time) = Larger(1, CeilDiv(a, b))
    BY <1>2 DEF RetryAfter
  <2> QED
    BY <2>4, <2>5 DEF Larger
<1>3. CASE k \in SlidingWindow \X Subject
  <2> DEFINE R == Remaining(k, now, time)
             oldest == CHOOSE n \in R :
                         \A m \in R : charges[k][n].now_ms <= charges[k][m].now_ms
             a == charges[k][oldest].now_ms + WindowMs(k[1]) - now
  <2>1. R \subseteq DOMAIN charges[k] /\ (\A n \in DOMAIN charges[k] : charges[k][n] \in Charge)
    BY <1>1, <1>3, RemainingFacts
  <2>2. max_requests[k[1]] \in Positive /\ WindowMs(k[1]) \in Positive
    BY <1>3, WindowConstants
  <2>3. k[1] \notin TokenBucket
    BY <1>3, RateLimitAssumption
  <2>4. R # {}
    BY <2>2, <2>3, FS_EmptySet DEF Allowed, Positive
  <2>5. oldest \in R
    BY <1>3, <2>1, <2>4, OldestExists
  <2> HIDE DEF oldest
  <2>6. charges[k][oldest] \in Charge
    BY <2>1, <2>5
  <2>9. a \in Int
    BY <2>2, <2>6 DEF Charge, Positive
  <2>7. CeilDiv(a, Second) \in Int
    BY <1>1, <2>9, CeilDivInt
  <2>8. RetryAfter(k, now, time) = Larger(1, CeilDiv(a, Second))
    BY <2>3 DEF RetryAfter, oldest
  <2> QED
    BY <2>7, <2>8 DEF Larger
<1> QED
  BY <1>2, <1>3, RateLimitAssumption
-----------------------------------------------------------------------------
\* Types

\* What an evaluated rule makes of a request.
LEMMA EvaluateType ==
  ASSUME TypeOK, NEW p \in Process, EvaluateRule(p)
  PROVE  TypeOK'
<1> DEFINE k == KeyOf(p)
           q == request[p]
<1>1. Checking(p) /\ HasSubject(p) /\ Script(k, Now(p)) /\ UNCHANGED <<time, arrived, failures>>
  BY DEF EvaluateRule
<1>2. /\ q \in Request /\ k \in Rule \X Subject
      /\ Now(p) \in time .. time + Skew /\ Now(p) \in Nat /\ k[1] \in Rule
  BY <1>1, KeyFacts
<1>3. charges[k] \in Seq(Charge)
  BY <1>2 DEF TypeOK
<1> DEFINE w == Answered(q, k, Now(p))
<1>4. w \in Request
  <2>1. CASE Allowed(k, Now(p), time)
    <3>1. w = [q EXCEPT !.next = @ + 1, !.charged = @ \cup {k[1]}]
      BY <2>1 DEF Answered
    <3>2. q.next + 1 \in Positive /\ q.charged \cup {k[1]} \in SUBSET Rule
      BY <1>2 DEF Request, Positive
    <3> HIDE DEF k, q, w
    <3> QED
      BY <1>2, <3>1, <3>2 DEF Request
  <2>2. CASE ~Allowed(k, Now(p), time)
    <3>1. RetryAfter(k, Now(p), time) \in Nat /\ Len(charges[k]) \in Nat /\ k[1] \in Rule
      BY <1>2, <1>3, <2>2, RetryAfterType
    <3> HIDE DEF k, q
    <3> QED
      BY <1>2, <2>2, <3>1 DEF Request, Answered
  <2> QED
    BY <2>1, <2>2
<1>5. request' = [request EXCEPT ![p] = w]
  BY DEF EvaluateRule
<1> HIDE DEF w, k
<1>6. request' \in [Process -> Request \cup {NoRequest}]
  BY <1>4, <1>5 DEF TypeOK
<1> QED
  BY <1>1, <1>2, <1>6, ScriptType DEF TypeOK

\* Every reachable state is well typed.
THEOREM TypeCorrect == Spec => []TypeOK
<1>1. Init => TypeOK
  BY RateLimitAssumption DEF Init, TypeOK, Bucket, Window
<1>2. TypeOK /\ [Next]_vars => TypeOK'
  <2> SUFFICES ASSUME TypeOK, [Next]_vars
               PROVE  TypeOK'
    OBVIOUS
  <2>1. CASE UNCHANGED vars
    BY <2>1 DEF vars, TypeOK
  <2>2. CASE Tick
    BY <2>2 DEF Tick, TypeOK
  <2>3. ASSUME NEW p \in Process, Arrive(p)
        PROVE  TypeOK'
    <3>1. PICK c \in Client, pol \in Policy :
            request' = [request EXCEPT ![p] =
              [client |-> c, policy |-> pol, next |-> 1, charged |-> {}, outcome |-> "passing",
               rule |-> NoRule, now_ms |-> 0, retry_after |-> 0, seen |-> 0]]
      BY <2>3 DEF Arrive
    <3>2. request' \in [Process -> Request \cup {NoRequest}]
      BY <3>1 DEF TypeOK, Request, Positive
    <3> QED
      BY <2>3, <3>2 DEF Arrive, TypeOK
  <2>4. ASSUME NEW p \in Process, SkipRule(p)
        PROVE  TypeOK'
    <3>1. request[p] \in Request
      BY <2>4, KeyFacts DEF SkipRule
    <3>2. [request[p] EXCEPT !.next = @ + 1] \in Request
      BY <3>1 DEF Request, Positive
    <3>3. request' = [request EXCEPT ![p] = [request[p] EXCEPT !.next = @ + 1]]
      BY <2>4 DEF SkipRule
    <3> QED
      BY <2>4, <3>2, <3>3 DEF SkipRule, TypeOK
  <2>5. ASSUME NEW p \in Process, EvaluateRule(p)
        PROVE  TypeOK'
    BY <2>5, EvaluateType
  <2>6. ASSUME NEW p \in Process, RedisFails(p)
        PROVE  TypeOK'
    <3> DEFINE o == OnRedisError(request[p].policy)
    <3>1. request[p] \in Request /\ KeyOf(p) \in Rule \X Subject /\ Now(p) \in time .. time + Skew
      BY <2>6, KeyFacts DEF RedisFails
    <3>2. [request[p] EXCEPT !.outcome = o] \in Request
      BY <3>1 DEF Request, OnRedisError
    <3>3. request' = [request EXCEPT ![p] = [request[p] EXCEPT !.outcome = o]]
      BY <2>6 DEF RedisFails
    <3>4. request' \in [Process -> Request \cup {NoRequest}]
      BY <3>2, <3>3 DEF TypeOK
    <3>5. failures' \in Nat /\ UNCHANGED <<time, arrived>>
      BY <2>6 DEF RedisFails, TypeOK
    <3>6. CASE UNCHANGED <<bucket, window, charges>>
      BY <3>4, <3>5, <3>6 DEF TypeOK
    <3>7. CASE Script(KeyOf(p), Now(p))
      BY <3>1, <3>4, <3>5, <3>7, ScriptType DEF TypeOK
    <3> QED
      BY <2>6, <3>6, <3>7 DEF RedisFails
  <2> QED
    BY <2>1, <2>2, <2>3, <2>4, <2>5, <2>6 DEF Next
<1> QED
  BY <1>1, <1>2, PTL DEF Spec

-----------------------------------------------------------------------------
\* A request passes only when every rule has charged it

\* A request that is still passing was charged by every rule it is past that has a
\* subject; only a policy that fails open is passed after a failure.
PassedInv ==
  \A p \in Process : request[p] # NoRequest =>
    LET q == request[p] IN
    /\ q.outcome = "passing" =>
         \A i \in DOMAIN RulesOf[q.policy] :
           /\ i < q.next
           /\ SubjectOf[RulesOf[q.policy][i]][q.client] # NoSubject
           => RulesOf[q.policy][i] \in q.charged
    /\ q.outcome = "failed_open" => q.policy \notin FailClosed

\* PassedIsCharged of every reachable state.
THEOREM PassedCharged == Spec => []PassedIsCharged
<1>1. Init => PassedInv
  BY DEF Init, PassedInv
<1>2. TypeOK /\ PassedInv /\ [Next]_vars => PassedInv'
  <2> SUFFICES ASSUME TypeOK, PassedInv, [Next]_vars
               PROVE  PassedInv'
    OBVIOUS
  <2>1. CASE UNCHANGED vars
    BY <2>1 DEF vars, PassedInv
  <2>2. CASE Tick
    BY <2>2 DEF Tick, PassedInv
  <2>3. ASSUME NEW p \in Process, Arrive(p)
        PROVE  PassedInv'
    <3>1. PICK c \in Client, pol \in Policy :
            request' = [request EXCEPT ![p] =
              [client |-> c, policy |-> pol, next |-> 1, charged |-> {}, outcome |-> "passing",
               rule |-> NoRule, now_ms |-> 0, retry_after |-> 0, seen |-> 0]]
      BY <2>3 DEF Arrive
    <3>2. RulesOf[pol] \in Seq(Rule)
      BY RateLimitAssumption
    <3> QED
      BY <3>1, <3>2 DEF PassedInv, TypeOK
  <2>4. ASSUME NEW p \in Process, SkipRule(p)
        PROVE  PassedInv'
    <3> DEFINE q == request[p]
    <3>1. /\ q \in Request
          /\ SubjectOf[RuleOf(p)][q.client] = NoSubject
          /\ RulesOf[q.policy] \in Seq(Rule) /\ q # NoRequest /\ q.outcome = "passing"
      BY <2>4, KeyFacts, RateLimitAssumption
         DEF SkipRule, HasSubject, Request, Checking, Passing
    <3>2. request' = [request EXCEPT ![p] = [q EXCEPT !.next = @ + 1]]
      BY <2>4 DEF SkipRule
    <3>3. \A i \in DOMAIN RulesOf[q.policy] : i < q.next + 1 => i < q.next \/ i = q.next
      BY <3>1 DEF Request, Positive
    <3> QED
      BY <3>1, <3>2, <3>3 DEF PassedInv, TypeOK, RuleOf, Request
  <2>5. ASSUME NEW p \in Process, EvaluateRule(p)
        PROVE  PassedInv'
    <3> DEFINE q == request[p]
               k == KeyOf(p)
    <3>1. /\ q \in Request /\ k[1] = RuleOf(p)
          /\ RulesOf[q.policy] \in Seq(Rule) /\ q # NoRequest /\ q.outcome = "passing"
      BY <2>5, KeyFacts, RateLimitAssumption DEF EvaluateRule, Request, Checking, Passing
    <3>2. \A i \in DOMAIN RulesOf[q.policy] : i < q.next + 1 => i < q.next \/ i = q.next
      BY <3>1 DEF Request, Positive
    <3> DEFINE w == Answered(q, k, Now(p))
    <3>3. request' = [request EXCEPT ![p] = w]
      BY <2>5 DEF EvaluateRule
    <3>5. CASE Allowed(k, Now(p), time)
      <4>1. w = [q EXCEPT !.next = @ + 1, !.charged = @ \cup {k[1]}]
        BY <3>5 DEF Answered
      <4> HIDE DEF k, w
      <4> QED
        BY <3>1, <3>2, <3>3, <4>1 DEF PassedInv, TypeOK, RuleOf, Request
    <3>6. CASE ~Allowed(k, Now(p), time)
      <4>1. w.outcome = "refused"
        BY <3>1, <3>6 DEF Answered, Request
      <4> HIDE DEF w
      <4> QED
        BY <3>3, <4>1 DEF PassedInv, TypeOK
    <3> QED
      BY <3>5, <3>6
  <2>6. ASSUME NEW p \in Process, RedisFails(p)
        PROVE  PassedInv'
    <3> DEFINE q == request[p]
    <3>1. q \in Request
      BY <2>6, KeyFacts DEF RedisFails
    <3>2. request' = [request EXCEPT ![p] = [q EXCEPT !.outcome = OnRedisError(q.policy)]]
      BY <2>6 DEF RedisFails
    <3> QED
      BY <3>1, <3>2 DEF PassedInv, TypeOK, OnRedisError, Request
  <2> QED
    BY <2>1, <2>2, <2>3, <2>4, <2>5, <2>6 DEF Next
<1>3. TypeOK /\ PassedInv => PassedIsCharged
  <2> SUFFICES ASSUME TypeOK, PassedInv, NEW p \in Process,
                      \/ Passing(p) /\ ~RulesLeft(p)
                      \/ /\ request[p] # NoRequest /\ request[p].outcome = "failed_open"
                         /\ request[p].policy \in FailClosed,
                      NEW i \in DOMAIN RulesOf[request[p].policy],
                      SubjectOf[RulesOf[request[p].policy][i]][request[p].client] # NoSubject
               PROVE  RulesOf[request[p].policy][i] \in request[p].charged
    BY DEF PassedIsCharged
  <2>1. Passing(p) /\ ~RulesLeft(p)
    BY DEF PassedInv
  <2>2. request[p] \in Request /\ RulesOf[request[p].policy] \in Seq(Rule)
    BY <2>1, RateLimitAssumption DEF TypeOK, Passing, Request
  <2>3. i < request[p].next
    BY <2>1, <2>2 DEF RulesLeft, Request, Positive
  <2> QED
    BY <2>1, <2>3 DEF PassedInv, Passing
<1> QED
  BY <1>1, <1>2, <1>3, TypeCorrect, PTL DEF Spec
-----------------------------------------------------------------------------
\* What a script charges

\* The requests charged to a key.
LEMMA ChargesType ==
  ASSUME TypeOK, NEW j \in Rule \X Subject
  PROVE  /\ Len(charges[j]) \in Nat /\ DOMAIN charges[j] = 1 .. Len(charges[j])
         /\ \A n \in 1 .. Len(charges[j]) : charges[j][n] \in Charge
BY DEF TypeOK

\* A script charges one request to its key if it allows it ...
LEMMA Charged ==
  ASSUME TypeOK, NEW k \in Rule \X Subject, NEW now \in time .. time + Skew, Script(k, now),
         Allowed(k, now, time)
  PROVE  /\ Len(charges'[k]) = Len(charges[k]) + 1
         /\ DOMAIN charges'[k] = 1 .. Len(charges[k]) + 1
         /\ charges'[k][Len(charges[k]) + 1] = [at |-> time, now_ms |-> now]
         /\ \A n \in 1 .. Len(charges[k]) : charges'[k][n] = charges[k][n]
<1>1. charges[k] \in Seq(Charge) /\ time \in Nat /\ now \in Nat
  BY RateLimitAssumption DEF TypeOK
<1>2. [at |-> time, now_ms |-> now] \in Charge
  BY <1>1 DEF Charge
<1>3. charges'[k] = Append(charges[k], [at |-> time, now_ms |-> now])
  BY DEF Script, TypeOK
<1> QED
  BY <1>1, <1>2, <1>3

\* ... and nothing else.
LEMMA NotCharged ==
  ASSUME TypeOK, NEW k \in Rule \X Subject, NEW now \in time .. time + Skew, Script(k, now)
  PROVE  \A j : (j # k \/ ~Allowed(k, now, time)) =>
           /\ j \in Rule \X Subject => charges'[j] = charges[j]
           /\ j \in SlidingWindow \X Subject => charges'[j] = charges[j]
           /\ j \in TokenBucket \X Subject => charges'[j] = charges[j]
<1>1. \A j \in Rule \X Subject : (j # k \/ ~Allowed(k, now, time)) => charges'[j] = charges[j]
  BY DEF Script, TypeOK
<1>2. \A j : j \in SlidingWindow \X Subject \/ j \in TokenBucket \X Subject => j \in Rule \X Subject
  BY Keys
<1> QED
  BY <1>1, <1>2, Zenon

\* Requests are charged in the order of time, by a clock at most the skew ahead.
ChargeInv ==
  \A k \in Rule \X Subject : \A n \in DOMAIN charges[k] :
    /\ charges[k][n].at <= time
    /\ charges[k][n].now_ms \in charges[k][n].at .. charges[k][n].at + Skew
    /\ \A m \in 1 .. n : charges[k][m].at <= charges[k][n].at

LEMMA ChargeOrder == Spec => []ChargeInv
<1>1. Init => ChargeInv
  BY DEF Init, ChargeInv
<1>2. TypeOK /\ ChargeInv /\ [Next]_vars => ChargeInv'
  <2> SUFFICES ASSUME TypeOK, ChargeInv, [Next]_vars
               PROVE  ChargeInv'
    OBVIOUS
  <2>0. time \in Nat /\ Skew \in Nat
    BY RateLimitAssumption DEF TypeOK
  <2>1. CASE UNCHANGED <<bucket, window, charges>> /\ time' \in {time, time + 1}
    <3> SUFFICES ASSUME NEW k \in Rule \X Subject, NEW n \in DOMAIN charges[k]
                 PROVE  charges[k][n].at <= time'
      BY <2>1 DEF ChargeInv
    <3>1. charges[k][n] \in Charge
      BY DEF TypeOK
    <3> QED
      BY <2>0, <2>1, <3>1 DEF ChargeInv, Charge
  <2>2. ASSUME time' = time, NEW k \in Rule \X Subject, NEW now \in time .. time + Skew,
               Script(k, now)
        PROVE  ChargeInv'
    <3> SUFFICES ASSUME NEW j \in Rule \X Subject, NEW n \in DOMAIN charges'[j]
                 PROVE  /\ charges'[j][n].at <= time
                        /\ charges'[j][n].now_ms \in charges'[j][n].at .. charges'[j][n].at + Skew
                        /\ \A m \in 1 .. n : charges'[j][m].at <= charges'[j][n].at
      BY <2>2 DEF ChargeInv
    <3>1. CASE charges'[j] = charges[j]
      BY <3>1 DEF ChargeInv
    <3>2. CASE j = k /\ Allowed(k, now, time)
      <4> DEFINE l == Len(charges[j])
      <4>1. /\ l \in Nat /\ DOMAIN charges[j] = 1 .. l /\ n \in 1 .. l + 1
            /\ charges'[j][l + 1] = [at |-> time, now_ms |-> now]
            /\ \A i \in 1 .. l : charges'[j][i] = charges[j][i]
            /\ \A i \in 1 .. l : charges[j][i] \in Charge
        BY <2>2, <3>2, Charged, ChargesType
      <4> HIDE DEF l
      <4>2. CASE n = l + 1
        <5>1. \A m \in 1 .. n : m \in 1 .. l \/ m = l + 1
          BY <4>1, <4>2
        <5>2. \A m \in 1 .. l : charges[j][m].at <= time
          BY <4>1 DEF ChargeInv
        <5>3. ASSUME NEW m \in 1 .. n
              PROVE  charges'[j][m].at <= time
          <6>1. CASE m \in 1 .. l
            BY <4>1, <5>2, <6>1
          <6>2. CASE m = l + 1
            BY <2>0, <4>1, <6>2
          <6> QED
            BY <5>1, <6>1, <6>2
        <5>4. charges'[j][n].at = time /\ charges'[j][n].now_ms = now
          BY <4>1, <4>2
        <5>5. charges'[j][n].now_ms \in charges'[j][n].at .. charges'[j][n].at + Skew
          BY <2>0, <2>2, <5>4
        <5>6. \A m \in 1 .. n : charges'[j][m].at <= charges'[j][n].at
          BY <5>3, <5>4
        <5> QED
          BY <2>0, <5>4, <5>5, <5>6
      <4>3. CASE n \in 1 .. l
        <5>1. \A m \in 1 .. n : m \in 1 .. l
          BY <4>1, <4>3
        <5> QED
          BY <4>1, <4>3, <5>1 DEF ChargeInv
      <4> QED
        BY <4>1, <4>2, <4>3
    <3>3. ASSUME j # k \/ ~Allowed(k, now, time)
          PROVE  charges'[j] = charges[j]
      BY <2>2, <3>3, NotCharged
    <3> QED
      BY <3>1, <3>2, <3>3
  <2> QED
    BY <2>1, <2>2, Steps
<1> QED
  BY <1>1, <1>2, TypeCorrect, PTL DEF Spec
-----------------------------------------------------------------------------
\* What a sliding window lets pass

\* The requests that count for request n of key k.
Counted(k, n) ==
  {m \in 1 .. n : charges[k][m].at > charges[k][n].at - (WindowMs(k[1]) - Skew)}

\* A request younger than the window less the skew is a member of its set, and the set
\* outlives it: no process can have evicted it, nor Redis the key.
WindowInv ==
  \A k \in SlidingWindow \X Subject : \A n \in DOMAIN charges[k] :
    charges[k][n].at > time - (WindowMs(k[1]) - Skew) =>
      /\ n \in window[k].members
      /\ charges[k][n].at + TtlMs(k[1]) <= window[k].expires_at

\* Such a request remains, whichever process looks.
LEMMA YoungRemain ==
  ASSUME TypeOK, ChargeInv, WindowInv, NEW k \in SlidingWindow \X Subject,
         NEW now \in time .. time + Skew, NEW n \in DOMAIN charges[k],
         charges[k][n].at > time - (WindowMs(k[1]) - Skew)
  PROVE  n \in Remaining(k, now, time)
<1>1. k \in Rule \X Subject /\ k[1] \in SlidingWindow
  BY Keys
<1>2. /\ WindowMs(k[1]) \in Positive /\ TtlMs(k[1]) \in Nat /\ WindowMs(k[1]) <= TtlMs(k[1])
      /\ time \in Nat /\ Skew \in Nat
  BY <1>1, WindowConstants, RateLimitAssumption DEF TypeOK
<1>3. charges[k][n] \in Charge /\ window[k] \in Window
  BY <1>1 DEF TypeOK
<1>4. charges[k][n].now_ms >= charges[k][n].at
  BY <1>1, <1>3 DEF ChargeInv, Charge
<1>5. n \in window[k].members /\ charges[k][n].at + TtlMs(k[1]) <= window[k].expires_at
  BY DEF WindowInv
<1>6. charges[k][n].now_ms > now - WindowMs(k[1])
  BY <1>2, <1>3, <1>4 DEF Charge, Positive
<1>7. Live(window[k], time)
  BY <1>2, <1>3, <1>5 DEF Live, Charge, Window, Positive
<1> QED
  BY <1>5, <1>6, <1>7 DEF Remaining

LEMMA WindowStep == TypeOK /\ ChargeInv /\ WindowInv /\ [Next]_vars => WindowInv'
<1> SUFFICES ASSUME TypeOK, ChargeInv, WindowInv, [Next]_vars
             PROVE  WindowInv'
  OBVIOUS
<1>0. time \in Nat /\ Skew \in Nat
  BY RateLimitAssumption DEF TypeOK
<1>1. CASE UNCHANGED <<bucket, window, charges>> /\ time' \in {time, time + 1}
  <2> SUFFICES ASSUME NEW k \in SlidingWindow \X Subject, NEW n \in DOMAIN charges[k],
                      charges[k][n].at > time' - (WindowMs(k[1]) - Skew)
               PROVE  charges[k][n].at > time - (WindowMs(k[1]) - Skew)
    BY <1>1 DEF WindowInv, WindowMs, TtlMs
  <2>1. charges[k][n] \in Charge /\ WindowMs(k[1]) \in Positive
    BY Keys, WindowConstants DEF TypeOK
  <2> QED
    BY <1>0, <1>1, <2>1 DEF Charge, Positive
<1>2. ASSUME time' = time, NEW k \in Rule \X Subject, NEW now \in time .. time + Skew,
             Script(k, now)
      PROVE  WindowInv'
  <2> SUFFICES ASSUME NEW j \in SlidingWindow \X Subject, NEW n \in DOMAIN charges'[j],
                      charges'[j][n].at > time - (WindowMs(j[1]) - Skew)
               PROVE  /\ n \in window'[j].members
                      /\ charges'[j][n].at + TtlMs(j[1]) <= window'[j].expires_at
    BY <1>2 DEF WindowInv, WindowMs, TtlMs
  <2>1. j \in Rule \X Subject /\ j[1] \in SlidingWindow
    BY Keys
  <2>2. TtlMs(j[1]) \in Nat
    BY <2>1, WindowConstants
  <2>3. CASE j # k
    <3>1. charges'[j] = charges[j]
      BY <1>2, <2>3, NotCharged, Zenon
    <3>2. window'[j] = window[j]
      BY <1>2, <2>3 DEF Script, WriteWindow, TypeOK
    <3> QED
      BY <3>1, <3>2 DEF WindowInv
  <2>4. CASE j = k
    <3>1. WriteWindow(j, now)
      BY <1>2, <2>4, Keys DEF Script
    <3> DEFINE R == Remaining(j, now, time)
               l == Len(charges[j])
    <3>2. /\ l \in Nat /\ DOMAIN charges[j] = 1 .. l
          /\ \A i \in 1 .. l : charges[j][i] \in Charge
      BY <2>1, ChargesType
    <3>3. CASE Allowed(j, now, time)
      <4>1. /\ window'[j].members = R \cup {l + 1}
            /\ window'[j].expires_at = time + TtlMs(j[1])
        BY <3>1, <3>3 DEF WriteWindow, TypeOK
      <4>2. /\ n \in 1 .. l + 1
            /\ charges'[j][l + 1].at = time
            /\ \A i \in 1 .. l : charges'[j][i] = charges[j][i]
        <5>1. /\ DOMAIN charges'[k] = 1 .. Len(charges[k]) + 1
              /\ charges'[k][Len(charges[k]) + 1] = [at |-> time, now_ms |-> now]
              /\ \A i \in 1 .. Len(charges[k]) : charges'[k][i] = charges[k][i]
          BY <1>2, <2>4, <3>3, Charged
        <5> QED
          BY <2>4, <3>2, <5>1
      <4> HIDE DEF R, l
      <4>3. CASE n = l + 1
        BY <1>0, <2>2, <4>1, <4>2, <4>3
      <4>4. CASE n \in 1 .. l
        <5>1. charges[j][n].at > time - (WindowMs(j[1]) - Skew)
          BY <4>2, <4>4
        <5>2. n \in R
          BY <1>2, <3>2, <4>4, <5>1, YoungRemain DEF R
        <5>3. charges[j][n].at <= time /\ charges[j][n].at \in Nat
          BY <2>1, <3>2, <4>4 DEF ChargeInv, Charge
        <5> QED
          BY <1>0, <2>2, <4>1, <4>2, <4>4, <5>2, <5>3
      <4> QED
        BY <3>2, <4>2, <4>3, <4>4
    <3>4. CASE ~Allowed(j, now, time)
      <4>1. window'[j] = [window[j] EXCEPT !.members = R]
        BY <3>1, <3>4 DEF WriteWindow, TypeOK
      <4>2. window'[j].members = R /\ window'[j].expires_at = window[j].expires_at
        BY <4>1 DEF TypeOK, Window
      <4>3. charges'[j] = charges[j]
        BY <1>2, <2>4, <3>4, NotCharged
      <4>4. n \in R
        BY <1>2, <4>3, YoungRemain
      <4> QED
        BY <4>2, <4>3, <4>4 DEF WindowInv
    <3> QED
      BY <3>3, <3>4
  <2> QED
    BY <2>3, <2>4
<1> QED
  BY <1>1, <1>2, Steps

\* The script that charges a request counted every other that counts for it.
LEMMA WindowHoldsStep ==
  TypeOK /\ ChargeInv /\ WindowInv /\ WindowHolds /\ [Next]_vars => WindowHolds'
<1> SUFFICES ASSUME TypeOK, ChargeInv, WindowInv, WindowHolds, [Next]_vars
             PROVE  WindowHolds'
  OBVIOUS
<1>0. time \in Nat /\ Skew \in Nat
  BY RateLimitAssumption DEF TypeOK
<1>1. CASE UNCHANGED <<bucket, window, charges>> /\ time' \in {time, time + 1}
  BY <1>1 DEF WindowHolds, WindowMs
<1>2. ASSUME time' = time, NEW k \in Rule \X Subject, NEW now \in time .. time + Skew,
             Script(k, now)
      PROVE  WindowHolds'
  <2> SUFFICES ASSUME NEW j \in SlidingWindow \X Subject, NEW n \in DOMAIN charges'[j]
               PROVE  Cardinality(Counted(j, n)') <= max_requests[j[1]]
    BY DEF WindowHolds, Counted, WindowMs
  <2>1. j \in Rule \X Subject /\ j[1] \in SlidingWindow /\ j[1] \notin TokenBucket
    BY Keys
  <2>2. \A m \in DOMAIN charges[j] : Cardinality(Counted(j, m)) <= max_requests[j[1]]
    BY DEF WindowHolds, Counted
  <2>3. CASE charges'[j] = charges[j]
    BY <2>2, <2>3 DEF Counted, WindowMs
  <2>4. CASE j = k /\ Allowed(j, now, time)
    <3> DEFINE l == Len(charges[j])
               R == Remaining(j, now, time)
    <3>1. /\ l \in Nat /\ DOMAIN charges[j] = 1 .. l /\ n \in 1 .. l + 1
          /\ charges'[j][l + 1].at = time
          /\ \A i \in 1 .. l : charges'[j][i] = charges[j][i]
      <4>1. /\ DOMAIN charges'[k] = 1 .. Len(charges[k]) + 1
            /\ charges'[k][Len(charges[k]) + 1] = [at |-> time, now_ms |-> now]
            /\ \A i \in 1 .. Len(charges[k]) : charges'[k][i] = charges[k][i]
        BY <1>2, <2>4, Charged
      <4>2. Len(charges[j]) \in Nat /\ DOMAIN charges[j] = 1 .. Len(charges[j])
        BY <2>1, ChargesType
      <4> QED
        BY <2>4, <4>1, <4>2
    <3>2. /\ R \subseteq DOMAIN charges[j] /\ IsFiniteSet(R) /\ Cardinality(R) \in Nat
          /\ now \in Nat
      <4>1. now \in Nat /\ time \in Nat
        BY <1>0, <1>2
      <4> QED
        BY <4>1, RemainingFacts
    <3>3. Cardinality(R) + 1 <= max_requests[j[1]]
      BY <2>1, <2>4 DEF Allowed
    <3> HIDE DEF l, R
    <3>4. CASE n \in 1 .. l
      <4>1. \A m \in 1 .. n : m \in 1 .. l
        BY <3>1, <3>4
      <4>2. Counted(j, n)' = Counted(j, n)
        BY <3>1, <3>4, <4>1 DEF Counted, WindowMs
      <4> QED
        BY <2>2, <3>1, <3>4, <4>2
    <3>5. CASE n = l + 1
      <4>1. ASSUME NEW m \in Counted(j, n)'
            PROVE  m \in R \cup {l + 1}
        <5>1. m \in 1 .. n /\ charges'[j][m].at > time - (WindowMs(j[1]) - Skew)
          BY <3>1, <3>5 DEF Counted, WindowMs
        <5>2. CASE m = l + 1
          BY <5>2
        <5>3. CASE m \in 1 .. l
          BY <1>2, <3>1, <5>1, <5>3, YoungRemain DEF R
        <5> QED
          BY <3>1, <3>5, <5>1, <5>2, <5>3
      <4>2. /\ IsFiniteSet(R \cup {l + 1}) /\ Cardinality(R \cup {l + 1}) <= Cardinality(R) + 1
            /\ Cardinality(R \cup {l + 1}) \in Nat
        <5>1. /\ IsFiniteSet(R \cup {l + 1})
              /\ Cardinality(R \cup {l + 1}) =
                   IF l + 1 \in R THEN Cardinality(R) ELSE Cardinality(R) + 1
          BY <3>2, FS_AddElement
        <5> QED
          BY <3>2, <5>1
      <4>3. /\ Cardinality(Counted(j, n)') <= Cardinality(R \cup {l + 1})
            /\ Cardinality(Counted(j, n)') \in Nat
        <5>1. Counted(j, n)' \in SUBSET (R \cup {l + 1})
          BY <4>1
        <5> QED
          BY <4>2, <5>1, FS_Subset, FS_CardinalityType
      <4>4. max_requests[j[1]] \in Nat
        BY <2>1, WindowConstants DEF Positive
      <4> QED
        BY <3>2, <3>3, <4>2, <4>3, <4>4
    <3> QED
      BY <3>1, <3>4, <3>5
  <2>5. ASSUME j # k \/ ~Allowed(j, now, time)
        PROVE  charges'[j] = charges[j]
    BY <1>2, <2>5, NotCharged, Zenon
  <2> QED
    BY <2>3, <2>4, <2>5
<1> QED
  BY <1>1, <1>2, Steps

\* Every reachable state satisfies WindowHolds.
THEOREM WindowCorrect == Spec => []WindowHolds
<1>1. Init => WindowInv /\ WindowHolds
  BY Keys DEF Init, WindowInv, WindowHolds
<1> QED
  BY <1>1, WindowStep, WindowHoldsStep, ChargeOrder, TypeCorrect, PTL DEF Spec
-----------------------------------------------------------------------------
\* What a token bucket lets pass

\* The bucket is no further ahead than the skew; its key outlives a full refill; and what
\* it lets pass since request m, with what it still holds beyond its capacity, has been
\* refilled since.
BucketInv ==
  \A k \in TokenBucket \X Subject :
    /\ bucket[k].refilled_at_ms <= time + Skew
    /\ \A m \in DOMAIN charges[k] :
         /\ bucket[k].refilled_at_ms + TtlMs(k[1]) <= bucket[k].expires_at + Skew
         /\ (bucket[k].tokens_fp + (Len(charges[k]) - m + 1) * Scale - CapacityFp(k[1])) * UnitMs(k[1])
              <= bucket[k].refilled_at_ms - charges[k][m].at + UnitMs(k[1])

\* Replacing what a product is taken of by something larger.
LEMMA TimesLeq ==
  ASSUME NEW a \in Int, NEW b \in Int, NEW u \in Positive, a <= b
  PROVE  a * u <= b * u
<1>1. b - a \in Nat /\ (b - a) * u \in Nat
  BY DEF Positive
<1>2. b * u = a * u + (b - a) * u
  BY DEF Positive
<1> QED
  BY <1>1, <1>2 DEF Positive

\* A refill keeps that: the tokens it adds took as long, and a key that Redis dropped had
\* had the time to be refilled in full.
LEMMA RefillKeeps ==
  ASSUME TypeOK, ChargeInv, BucketInv, NEW k \in TokenBucket \X Subject,
         NEW now \in time .. time + Skew
  PROVE  LET new == Refilled(k, now, time)
             u == UnitMs(k[1]) IN
         /\ new.refilled_at_ms <= time + Skew
         /\ \A m \in DOMAIN charges[k] :
              (new.tokens_fp + (Len(charges[k]) - m + 1) * Scale - CapacityFp(k[1])) * u
                <= new.refilled_at_ms - charges[k][m].at + u
<1> DEFINE b == bucket[k]
           old == OldBucket(k, now, time)
           new == Refilled(k, now, time)
           u == UnitMs(k[1])
           C == CapacityFp(k[1])
           l == Len(charges[k])
<1>1. /\ k \in Rule \X Subject /\ k[1] \in TokenBucket
      /\ time \in Nat /\ Skew \in Nat /\ now \in Nat /\ Scale \in Positive
      /\ now <= time + Skew /\ time <= now
  BY Keys, RateLimitAssumption DEF TypeOK
<1>2. /\ C \in Positive /\ u \in Positive /\ TtlMs(k[1]) \in Nat
      /\ C * u + Skew <= TtlMs(k[1])
  BY <1>1, BucketConstants
<1>3. /\ old \in Bucket /\ new \in Bucket
      /\ new.tokens_fp <= C
      /\ new.refilled_at_ms <= Larger(now, old.refilled_at_ms)
  BY <1>1, RefilledFacts
<1>4. PICK added \in Nat : /\ new.tokens_fp <= old.tokens_fp + added
                           /\ new.refilled_at_ms = old.refilled_at_ms + added * u
  BY <1>1, RefilledFacts
<1>5. /\ b \in Bucket
      /\ Live(b, time) => old = b
      /\ ~Live(b, time) => old.refilled_at_ms = now
  BY DEF TypeOK, OldBucket, Bucket
<1>6. b.refilled_at_ms <= time + Skew
  BY DEF BucketInv
<1> HIDE DEF b, old, new, u, C
<1>7. new.refilled_at_ms <= time + Skew
  BY <1>1, <1>3, <1>5, <1>6 DEF Larger, Bucket
<1>8. ASSUME NEW m \in DOMAIN charges[k]
      PROVE  (new.tokens_fp + (l - m + 1) * Scale - C) * u
               <= new.refilled_at_ms - charges[k][m].at + u
  <2> DEFINE at == charges[k][m].at
             d == (l - m + 1) * Scale
  <2>1. l \in Nat /\ m \in 1 .. l /\ charges[k][m] \in Charge
    BY <1>1, ChargesType
  <2>2. at \in Nat /\ at <= time
    BY <1>1, <2>1 DEF ChargeInv, Charge
  <2>3. d \in Nat
    BY <1>1, <2>1 DEF Positive
  <2>4. /\ b.refilled_at_ms + TtlMs(k[1]) <= b.expires_at + Skew
        /\ (b.tokens_fp + d - C) * u <= b.refilled_at_ms - at + u
    BY DEF BucketInv, b, C, u
  <2> HIDE DEF at, d, l
  <2>5. /\ b.tokens_fp \in Nat /\ b.refilled_at_ms \in Nat /\ b.expires_at \in Nat
        /\ new.tokens_fp \in Nat /\ new.refilled_at_ms \in Nat /\ added * u \in Nat
    BY <1>2, <1>3, <1>5 DEF Bucket, Positive
  <2> DEFINE x == (new.tokens_fp + d - C) * u
             y == (b.tokens_fp + d - C) * u
             z == added * u
             full == C * u
  <2>6. x \in Int /\ y \in Int /\ u \in Int /\ z \in Nat /\ full \in Nat
    BY <1>2, <2>3, <2>5 DEF Positive
  <2>7. new.refilled_at_ms = old.refilled_at_ms + z
    BY <1>4
  <2>8. ASSUME Live(b, time)
        PROVE  x <= new.refilled_at_ms - at + u
    <3>1. x <= (b.tokens_fp + added + d - C) * u
      BY <1>2, <1>4, <1>5, <2>3, <2>5, <2>8, TimesLeq DEF Positive
    <3>2. (b.tokens_fp + added + d - C) * u = y + z
      BY <1>2, <2>3, <2>5 DEF Positive
    <3>3. y <= b.refilled_at_ms - at + u
      BY <2>4
    <3> HIDE DEF x, y, z, full
    <3>4. x <= y + z
      BY <3>1, <3>2
    <3> QED
      BY <1>5, <2>2, <2>5, <2>6, <2>7, <2>8, <3>3, <3>4
  <2>9. ASSUME ~Live(b, time)
        PROVE  x <= new.refilled_at_ms - at + u
    <3>1. b.expires_at <= time
      BY <1>1, <2>5, <2>9 DEF Live
    <3>2. x <= (b.tokens_fp + d) * u
      BY <1>2, <1>3, <2>3, <2>5, TimesLeq DEF Positive
    <3>3. (b.tokens_fp + d) * u = y + full
      BY <1>2, <2>3, <2>5 DEF Positive
    <3>4. y <= b.refilled_at_ms - at + u /\ full + Skew <= TtlMs(k[1])
      BY <1>2, <2>4
    <3> HIDE DEF x, y, z, full
    <3>5. x <= y + full
      BY <3>2, <3>3
    <3>6. b.refilled_at_ms + full <= time
      BY <1>1, <1>2, <2>4, <2>5, <2>6, <3>1, <3>4
    <3>7. new.refilled_at_ms >= now
      BY <1>1, <1>5, <2>6, <2>7, <2>9
    <3> QED
      BY <1>1, <2>2, <2>5, <2>6, <3>4, <3>5, <3>6, <3>7
  <2> HIDE DEF x
  <2>a. x <= new.refilled_at_ms - at + u
    BY <2>8, <2>9
  <2> QED
    BY <2>a DEF at, d, l, x
<1> QED
  BY <1>7, <1>8 DEF new, u, C

LEMMA BucketStep == TypeOK /\ ChargeInv /\ BucketInv /\ [Next]_vars => BucketInv'
<1> SUFFICES ASSUME TypeOK, ChargeInv, BucketInv, [Next]_vars
             PROVE  BucketInv'
  OBVIOUS
<1>0. time \in Nat /\ Skew \in Nat
  BY RateLimitAssumption DEF TypeOK
<1>1. CASE UNCHANGED <<bucket, window, charges>> /\ time' \in {time, time + 1}
  <2> SUFFICES ASSUME NEW k \in TokenBucket \X Subject
               PROVE  bucket[k].refilled_at_ms <= time' + Skew
    BY <1>1 DEF BucketInv, TtlMs, CapacityFp, UnitMs, PeriodMs, RefillFp
  <2>1. bucket[k] \in Bucket /\ bucket[k].refilled_at_ms <= time + Skew
    BY DEF TypeOK, BucketInv
  <2> QED
    BY <1>0, <1>1, <2>1 DEF Bucket
<1>2. ASSUME time' = time, NEW k \in Rule \X Subject, NEW now \in time .. time + Skew,
             Script(k, now)
      PROVE  BucketInv'
  <2> SUFFICES ASSUME NEW j \in TokenBucket \X Subject
               PROVE  /\ bucket'[j].refilled_at_ms <= time + Skew
                      /\ \A m \in DOMAIN charges'[j] :
                           /\ bucket'[j].refilled_at_ms + TtlMs(j[1])
                                <= bucket'[j].expires_at + Skew
                           /\ (bucket'[j].tokens_fp + (Len(charges'[j]) - m + 1) * Scale
                                 - CapacityFp(j[1])) * UnitMs(j[1])
                                <= bucket'[j].refilled_at_ms - charges'[j][m].at + UnitMs(j[1])
    BY <1>2 DEF BucketInv, TtlMs, CapacityFp, UnitMs, PeriodMs, RefillFp
  <2>1. CASE j # k
    <3>1. charges'[j] = charges[j]
      BY <1>2, <2>1, NotCharged, Zenon
    <3>2. bucket'[j] = bucket[j]
      BY <1>2, <2>1 DEF Script, WriteBucket, TypeOK
    <3> QED
      BY <3>1, <3>2 DEF BucketInv
  <2>2. CASE j = k
    <3> DEFINE new == Refilled(k, now, time)
               u == UnitMs(k[1])
               C == CapacityFp(k[1])
               l == Len(charges[k])
               spent == IF new.tokens_fp >= Scale THEN new.tokens_fp - Scale ELSE new.tokens_fp
    <3>1. k \in TokenBucket \X Subject /\ k[1] \in TokenBucket
      BY <2>2
    <3>2. /\ C \in Positive /\ u \in Positive /\ TtlMs(k[1]) \in Nat
          /\ Scale \in Positive /\ now \in Nat /\ now >= time
          /\ Allowed(k, now, time) <=> new.tokens_fp >= Scale
      BY <1>0, <3>1, BucketConstants, RateLimitAssumption DEF Allowed
    <3>3. /\ new \in Bucket /\ new.tokens_fp <= C /\ new.expires_at = time + TtlMs(k[1])
          /\ now < new.refilled_at_ms + u
      BY <1>0, <3>1, <3>2, RefilledFacts
    <3>4. /\ new.refilled_at_ms <= time + Skew
          /\ \A m \in DOMAIN charges[k] :
               (new.tokens_fp + (l - m + 1) * Scale - C) * u
                 <= new.refilled_at_ms - charges[k][m].at + u
      BY <3>1, RefillKeeps
    <3>5. bucket' = [bucket EXCEPT ![k] = [new EXCEPT !.tokens_fp = spent]]
      BY <1>2, <3>1, Keys DEF Script, WriteBucket
    <3>6. l \in Nat /\ DOMAIN charges[k] = 1 .. l
      BY ChargesType
    <3> HIDE DEF new, u, C
    <3>7. /\ bucket'[k].refilled_at_ms = new.refilled_at_ms
          /\ bucket'[k].expires_at = time + TtlMs(k[1])
          /\ bucket'[k].tokens_fp = spent
      BY <3>1, <3>3, <3>5 DEF TypeOK, Bucket
    <3>8. /\ bucket'[k].refilled_at_ms <= time + Skew
          /\ bucket'[k].refilled_at_ms + TtlMs(k[1]) <= bucket'[k].expires_at + Skew
      BY <1>0, <3>2, <3>3, <3>4, <3>7 DEF Bucket
    <3>9. ASSUME NEW m \in DOMAIN charges'[k]
          PROVE  (spent + (Len(charges'[k]) - m + 1) * Scale - C) * u
                   <= new.refilled_at_ms - charges'[k][m].at + u
      <4>1. CASE ~Allowed(k, now, time)
        <5>1. charges'[k] = charges[k]
          BY <1>2, <4>1, NotCharged
        <5>2. spent = new.tokens_fp
          BY <3>2, <4>1
        <5> HIDE DEF spent, l
        <5> QED
          BY <3>4, <5>1, <5>2 DEF l
      <4>2. CASE Allowed(k, now, time)
        <5>1. /\ Len(charges'[k]) = l + 1 /\ m \in 1 .. l + 1
              /\ charges'[k][l + 1].at = time
              /\ \A i \in 1 .. l : charges'[k][i] = charges[k][i]
          <6>1. /\ Len(charges'[k]) = l + 1 /\ DOMAIN charges'[k] = 1 .. l + 1
                /\ charges'[k][l + 1] = [at |-> time, now_ms |-> now]
                /\ \A i \in 1 .. l : charges'[k][i] = charges[k][i]
            BY <1>2, <4>2, Charged
          <6> QED
            BY <6>1
        <5>2. spent = new.tokens_fp - Scale /\ new.tokens_fp \in Nat /\ new.refilled_at_ms \in Nat
          BY <3>2, <3>3, <4>2 DEF Bucket
        <5> HIDE DEF spent, l
        <5>3. (l + 1 - m + 1) * Scale = (l - m + 1) * Scale + Scale
              /\ (l - m + 1) * Scale \in Int
          BY <3>2, <3>6, <5>1 DEF Positive
        <5>4. spent + (l + 1 - m + 1) * Scale - C = new.tokens_fp + (l - m + 1) * Scale - C
          BY <3>2, <5>2, <5>3 DEF Positive
        <5>7. (spent + (Len(charges'[k]) - m + 1) * Scale - C) * u
                = (new.tokens_fp + (l - m + 1) * Scale - C) * u
          <6> DEFINE x == spent + (Len(charges'[k]) - m + 1) * Scale - C
                     y == new.tokens_fp + (l - m + 1) * Scale - C
          <6>1. x = y
            <7> DEFINE z == Len(charges'[k])
            <7>1. z = l + 1 /\ z \in Nat /\ m \in Nat
              BY <3>6, <5>1
            <7>3. spent + (l + 1 - m + 1) * Scale - C = y
              BY <5>4
            <7> HIDE DEF y, z
            <7>2. spent + (z - m + 1) * Scale - C = y
              BY <3>2, <3>6, <5>2, <7>1, <7>3 DEF Positive
            <7> QED
              BY <7>2 DEF z
          <6> HIDE DEF x, y
          <6>2. x * u = y * u
            BY <6>1
          <6> QED
            BY <6>2 DEF x, y
        <5>5. CASE m \in 1 .. l
          <6>1. charges'[k][m].at = charges[k][m].at /\ m \in DOMAIN charges[k]
            BY <3>6, <5>1, <5>5
          <6>2. (new.tokens_fp + (l - m + 1) * Scale - C) * u
                  <= new.refilled_at_ms - charges[k][m].at + u
            BY <3>4, <6>1
          <6> QED
            BY <5>7, <6>1, <6>2
        <5>6. CASE m = l + 1
          <6>1. (l - m + 1) * Scale = 0
            BY <3>2, <3>6, <5>6 DEF Positive
          <6>2. (new.tokens_fp + (l - m + 1) * Scale - C) * u <= 0
            <7>1. new.tokens_fp + (l - m + 1) * Scale - C <= 0
                  /\ new.tokens_fp + (l - m + 1) * Scale - C \in Int
              BY <3>2, <3>3, <5>2, <6>1 DEF Positive
            <7>2. (new.tokens_fp + (l - m + 1) * Scale - C) * u <= 0 * u
              BY <3>2, <7>1, TimesLeq
            <7> QED
              BY <3>2, <7>2 DEF Positive
          <6>3. (new.tokens_fp + (l - m + 1) * Scale - C) * u \in Int
            BY <3>2, <5>2, <6>1 DEF Positive
          <6>5. charges'[k][m].at = time
            BY <5>1, <5>6
          <6>4. 0 <= new.refilled_at_ms - time + u
            BY <1>0, <3>2, <3>3, <5>2 DEF Positive
          <6> DEFINE x == (new.tokens_fp + (l - m + 1) * Scale - C) * u
          <6>7. x <= 0 /\ x \in Int
            BY <6>2, <6>3
          <6> HIDE DEF x
          <6>6. x <= new.refilled_at_ms - charges'[k][m].at + u
            BY <1>0, <3>2, <5>2, <6>4, <6>5, <6>7 DEF Positive
          <6> QED
            BY <5>7, <6>6 DEF x
        <5> QED
          BY <3>6, <5>1, <5>5, <5>6
      <4> QED
        BY <4>1, <4>2
    <3> QED
      BY <2>2, <3>7, <3>8, <3>9 DEF u, C
  <2> QED
    BY <2>1, <2>2
<1> QED
  BY <1>1, <1>2, Steps
\* In requests and seconds instead of tokens_fp and units.
LEMMA InRequests ==
  ASSUME NEW d \in Int, NEW tok \in Nat, NEW x \in Int,
         NEW c \in Positive, NEW s \in Positive, NEW u \in Positive, NEW f \in Positive,
         (tok + d * s - c * s) * u <= x + u
  PROVE  (d - c) * (f * u) * s <= f * x + f * u
<1> DEFINE e == (d - c) * s
           y == e * u
<1>1. e \in Int /\ d * s - c * s = e /\ tok + d * s - c * s = tok + e
  BY DEF Positive
<1> HIDE DEF e
<1>2. y \in Int /\ tok * u \in Nat /\ (tok + e) * u = tok * u + y /\ u \in Int
  BY <1>1 DEF Positive
<1>3. (tok + e) * u <= x + u
  BY <1>1
<1>4. y <= x + u
  BY <1>2, <1>3
<1> HIDE DEF y
<1> DEFINE z == x + u
<1>8. z \in Int /\ y <= z
  BY <1>2, <1>4
<1> HIDE DEF z
<1>5. y * f <= z * f
  BY <1>2, <1>8, TimesLeq
<1>6. z * f = f * x + f * u
  BY <1>2 DEF Positive, z
<1>7. y * f = (d - c) * (f * u) * s
  BY DEF Positive, y, e
<1> QED
  BY <1>5, <1>6, <1>7

\* The script that charges a request leaves BucketInv for it and every earlier one.
LEMMA BucketHoldsStep ==
  TypeOK /\ TypeOK' /\ BucketInv' /\ BucketHolds /\ [Next]_vars => BucketHolds'
<1> SUFFICES ASSUME TypeOK, TypeOK', BucketInv', BucketHolds, [Next]_vars
             PROVE  BucketHolds'
  OBVIOUS
<1>0. time \in Nat /\ Skew \in Nat
  BY RateLimitAssumption DEF TypeOK
<1>1. CASE UNCHANGED <<bucket, window, charges>> /\ time' \in {time, time + 1}
  BY <1>1 DEF BucketHolds, PeriodMs, RefillFp
<1>2. ASSUME time' = time, NEW k \in Rule \X Subject, NEW now \in time .. time + Skew,
             Script(k, now)
      PROVE  BucketHolds'
  <2> SUFFICES ASSUME NEW j \in TokenBucket \X Subject, NEW n \in DOMAIN charges'[j],
                      NEW m \in 1 .. n
               PROVE  (n - m + 1 - capacity[j[1]]) * PeriodMs(j[1]) * Scale
                        <= RefillFp(j[1]) * (charges'[j][n].at - charges'[j][m].at + Skew)
                             + PeriodMs(j[1])
    BY DEF BucketHolds, PeriodMs, RefillFp
  <2>1. CASE charges'[j] = charges[j]
    BY <2>1 DEF BucketHolds
  <2>2. CASE j = k /\ Allowed(k, now, time)
    <3> DEFINE l == Len(charges[k])
    <3>1. /\ Len(charges'[k]) = l + 1 /\ DOMAIN charges'[k] = 1 .. l + 1
          /\ charges'[k][l + 1] = [at |-> time, now_ms |-> now]
          /\ \A i \in 1 .. l : charges'[k][i] = charges[k][i]
      BY <1>2, <2>2, Charged
    <3>2. l \in Nat /\ DOMAIN charges[k] = 1 .. l
      BY ChargesType
    <3> HIDE DEF l
    <3>3. k \in TokenBucket \X Subject /\ k[1] \in TokenBucket
      BY <2>2
    <3>4. CASE n \in 1 .. l
      <4>1. \A i \in 1 .. n : i \in 1 .. l
        BY <3>2, <3>4
      <4> QED
        BY <2>2, <3>1, <3>2, <3>4, <4>1 DEF BucketHolds
    <3>5. CASE n = l + 1
      <4> DEFINE r == k[1]
                 u == UnitMs(r)
                 at == charges'[k][m].at
                 ref == bucket'[k].refilled_at_ms
                 tok == bucket'[k].tokens_fp
                 d == n - m + 1
                 x == time - at + Skew
                 y == (tok + d * Scale - capacity[r] * Scale) * u
      <4>1. /\ RefillFp(r) \in Positive /\ u \in Positive /\ PeriodMs(r) = RefillFp(r) * u
            /\ capacity[r] \in Positive /\ Scale \in Positive
        BY <3>3, BucketConstants, RateLimitAssumption
      <4>2. bucket'[k] \in Bucket /\ m \in DOMAIN charges'[k] /\ n \in Nat
        BY <3>1, <3>2, <3>3, <3>5 DEF TypeOK
      <4>3. charges'[k][m] \in Charge
        <5>1. charges'[k] \in Seq(Charge)
          BY DEF TypeOK
        <5> QED
          BY <4>2, <5>1
      <4>4. at \in Nat
        BY <4>3 DEF Charge
      <4>5. /\ ref <= time + Skew
            /\ (tok + (Len(charges'[k]) - m + 1) * Scale - CapacityFp(r)) * u <= ref - at + u
        BY <1>2, <3>3, <4>2 DEF BucketInv, CapacityFp, UnitMs, PeriodMs, RefillFp
      <4>6. CapacityFp(r) = capacity[r] * Scale /\ Len(charges'[k]) = n
        BY <3>1, <3>5 DEF CapacityFp
      <4>7. tok \in Nat /\ ref \in Nat
        BY <4>2 DEF Bucket
      <4>8. y <= ref - at + u
        BY <4>5, <4>6
      <4> HIDE DEF at, ref, tok, u, r
      <4>9. d \in Int /\ x \in Int /\ u \in Int
        BY <1>0, <3>2, <4>1, <4>2, <4>4 DEF Positive
      <4>10. y \in Int
        BY <4>1, <4>7, <4>9 DEF Positive
      <4> HIDE DEF y, d
      <4>11. y <= x + u
        BY <1>0, <4>4, <4>5, <4>7, <4>8, <4>9, <4>10
      <4> HIDE DEF x
      <4>12. (d - capacity[r]) * (RefillFp(r) * u) * Scale <= RefillFp(r) * x + RefillFp(r) * u
        <5>1. (tok + d * Scale - capacity[r] * Scale) * u <= x + u
          BY <4>11 DEF y
        <5>2. d \in Int /\ x \in Int
          BY <4>9 DEF x
        <5> QED
          BY <4>1, <4>7, <5>1, <5>2, InRequests
      <4>13. (d - capacity[r]) * PeriodMs(r) * Scale <= RefillFp(r) * x + PeriodMs(r)
        BY <4>1, <4>12
      <4>14. charges'[k][n].at = time
        BY <3>1, <3>5
      <4>15. (n - m + 1 - capacity[r]) * PeriodMs(r) * Scale
               <= RefillFp(r) * (charges'[k][n].at - at + Skew) + PeriodMs(r)
        <5> DEFINE e == charges'[k][n].at - at + Skew
                   c == n - m + 1 - capacity[r]
        <5>1. x = e
          BY <4>14 DEF x
        <5>2. c = d - capacity[r]
          BY <4>1, <4>2 DEF d, Positive
        <5> HIDE DEF c, e
        <5>3. c * PeriodMs(r) * Scale <= RefillFp(r) * e + PeriodMs(r)
          BY <4>13, <5>1, <5>2
        <5> QED
          BY <5>3 DEF c, e
      <4> QED
        BY <2>2, <4>15 DEF r, at
    <3> QED
      BY <2>2, <3>1, <3>2, <3>4, <3>5
  <2>3. ASSUME j # k \/ ~Allowed(k, now, time)
        PROVE  charges'[j] = charges[j]
    BY <1>2, <2>3, NotCharged, Zenon
  <2> QED
    BY <2>1, <2>2, <2>3
<1> QED
  BY <1>1, <1>2, Steps

\* Every reachable state satisfies BucketHolds.
THEOREM BucketCorrect == Spec => []BucketHolds
<1>1. Init => BucketInv /\ BucketHolds
  BY Keys, RateLimitAssumption DEF Init, BucketInv, BucketHolds
<1>2. Spec => []BucketInv
  BY <1>1, BucketStep, ChargeOrder, TypeCorrect, PTL DEF Spec
<1> QED
  BY <1>1, <1>2, BucketHoldsStep, TypeCorrect, PTL DEF Spec
-----------------------------------------------------------------------------
\* A client that waits is not refused again

\* By the clock of a process: when a bucket will hold a token, if it is not used before.
DueMs(k) == bucket[k].refilled_at_ms + (Scale - bucket[k].tokens_fp) * UnitMs(k[1])

\* The members a window will still have at a time of that clock.
Younger(k, now) == {n \in window[k].members : charges[k][n].now_ms > now - WindowMs(k[1])}

WaitMs(p) == request[p].retry_after * Second + Skew
RefusedKey(p) == <<request[p].rule, SubjectOf[request[p].rule][request[p].client]>>

ToldMs(p) == request[p].now_ms + WaitMs(p)

\* What the refused request of p was told suffices, as long as its rule charges no other.
Enough(p) ==
  LET k == RefusedKey(p) IN
  /\ k \in Rule \X Subject /\ request[p].now_ms >= Offset[p] /\ request[p].seen <= Len(charges[k])
  /\ request[p].seen = Len(charges[k]) =>
       \/ k \in TokenBucket \X Subject /\ DueMs(k) <= ToldMs(p)
       \/ k \in SlidingWindow \X Subject /\ Cardinality(Younger(k, ToldMs(p))) + 1 <= max_requests[k[1]]

Refused(p) == request[p] # NoRequest /\ request[p].outcome = "refused"
WaitInv == \A p \in Process : Refused(p) => Enough(p)

\* A window has no more members than it lets pass.
FullInv == \A k \in SlidingWindow \X Subject : Cardinality(window[k].members) <= max_requests[k[1]]

LEMMA CeilDivBound ==
  ASSUME NEW a \in Int, NEW b \in Positive
  PROVE  CeilDiv(a, b) \in Int /\ CeilDiv(a, b) * b >= a
<1> DEFINE c == -a
           q == c \div b
<1>1. b \in Nat /\ b > 0 /\ c \in Int
  BY DEF Positive
<1> HIDE DEF c
<1>2. q \in Int /\ b * q <= c
  BY <1>1
<1> HIDE DEF q
<1>3. CeilDiv(a, b) = -q
  BY DEF CeilDiv, q, c
<1>4. (-q) * b = -(b * q) /\ b * q \in Int
  BY <1>1, <1>2
<1>5. -(b * q) >= a
  BY <1>1, <1>2, <1>4 DEF c
<1> QED
  BY <1>2, <1>3, <1>4, <1>5

\* What a refill adds: a unit for every UnitMs since the last, and no less.
LEMMA RefilledExact ==
  ASSUME TypeOK, NEW k \in TokenBucket \X Subject, NEW now \in Nat, NEW t \in Nat
  PROVE  LET old == OldBucket(k, now, t)
             new == Refilled(k, now, t)
             u == UnitMs(k[1]) IN
         \E added \in Nat :
           /\ new.tokens_fp = Smaller(CapacityFp(k[1]), old.tokens_fp + added)
           /\ new.refilled_at_ms = old.refilled_at_ms + added * u
           /\ now - old.refilled_at_ms < added * u + u
<1> DEFINE r == k[1]
           old == OldBucket(k, now, t)
           new == Refilled(k, now, t)
           u == UnitMs(r)
           e == Larger(0, now - old.refilled_at_ms)
           added == (e * RefillFp(r)) \div PeriodMs(r)
<1>1. r \in TokenBucket /\ old \in Bucket
  BY RefilledFacts
<1>2. /\ RefillFp(r) \in Positive /\ u \in Positive
      /\ PeriodMs(r) = RefillFp(r) * u
  BY <1>1, BucketConstants
<1>4. e \in Nat /\ e >= now - old.refilled_at_ms
  BY <1>1 DEF Larger, Bucket
<1>5. new = [tokens_fp      |-> Smaller(CapacityFp(r), old.tokens_fp + added),
             refilled_at_ms |-> old.refilled_at_ms + (added * PeriodMs(r)) \div RefillFp(r),
             expires_at     |-> t + TtlMs(r)]
  BY DEF Refilled, OldBucket
<1> HIDE DEF u, e, old
<1>6. added = e \div u
  BY <1>2, <1>4, DivCancel, e * RefillFp(r) = e * RefillFp(r)
<1>7. added \in Nat /\ added * u <= e /\ e < added * u + u
  BY <1>2, <1>4, <1>6 DEF Positive
<1> HIDE DEF added
<1>8. (added * PeriodMs(r)) \div RefillFp(r) = added * u
  <2>1. added * PeriodMs(r) = (added * u) * RefillFp(r) /\ added * u \in Nat
    BY <1>2, <1>7 DEF Positive
  <2> QED
    BY <2>1, <1>2, DivTimes
<1>9. /\ new.tokens_fp = Smaller(CapacityFp(r), old.tokens_fp + added)
      /\ new.refilled_at_ms = old.refilled_at_ms + added * u
  BY <1>5, <1>8
<1>10. now - old.refilled_at_ms < added * u + u
  <2>1. added * u + u \in Int /\ now - old.refilled_at_ms \in Int
    BY <1>1, <1>2, <1>7 DEF Bucket, Positive
  <2> QED  BY <1>4, <1>7, <2>1
<1> QED
  BY <1>7, <1>9, <1>10 DEF old, u

LEMMA DueType ==
  ASSUME TypeOK, NEW k \in TokenBucket \X Subject
  PROVE  /\ bucket[k] \in Bucket /\ UnitMs(k[1]) \in Positive /\ Scale \in Positive
         /\ CapacityFp(k[1]) \in Positive /\ Scale <= CapacityFp(k[1])
         /\ DueMs(k) \in Int
<1>1. bucket[k] \in Bucket /\ k[1] \in TokenBucket
  BY DEF TypeOK
<1>2. /\ UnitMs(k[1]) \in Positive /\ Scale \in Positive
      /\ CapacityFp(k[1]) \in Positive /\ Scale <= CapacityFp(k[1])
  BY <1>1, BucketConstants, RateLimitAssumption
<1> QED  BY <1>1, <1>2 DEF DueMs, Bucket, Positive

\* When it is due the bucket has a token, whether Redis still has its key or not.
LEMMA DueAllows ==
  ASSUME TypeOK, NEW k \in TokenBucket \X Subject, NEW now \in Nat, NEW t \in Nat, DueMs(k) <= now
  PROVE  Allowed(k, now, t)
<1> DEFINE old == OldBucket(k, now, t)
           new == Refilled(k, now, t)
           u == UnitMs(k[1])
           C == CapacityFp(k[1])
<1>1. /\ bucket[k] \in Bucket /\ u \in Positive /\ Scale \in Positive /\ C \in Positive /\ Scale <= C
      /\ k[1] \in TokenBucket
  BY DueType
<1>2. PICK added \in Nat : /\ new.tokens_fp = Smaller(C, old.tokens_fp + added)
                           /\ now - old.refilled_at_ms < added * u + u
  BY RefilledExact
<1>3. /\ Live(bucket[k], t) => old = bucket[k]
      /\ ~Live(bucket[k], t) => old.tokens_fp = C
  BY <1>1 DEF OldBucket, Bucket
<1>4. bucket[k].refilled_at_ms + (Scale - bucket[k].tokens_fp) * u <= now
  BY DEF DueMs
<1>5. Allowed(k, now, t) <=> new.tokens_fp >= Scale
  BY <1>1 DEF Allowed
<1> HIDE DEF old, new, u, C
<1>6. CASE ~Live(bucket[k], t)
  BY <1>1, <1>2, <1>3, <1>5, <1>6 DEF Smaller, Positive
<1>7. CASE Live(bucket[k], t)
  <2> DEFINE T == bucket[k].tokens_fp
             R == bucket[k].refilled_at_ms
             d == Scale - T
  <2>1. T \in Nat /\ R \in Nat /\ d \in Int /\ old.tokens_fp = T /\ old.refilled_at_ms = R
    BY <1>1, <1>3, <1>7 DEF Bucket, Positive
  <2>2. R + d * u <= now /\ now - R < added * u + u
    BY <1>2, <1>4, <2>1
  <2>a. d + T = Scale
    BY <1>1, <2>1 DEF Positive
  <2> HIDE DEF T, R, d
  <2>3. added >= d
    <3>1. SUFFICES ASSUME added + 1 <= d
                   PROVE  FALSE
      BY <2>1
    <3>2. (added + 1) * u <= d * u
      BY <1>1, <2>1, <3>1, TimesLeq
    <3>3. (added + 1) * u = added * u + u /\ added * u \in Int /\ d * u \in Int /\ u \in Int
      BY <1>1, <2>1 DEF Positive
    <3>4. added * u + u <= d * u
      BY <3>2, <3>3
    <3> DEFINE x == added * u
               y == d * u
    <3>5. x + u <= y /\ R + y <= now /\ now - R < x + u /\ x \in Int /\ y \in Int /\ u \in Int
      BY <2>2, <3>3, <3>4
    <3> HIDE DEF x, y
    <3> QED  BY <2>1, <3>5
  <2>4. old.tokens_fp + added >= Scale
    BY <1>1, <2>1, <2>3, <2>a DEF Positive
  <2> QED  BY <1>1, <1>2, <1>5, <2>1, <2>4 DEF Smaller, Positive
<1> QED  BY <1>6, <1>7

\* A bucket that refuses is still there, and what it is refilled does not make it due later.
LEMMA RefusedBucket ==
  ASSUME TypeOK, NEW k \in TokenBucket \X Subject, NEW now \in Nat, NEW t \in Nat, ~Allowed(k, now, t)
  PROVE  LET new == Refilled(k, now, t) IN
         /\ Live(bucket[k], t) /\ new.tokens_fp < Scale /\ new \in Bucket
         /\ new.refilled_at_ms + (Scale - new.tokens_fp) * UnitMs(k[1]) = DueMs(k)
<1> DEFINE old == OldBucket(k, now, t)
           new == Refilled(k, now, t)
           u == UnitMs(k[1])
           C == CapacityFp(k[1])
<1>1. /\ bucket[k] \in Bucket /\ u \in Positive /\ Scale \in Positive /\ C \in Positive /\ Scale <= C
      /\ k[1] \in TokenBucket
  BY DueType
<1>2. PICK added \in Nat : /\ new.tokens_fp = Smaller(C, old.tokens_fp + added)
                           /\ new.refilled_at_ms = old.refilled_at_ms + added * u
  BY RefilledExact
<1>3. /\ Live(bucket[k], t) => old = bucket[k]
      /\ ~Live(bucket[k], t) => old.tokens_fp = C
      /\ new \in Bucket
  BY <1>1, RefilledFacts DEF OldBucket, Bucket
<1>5. new.tokens_fp < Scale
  <2>1. ~(new.tokens_fp >= Scale)
    BY <1>1 DEF Allowed
  <2> QED  BY <1>1, <1>3, <2>1 DEF Bucket, Positive
<1> HIDE DEF old, new, C
<1>6. Live(bucket[k], t)
  <2>1. SUFFICES ASSUME ~Live(bucket[k], t)
                 PROVE  FALSE
    OBVIOUS
  <2> QED  BY <1>1, <1>2, <1>3, <1>5, <2>1 DEF Smaller, Positive
<1>7. new.tokens_fp = bucket[k].tokens_fp + added
  BY <1>1, <1>2, <1>3, <1>5, <1>6 DEF Smaller, Bucket, Positive
<1>8. new.refilled_at_ms + (Scale - new.tokens_fp) * u = DueMs(k)
  <2> DEFINE T == bucket[k].tokens_fp
             d == Scale - T
  <2>1. DueMs(k) = bucket[k].refilled_at_ms + d * u
    BY DEF DueMs
  <2>2. T \in Nat /\ bucket[k].refilled_at_ms \in Nat /\ d \in Int
    BY <1>1 DEF Bucket, Positive
  <2>3. Scale - new.tokens_fp = d - added
    BY <1>1, <1>7, <2>2 DEF Positive
  <2> HIDE DEF T, d, u
  <2>4. (d - added) * u = d * u - added * u /\ d * u \in Int /\ added * u \in Int
    BY <1>1, <2>2 DEF Positive
  <2>5. new.refilled_at_ms = bucket[k].refilled_at_ms + added * u
    BY <1>2, <1>3, <1>6
  <2> QED  BY <2>1, <2>2, <2>3, <2>4, <2>5
<1> QED  BY <1>3, <1>5, <1>6, <1>8 DEF new

\* The Retry-After of a token bucket lasts until it is due.
LEMMA BucketRetry ==
  ASSUME TypeOK, BucketInv, NEW k \in TokenBucket \X Subject, NEW now \in time .. time + Skew,
         ~Allowed(k, now, time)
  PROVE  DueMs(k) <= now + RetryAfter(k, now, time) * Second + Skew
<1> DEFINE new == Refilled(k, now, time)
           u == UnitMs(k[1])
           f == RefillFp(k[1])
           d == Scale - new.tokens_fp
           retry == RetryAfter(k, now, time)
           c == CeilDiv(d * PeriodMs(k[1]), f * Second)
<1>1. /\ k[1] \in TokenBucket /\ k \in Rule \X Subject /\ time \in Nat /\ now \in Nat /\ Skew \in Nat
      /\ Second \in Positive /\ Scale \in Positive /\ time <= now
  BY Keys, RateLimitAssumption DEF TypeOK
<1>2. /\ u \in Positive /\ f \in Positive /\ PeriodMs(k[1]) = f * u /\ bucket[k] \in Bucket
  BY <1>1, BucketConstants, DueType
<1>3. /\ new \in Bucket /\ new.tokens_fp < Scale /\ Live(bucket[k], time)
      /\ DueMs(k) = new.refilled_at_ms + d * u
  BY <1>1, RefusedBucket
<1>4. new.refilled_at_ms <= now + Skew
  <2>1. new.refilled_at_ms <= Larger(now, bucket[k].refilled_at_ms)
    BY <1>1, <1>3, RefilledFacts DEF OldBucket
  <2>2. bucket[k].refilled_at_ms <= time + Skew
    BY DEF BucketInv
  <2> QED  BY <1>1, <1>2, <1>3, <2>1, <2>2 DEF Larger, Bucket
<1>5. retry = Larger(1, c) /\ d \in Nat
  BY <1>1, <1>3 DEF RetryAfter, Bucket, Positive
<1> HIDE DEF new, u, f, d, retry
<1>6. c \in Int /\ c * (f * Second) >= d * PeriodMs(k[1])
  <2>1. f * Second \in Positive /\ d * PeriodMs(k[1]) \in Int
    BY <1>1, <1>2, <1>5 DEF Positive
  <2> QED  BY <2>1, CeilDivBound
<1> HIDE DEF c
<1>7. retry \in Int /\ retry >= c
  BY <1>5, <1>6 DEF Larger
<1>8. retry * Second >= d * u
  <2>1. (retry * Second) * f >= (d * u) * f
    <3>1. c * (f * Second) = (c * Second) * f /\ d * (f * u) = (d * u) * f
      BY <1>1, <1>2, <1>5, <1>6 DEF Positive
    <3>2. c * Second <= retry * Second
      BY <1>1, <1>6, <1>7, TimesLeq
    <3>3. c * Second \in Int /\ retry * Second \in Int /\ d * u \in Int
      BY <1>1, <1>2, <1>5, <1>6, <1>7 DEF Positive
    <3>4. (c * Second) * f <= (retry * Second) * f
      BY <1>2, <3>2, <3>3, TimesLeq
    <3>5. (c * Second) * f \in Int /\ (retry * Second) * f \in Int /\ (d * u) * f \in Int
      BY <1>2, <3>3 DEF Positive
    <3>6. (c * Second) * f >= (d * u) * f
      BY <1>2, <1>6, <3>1
    <3> QED  BY <3>4, <3>5, <3>6
  <2>2. retry * Second \in Int /\ d * u \in Int
    BY <1>1, <1>2, <1>5, <1>7 DEF Positive
  <2> DEFINE x == retry * Second
             y == d * u
  <2>3. x \in Int /\ y \in Int /\ x * f >= y * f
    BY <2>1, <2>2
  <2> HIDE DEF x, y
  <2>4. ~(x + 1 <= y)
    <3>1. SUFFICES ASSUME x + 1 <= y
                   PROVE  FALSE
      OBVIOUS
    <3>2. (x + 1) * f <= y * f
      BY <1>2, <2>3, <3>1, TimesLeq
    <3>3. (x + 1) * f = x * f + f /\ x * f \in Int /\ y * f \in Int /\ f \in Int /\ f > 0
      BY <1>2, <2>3 DEF Positive
    <3> QED  BY <2>3, <3>2, <3>3
  <2>5. x >= y
    BY <2>3, <2>4
  <2> QED  BY <2>5 DEF x, y
<1> DEFINE x == retry * Second
           y == d * u
<1>9. x \in Int /\ y \in Int /\ x >= y /\ DueMs(k) = new.refilled_at_ms + y /\ new.refilled_at_ms \in Int
  BY <1>1, <1>2, <1>3, <1>5, <1>7, <1>8 DEF Bucket, Positive
<1> HIDE DEF x, y
<1>10. DueMs(k) <= now + x + Skew
  BY <1>1, <1>4, <1>9
<1> QED  BY <1>10 DEF x, retry

LEMMA MemberFacts ==
  ASSUME TypeOK, NEW k \in SlidingWindow \X Subject
  PROVE  /\ k \in Rule \X Subject /\ k[1] \in SlidingWindow /\ k[1] \notin TokenBucket
         /\ window[k] \in Window /\ window[k].members \subseteq DOMAIN charges[k]
         /\ IsFiniteSet(window[k].members) /\ Cardinality(window[k].members) \in Nat
         /\ WindowMs(k[1]) \in Positive /\ max_requests[k[1]] \in Positive
<1>1. k \in Rule \X Subject /\ k[1] \in SlidingWindow /\ k[1] \notin TokenBucket
  BY Keys
<1>2. window[k] \in Window /\ window[k].members \subseteq 1 .. Len(charges[k])
      /\ charges[k] \in Seq(Charge)
  BY <1>1, ChargesType DEF TypeOK
<1>3. IsFiniteSet(1 .. Len(charges[k]))
  BY <1>2, PlacesFinite
<1>4. IsFiniteSet(window[k].members) /\ Cardinality(window[k].members) \in Nat
  BY <1>2, <1>3, FS_Subset, FS_CardinalityType
<1> QED  BY <1>1, <1>2, <1>4, WindowConstants, ChargesType

\* A window with a member less than it lets pass allows a request, also when Redis has
\* dropped it.
LEMMA YoungerAllows ==
  ASSUME TypeOK, NEW k \in SlidingWindow \X Subject, NEW now \in Nat, NEW t \in Nat,
         Cardinality(Younger(k, now)) + 1 <= max_requests[k[1]]
  PROVE  Allowed(k, now, t)
<1>1. k[1] \notin TokenBucket /\ max_requests[k[1]] \in Positive
  BY MemberFacts
<1>2. CASE Live(window[k], t)
  <2>1. Remaining(k, now, t) = Younger(k, now)
    BY <1>2 DEF Remaining, Younger
  <2> QED  BY <1>1, <2>1 DEF Allowed
<1>3. CASE ~Live(window[k], t)
  <2>1. Cardinality(Remaining(k, now, t)) = 0
    BY <1>3, FS_EmptySet DEF Remaining
  <2> QED  BY <1>1, <2>1 DEF Allowed, Positive
<1> QED  BY <1>2, <1>3

\* What the script leaves of a window.
LEMMA WindowAfter ==
  ASSUME TypeOK, NEW k \in SlidingWindow \X Subject, NEW now \in time .. time + Skew, Script(k, now)
  PROVE  /\ Remaining(k, now, time) \subseteq window[k].members
         /\ ~Allowed(k, now, time) => window'[k].members = Remaining(k, now, time)
         /\ Allowed(k, now, time) => window'[k].members = Remaining(k, now, time) \cup {Len(charges[k]) + 1}
         /\ \A j \in SlidingWindow \X Subject : j # k => window'[j] = window[j]
         /\ \A j \in TokenBucket \X Subject : bucket'[j] = bucket[j]
<1>1. WriteWindow(k, now) /\ UNCHANGED bucket
  BY Keys DEF Script
<1>2. window[k] \in Window /\ window \in [SlidingWindow \X Subject -> Window]
  BY DEF TypeOK
<1>3. Remaining(k, now, time) \subseteq window[k].members
  BY DEF Remaining
<1> DEFINE R == Remaining(k, now, time)
           w == IF Allowed(k, now, time)
                  THEN [members |-> R \cup {Len(charges[k]) + 1}, expires_at |-> time + TtlMs(k[1])]
                  ELSE [window[k] EXCEPT !.members = R]
<1>4. window' = [window EXCEPT ![k] = w]
  BY <1>1 DEF WriteWindow
<1>5. /\ ~Allowed(k, now, time) => w.members = R
      /\ Allowed(k, now, time) => w.members = R \cup {Len(charges[k]) + 1}
  BY <1>2 DEF Window
<1> HIDE DEF w, R
<1>6. window'[k] = w /\ \A j \in SlidingWindow \X Subject : j # k => window'[j] = window[j]
  BY <1>2, <1>4
<1> QED  BY <1>1, <1>3, <1>5, <1>6 DEF R

\* The Retry-After of a sliding window lasts until its oldest member is out of it.
LEMMA WindowRetry ==
  ASSUME TypeOK, FullInv, NEW k \in SlidingWindow \X Subject, NEW now \in time .. time + Skew,
         ~Allowed(k, now, time)
  PROVE  LET at == now + RetryAfter(k, now, time) * Second + Skew
             left == {n \in Remaining(k, now, time) : charges[k][n].now_ms > at - WindowMs(k[1])} IN
         Cardinality(left) + 1 <= max_requests[k[1]]
<1> DEFINE R == Remaining(k, now, time)
           retry == RetryAfter(k, now, time)
           W == WindowMs(k[1])
           at == now + retry * Second + Skew
           left == {n \in R : charges[k][n].now_ms > at - W}
           oldest == CHOOSE n \in R : \A m \in R : charges[k][n].now_ms <= charges[k][m].now_ms
           a == charges[k][oldest].now_ms + W - now
           c == CeilDiv(a, Second)
<1>1. /\ k[1] \notin TokenBucket /\ W \in Positive /\ max_requests[k[1]] \in Positive
      /\ time \in Nat /\ now \in Nat /\ Skew \in Nat /\ Second \in Positive
      /\ IsFiniteSet(window[k].members) /\ Cardinality(window[k].members) \in Nat
  BY MemberFacts, RateLimitAssumption DEF TypeOK
<1>2. /\ R \subseteq DOMAIN charges[k] /\ (\A n \in DOMAIN charges[k] : charges[k][n] \in Charge)
      /\ IsFiniteSet(R) /\ Cardinality(R) \in Nat
  BY <1>1, RemainingFacts
<1>3. R # {}
  BY <1>1, FS_EmptySet DEF Allowed, Positive
<1>4. oldest \in R
  BY <1>2, <1>3, OldestExists
<1>5. retry = Larger(1, c)
  BY <1>1 DEF RetryAfter
<1>6. R \subseteq window[k].members
  BY DEF Remaining
<1> HIDE DEF R, W, retry, oldest
<1>7. charges[k][oldest].now_ms \in Nat
  BY <1>2, <1>4 DEF Charge
<1>8. a \in Int
  BY <1>1, <1>7 DEF Positive
<1>9. c \in Int /\ c * Second >= a
  <2> HIDE DEF a
  <2> QED  BY <1>1, <1>8, CeilDivBound
<1> HIDE DEF c
<1>10. retry \in Int /\ retry >= c
  BY <1>5, <1>9 DEF Larger
<1>11. retry * Second >= a /\ retry * Second \in Int
  <2>1. c * Second <= retry * Second
    BY <1>1, <1>9, <1>10, TimesLeq
  <2>2. c * Second \in Int /\ retry * Second \in Int
    BY <1>1, <1>9, <1>10 DEF Positive
  <2> HIDE DEF a
  <2> QED  BY <1>8, <1>9, <2>1, <2>2
<1>12. oldest \notin left
  <2> DEFINE x == retry * Second
             o == charges[k][oldest].now_ms
             e == at - W
  <2>1. x \in Int /\ x >= o + W - now /\ o \in Nat
    BY <1>7, <1>11
  <2>2. e = (now + x + Skew) - W
    OBVIOUS
  <2> HIDE DEF at
  <2>3. oldest \in left => o > e
    BY Zenon
  <2> HIDE DEF x, o, e, left, a
  <2>4. e \in Int /\ o \in Int /\ e >= o
    BY <1>1, <2>1, <2>2 DEF Positive
  <2> QED  BY <2>3, <2>4
<1>13. left \subseteq R \ {oldest}
  BY <1>12
<1> HIDE DEF left
<1>14. Cardinality(R \ {oldest}) = Cardinality(R) - 1 /\ IsFiniteSet(R \ {oldest})
  BY <1>2, <1>4, FS_RemoveElement
<1>15. Cardinality(left) <= Cardinality(R \ {oldest}) /\ Cardinality(left) \in Nat
  BY <1>13, <1>14, FS_Subset, FS_CardinalityType
<1>16. Cardinality(R) <= Cardinality(window[k].members) /\ Cardinality(window[k].members) <= max_requests[k[1]]
  BY <1>1, <1>6, FS_Subset DEF FullInv
<1>17. Cardinality(left) + 1 <= max_requests[k[1]]
  BY <1>1, <1>2, <1>14, <1>15, <1>16 DEF Positive
<1> QED  BY <1>17 DEF left, R, retry, W

LEMMA FullStep == TypeOK /\ FullInv /\ [Next]_vars => FullInv'
<1> SUFFICES ASSUME TypeOK, FullInv, [Next]_vars
             PROVE  FullInv'
  OBVIOUS
<1>0. time \in Nat /\ Skew \in Nat
  BY RateLimitAssumption DEF TypeOK
<1>1. CASE UNCHANGED window
  BY <1>1 DEF FullInv
<1>2. ASSUME NEW k \in SlidingWindow \X Subject, NEW now \in time .. time + Skew, Script(k, now)
      PROVE  FullInv'
  <2> DEFINE R == Remaining(k, now, time)
  <2>1. /\ k[1] \notin TokenBucket /\ max_requests[k[1]] \in Positive /\ now \in Nat
        /\ IsFiniteSet(window[k].members) /\ Cardinality(window[k].members) \in Nat
    BY <1>0, MemberFacts
  <2>2. /\ R \subseteq window[k].members
        /\ ~Allowed(k, now, time) => window'[k].members = R
        /\ Allowed(k, now, time) => window'[k].members = R \cup {Len(charges[k]) + 1}
        /\ \A j \in SlidingWindow \X Subject : j # k => window'[j] = window[j]
    BY <1>2, WindowAfter
  <2>3. IsFiniteSet(R) /\ Cardinality(R) \in Nat
    BY <1>0, <2>1, RemainingFacts
  <2>4. Cardinality(window'[k].members) <= max_requests[k[1]]
    <3>1. CASE ~Allowed(k, now, time)
      <4>1. Cardinality(R) <= Cardinality(window[k].members)
        BY <2>1, <2>2, FS_Subset
      <4>2. Cardinality(window[k].members) <= max_requests[k[1]]
        BY DEF FullInv
      <4> QED  BY <2>1, <2>2, <2>3, <3>1, <4>1, <4>2 DEF Positive
    <3>2. CASE Allowed(k, now, time)
      <4>1. Cardinality(R) + 1 <= max_requests[k[1]]
        BY <2>1, <3>2 DEF Allowed
      <4> DEFINE e == Len(charges[k]) + 1
                 m == max_requests[k[1]]
      <4>2. window'[k].members = R \cup {e} /\ m \in Nat /\ Cardinality(R) + 1 <= m
        BY <2>1, <2>2, <3>2, <4>1 DEF Positive
      <4> HIDE DEF R, e, m
      <4>3. Cardinality(R \cup {e}) = IF e \in R THEN Cardinality(R) ELSE Cardinality(R) + 1
        BY <2>3, FS_AddElement
      <4>4. Cardinality(R \cup {e}) <= m
        BY <2>3, <4>2, <4>3
      <4> QED  BY <4>2, <4>4 DEF m
    <3> QED  BY <3>1, <3>2
  <2> QED  BY <2>2, <2>4 DEF FullInv
<1>3. ASSUME NEW k \in TokenBucket \X Subject, NEW now, Script(k, now)
      PROVE  UNCHANGED window
  BY <1>3, Keys DEF Script
<1> QED
  BY <1>1, <1>2, <1>3, Steps, Keys

\* As long as nothing more is charged to a bucket, it is not due later than it was.
LEMMA StillDue ==
  ASSUME TypeOK, [Next]_vars, NEW k \in TokenBucket \X Subject, charges'[k] = charges[k]
  PROVE  bucket'[k].refilled_at_ms + (Scale - bucket'[k].tokens_fp) * UnitMs(k[1]) = DueMs(k)
<1>0. time \in Nat /\ Skew \in Nat /\ k \in Rule \X Subject /\ k[1] \in TokenBucket /\ k[1] \notin SlidingWindow
  BY Keys, RateLimitAssumption DEF TypeOK
<1>1. CASE bucket'[k] = bucket[k]
  BY <1>1 DEF DueMs
<1>2. ASSUME NEW j \in Rule \X Subject, NEW now \in time .. time + Skew, Script(j, now), j # k
      PROVE  bucket'[k] = bucket[k]
  BY <1>2 DEF Script, WriteBucket, TypeOK
<1>3. ASSUME NEW now \in time .. time + Skew, Script(k, now)
      PROVE  bucket'[k].refilled_at_ms + (Scale - bucket'[k].tokens_fp) * UnitMs(k[1]) = DueMs(k)
  <2> DEFINE new == Refilled(k, now, time)
  <2>0. now \in Nat
    BY <1>0, <1>3
  <2>1. ~Allowed(k, now, time)
    <3>1. SUFFICES ASSUME Allowed(k, now, time)
                   PROVE  FALSE
      OBVIOUS
    <3>2. Len(charges'[k]) = Len(charges[k]) + 1 /\ Len(charges[k]) \in Nat
      BY <1>0, <1>3, <3>1, Charged, ChargesType
    <3> QED  BY <3>2
  <2>2. /\ new.tokens_fp < Scale /\ new \in Bucket
        /\ new.refilled_at_ms + (Scale - new.tokens_fp) * UnitMs(k[1]) = DueMs(k)
    BY <1>0, <1>3, <2>0, <2>1, RefusedBucket
  <2>3. bucket'[k] = [new EXCEPT !.tokens_fp = IF new.tokens_fp >= Scale THEN new.tokens_fp - Scale
                                                                         ELSE new.tokens_fp]
    BY <1>0, <1>3 DEF Script, WriteBucket, TypeOK
  <2> HIDE DEF new
  <2>4. new.tokens_fp \in Nat /\ Scale \in Positive
    BY <2>2, RateLimitAssumption DEF Bucket
  <2>5. bucket'[k].tokens_fp = new.tokens_fp /\ bucket'[k].refilled_at_ms = new.refilled_at_ms
    BY <2>2, <2>3, <2>4 DEF Bucket, Positive
  <2> QED  BY <2>2, <2>5
<1>4. CASE \E j \in Rule \X Subject, now \in time .. time + Skew : Script(j, now)
  BY <1>1, <1>2, <1>3, <1>4
<1>5. CASE UNCHANGED bucket
  BY <1>1, <1>5
<1> QED  BY <1>4, <1>5, Steps

\* As long as nothing more is charged to a window, it gains no member.
LEMMA StillYounger ==
  ASSUME TypeOK, [Next]_vars, NEW k \in SlidingWindow \X Subject, charges'[k] = charges[k],
         NEW then
  PROVE  LET younger == {n \in window'[k].members : charges'[k][n].now_ms > then - WindowMs(k[1])} IN
         /\ Cardinality(younger) \in Nat /\ Cardinality(Younger(k, then)) \in Nat
         /\ Cardinality(younger) <= Cardinality(Younger(k, then))
<1>0. /\ time \in Nat /\ k \in Rule \X Subject /\ k[1] \in SlidingWindow /\ k[1] \notin TokenBucket
      /\ IsFiniteSet(window[k].members)
  BY MemberFacts DEF TypeOK
<1>1. ASSUME UNCHANGED window
      PROVE  window'[k].members \subseteq window[k].members
  BY <1>1
<1>2. ASSUME NEW j \in Rule \X Subject, NEW now \in time .. time + Skew, Script(j, now), j # k
      PROVE  window'[k] = window[k]
  BY <1>2 DEF Script, WriteWindow, TypeOK
<1>3. ASSUME NEW now \in time .. time + Skew, Script(k, now)
      PROVE  window'[k].members \subseteq window[k].members
  <2>1. ~Allowed(k, now, time)
    <3>1. SUFFICES ASSUME Allowed(k, now, time)
                   PROVE  FALSE
      OBVIOUS
    <3>2. Len(charges'[k]) = Len(charges[k]) + 1 /\ Len(charges[k]) \in Nat
      BY <1>0, <1>3, <3>1, Charged, ChargesType
    <3> QED  BY <3>2
  <2> QED  BY <1>3, <2>1, WindowAfter
<1>4. window'[k].members \subseteq window[k].members
  BY <1>1, <1>2, <1>3, Steps
<1> DEFINE younger == {n \in window'[k].members : charges'[k][n].now_ms > then - WindowMs(k[1])}
           before == Younger(k, then)
<1>5. younger \subseteq before
  BY <1>4 DEF Younger
<1>6. IsFiniteSet(before)
  <2>1. before \subseteq window[k].members
    BY DEF Younger
  <2> QED  BY <1>0, <2>1, FS_Subset
<1> HIDE DEF younger, before
<1>7. Cardinality(younger) \in Nat /\ Cardinality(before) \in Nat /\ Cardinality(younger) <= Cardinality(before)
  BY <1>5, <1>6, FS_Subset, FS_CardinalityType
<1> QED  BY <1>7 DEF younger, before

\* A refusal says enough.
LEMMA RefusedEnough ==
  ASSUME TypeOK, BucketInv, FullInv, [Next]_vars, NEW p \in Process, EvaluateRule(p),
         ~Allowed(KeyOf(p), Now(p), time)
  PROVE  Enough(p)'
<1> DEFINE q == request[p]
           r == request'[p]
<1>0. /\ q \in Request /\ KeyOf(p) \in Rule \X Subject
      /\ KeyOf(p) = <<RuleOf(p), SubjectOf[RuleOf(p)][q.client]>>
      /\ Now(p) \in time .. time + Skew /\ Now(p) \in Nat /\ Now(p) >= Offset[p] /\ Offset[p] \in Nat
  <2>1. Now(p) >= Offset[p] /\ Offset[p] \in Nat
    BY RateLimitAssumption DEF Now, TypeOK
  <2> QED  BY <2>1, KeyFacts DEF EvaluateRule
<1>1. PICK k \in Rule \X Subject : k = KeyOf(p)
  BY <1>0
<1>2. PICK now \in Nat : now = Now(p)
  BY <1>0
<1>3. /\ Script(k, now) /\ ~Allowed(k, now, time) /\ now \in time .. time + Skew /\ time' = time
      /\ request' = [request EXCEPT ![p] = Answered(q, k, now)]
  BY <1>0, <1>1, <1>2 DEF EvaluateRule
<1>4. charges' = charges
  BY <1>3 DEF Script
<1>5. /\ r.rule = k[1] /\ r.client = q.client /\ r.now_ms = now
      /\ r.retry_after = RetryAfter(k, now, time) /\ r.seen = Len(charges[k])
  <2>1. r = [q EXCEPT !.outcome = "refused", !.rule = k[1], !.now_ms = now,
                      !.retry_after = RetryAfter(k, now, time), !.seen = Len(charges[k])]
    BY <1>3 DEF TypeOK, Answered
  <2> HIDE DEF q, r
  <2> QED  BY <1>0, <2>1 DEF Request
<1>6. RefusedKey(p)' = k
  BY <1>0, <1>1, <1>5 DEF RefusedKey
<1> DEFINE then == now + (RetryAfter(k, now, time) * Second + Skew)
<1>7. ToldMs(p)' = then
  BY <1>5 DEF ToldMs, WaitMs
<1>8. Len(charges'[k]) \in Nat /\ r.seen = Len(charges'[k]) /\ r.now_ms >= Offset[p]
  BY <1>0, <1>2, <1>4, <1>5, ChargesType
<1>9. then = now + RetryAfter(k, now, time) * Second + Skew /\ then \in Int
  <2>1. RetryAfter(k, now, time) \in Nat
    BY <1>3, RetryAfterType
  <2>2. RetryAfter(k, now, time) * Second \in Int /\ Skew \in Int
    BY <2>1, RateLimitAssumption DEF Positive
  <2> DEFINE m == RetryAfter(k, now, time) * Second
  <2> HIDE DEF m
  <2>3. now + (m + Skew) = now + m + Skew /\ now + (m + Skew) \in Int
    BY <1>3, <2>2, RateLimitAssumption DEF TypeOK, m
  <2> QED  BY <2>3 DEF m
<1>10. PICK told \in Int : told = then
  BY <1>9
<1> HIDE DEF then, q, r
<1>11. \/ /\ k \in TokenBucket \X Subject
          /\ bucket'[k].refilled_at_ms + (Scale - bucket'[k].tokens_fp) * UnitMs(k[1]) <= told
       \/ /\ k \in SlidingWindow \X Subject
          /\ Cardinality({n \in window'[k].members : charges'[k][n].now_ms > told - WindowMs(k[1])}) + 1
               <= max_requests[k[1]]
  <2>1. CASE k \in TokenBucket \X Subject
    <3>1. DueMs(k) <= told
      BY <1>3, <1>9, <1>10, <2>1, BucketRetry
    <3> QED  BY <1>4, <2>1, <3>1, StillDue
  <2>2. CASE k \in SlidingWindow \X Subject
    <3> DEFINE left == {n \in Remaining(k, now, time) : charges[k][n].now_ms > told - WindowMs(k[1])}
               after == {n \in window'[k].members : charges'[k][n].now_ms > told - WindowMs(k[1])}
    <3>1. Cardinality(left) + 1 <= max_requests[k[1]]
      BY <1>3, <1>9, <1>10, <2>2, WindowRetry
    <3>2. window'[k].members = Remaining(k, now, time)
      BY <1>3, <2>2, WindowAfter
    <3>3. after = left
      BY <1>4, <3>2
    <3> QED  BY <2>2, <3>1, <3>3
  <2> QED  BY <2>1, <2>2, Keys
<1>12. ToldMs(p)' = told
  BY <1>7, <1>10
<1> QED
  BY <1>6, <1>8, <1>11, <1>12
  DEF Enough, DueMs, Younger, UnitMs, PeriodMs, RefillFp, WindowMs, r

\* A key's charges stay, or there are more.
LEMMA ChargesGrow ==
  ASSUME TypeOK, [Next]_vars, NEW k \in Rule \X Subject
  PROVE  charges'[k] = charges[k] \/ Len(charges'[k]) = Len(charges[k]) + 1
<1>1. ASSUME NEW j \in Rule \X Subject, NEW now \in time .. time + Skew, Script(j, now)
      PROVE  charges'[k] = charges[k] \/ Len(charges'[k]) = Len(charges[k]) + 1
  <2>1. CASE j = k /\ Allowed(j, now, time)
    BY <1>1, <2>1, Charged
  <2>2. CASE k # j \/ ~Allowed(j, now, time)
    BY <1>1, <2>2, NotCharged
  <2> QED  BY <2>1, <2>2
<1>2. CASE UNCHANGED charges
  BY <1>2
<1> QED  BY <1>1, <1>2, Steps

\* What was enough stays so while the process does not go on.
LEMMA EnoughStays ==
  ASSUME TypeOK, [Next]_vars, NEW p \in Process, Refused(p), Enough(p), request'[p] = request[p]
  PROVE  Enough(p)'
<1>1. PICK k \in Rule \X Subject : k = RefusedKey(p)
  BY DEF Enough
<1>2. RefusedKey(p)' = k
  BY <1>1 DEF RefusedKey
<1>0. request[p] \in Request /\ Skew \in Nat /\ Second \in Positive
  BY RateLimitAssumption DEF Refused, TypeOK
<1>3. PICK told \in Int : told = ToldMs(p)
  <2>1. request[p].now_ms \in Nat /\ request[p].retry_after \in Nat
    BY <1>0 DEF Request
  <2> QED  BY <1>0, <2>1 DEF ToldMs, WaitMs, Positive
<1>4. ToldMs(p)' = told
  BY <1>3 DEF ToldMs, WaitMs
<1>5. /\ Len(charges[k]) \in Nat /\ request[p].seen \in Nat /\ request[p].seen <= Len(charges[k])
      /\ request[p].now_ms >= Offset[p]
      /\ charges'[k] = charges[k] \/ Len(charges'[k]) = Len(charges[k]) + 1
  BY <1>0, <1>1, ChargesGrow, ChargesType DEF Enough, Request
<1>6. request[p].seen <= Len(charges'[k])
  BY <1>5
<1>7. ASSUME request[p].seen = Len(charges'[k])
      PROVE  \/ /\ k \in TokenBucket \X Subject
                /\ bucket'[k].refilled_at_ms + (Scale - bucket'[k].tokens_fp) * UnitMs(k[1]) <= told
             \/ /\ k \in SlidingWindow \X Subject
                /\ Cardinality({n \in window'[k].members : charges'[k][n].now_ms > told - WindowMs(k[1])}) + 1
                     <= max_requests[k[1]]
  <2>1. charges'[k] = charges[k]
    BY <1>5, <1>7
  <2>2. \/ k \in TokenBucket \X Subject /\ DueMs(k) <= told
        \/ k \in SlidingWindow \X Subject /\ Cardinality(Younger(k, told)) + 1 <= max_requests[k[1]]
    BY <1>1, <1>3, <1>7, <2>1 DEF Enough
  <2>3. CASE k \in TokenBucket \X Subject /\ DueMs(k) <= told
    BY <2>1, <2>3, StillDue
  <2>4. CASE k \in SlidingWindow \X Subject /\ Cardinality(Younger(k, told)) + 1 <= max_requests[k[1]]
    <3> DEFINE after == {n \in window'[k].members : charges'[k][n].now_ms > told - WindowMs(k[1])}
    <3>1. /\ Cardinality(after) \in Nat /\ Cardinality(Younger(k, told)) \in Nat
          /\ Cardinality(after) <= Cardinality(Younger(k, told))
      BY <2>1, <2>4, StillYounger
    <3>2. max_requests[k[1]] \in Nat
      BY <2>4, MemberFacts DEF Positive
    <3> HIDE DEF after
    <3>3. Cardinality(after) + 1 <= max_requests[k[1]]
      BY <2>4, <3>1, <3>2
    <3> QED  BY <2>4, <3>3 DEF after
  <2> QED  BY <2>2, <2>3, <2>4
<1> QED
  BY <1>2, <1>4, <1>5, <1>6, <1>7
  DEF Enough, DueMs, Younger, UnitMs, PeriodMs, RefillFp, WindowMs

\* A step leaves a refused request enough, or makes one of which it is.
LEMMA WaitStep == TypeOK /\ BucketInv /\ FullInv /\ WaitInv /\ [Next]_vars => WaitInv'
<1> SUFFICES ASSUME TypeOK, BucketInv, FullInv, WaitInv, [Next]_vars, NEW p \in Process, Refused(p)'
             PROVE  Enough(p)'
  BY DEF WaitInv
<1>1. ASSUME request'[p] = request[p]
      PROVE  Enough(p)'
  <2>1. Refused(p)
    BY <1>1 DEF Refused
  <2> QED  BY <1>1, <2>1, EnoughStays DEF WaitInv
<1>2. CASE UNCHANGED vars \/ Tick
  BY <1>1, <1>2 DEF vars, Tick
<1>3. ASSUME NEW o \in Process, Arrive(o) \/ SkipRule(o) \/ EvaluateRule(o) \/ RedisFails(o), o # p
      PROVE  request'[p] = request[p]
  BY <1>3 DEF Arrive, SkipRule, EvaluateRule, RedisFails, TypeOK
<1>4. ASSUME Arrive(p)
      PROVE  FALSE
  <2>1. PICK c \in Client, pol \in Policy :
          request' = [request EXCEPT ![p] =
            [client |-> c, policy |-> pol, next |-> 1, charged |-> {}, outcome |-> "passing",
             rule |-> NoRule, now_ms |-> 0, retry_after |-> 0, seen |-> 0]]
    BY <1>4 DEF Arrive
  <2>2. request'[p].outcome = "passing"
    BY <2>1 DEF TypeOK
  <2> QED  BY <2>2 DEF Refused
<1>5. ASSUME SkipRule(p)
      PROVE  FALSE
  <2>1. request[p] \in Request /\ request[p].outcome = "passing"
    BY <1>5, KeyFacts DEF SkipRule, Checking, Passing
  <2>2. request'[p] = [request[p] EXCEPT !.next = @ + 1]
    BY <1>5 DEF SkipRule, TypeOK
  <2>3. request'[p].outcome = "passing"
    BY <2>1, <2>2 DEF Request
  <2> QED  BY <2>3 DEF Refused
<1>6. ASSUME RedisFails(p)
      PROVE  FALSE
  <2>1. request[p] \in Request
    BY <1>6, KeyFacts DEF RedisFails
  <2>2. request'[p] = [request[p] EXCEPT !.outcome = OnRedisError(request[p].policy)]
    BY <1>6 DEF RedisFails, TypeOK
  <2>3. request'[p].outcome # "refused"
    BY <2>1, <2>2 DEF Request, OnRedisError
  <2> QED  BY <2>3 DEF Refused
<1>7. ASSUME EvaluateRule(p)
      PROVE  Enough(p)'
  <2>1. request[p] \in Request /\ request[p].outcome = "passing"
    BY <1>7, KeyFacts DEF EvaluateRule, Checking, Passing
  <2>2. request'[p] = Answered(request[p], KeyOf(p), Now(p))
    BY <1>7 DEF EvaluateRule, TypeOK
  <2>3. ~Allowed(KeyOf(p), Now(p), time)
    <3>1. SUFFICES ASSUME Allowed(KeyOf(p), Now(p), time)
                   PROVE  FALSE
      OBVIOUS
    <3>2. request'[p].outcome = "passing"
      BY <2>1, <2>2, <3>1 DEF Request, Answered
    <3> QED  BY <3>2 DEF Refused
  <2> QED  BY <1>7, <2>3, RefusedEnough
<1> QED
  BY <1>1, <1>2, <1>3, <1>4, <1>5, <1>6, <1>7 DEF Next

\* Every reachable state satisfies RetryAfterIsEnough.
THEOREM RetryAfterSuffices == Spec => []RetryAfterIsEnough
<1>1. Init => BucketInv /\ FullInv /\ WaitInv
  <2>1. Init => BucketInv
    BY Keys, RateLimitAssumption DEF Init, BucketInv
  <2>2. Init => FullInv
    <3> SUFFICES ASSUME Init, NEW k \in SlidingWindow \X Subject
                 PROVE  Cardinality(window[k].members) <= max_requests[k[1]]
      BY DEF FullInv
    <3>1. window[k].members = {} /\ k[1] \in SlidingWindow
      BY DEF Init
    <3>2. max_requests[k[1]] \in Nat
      BY <3>1, WindowConstants DEF Positive
    <3> QED  BY <3>1, <3>2, FS_EmptySet
  <2>3. Init => WaitInv
    BY DEF Init, WaitInv, Refused
  <2> QED  BY <2>1, <2>2, <2>3
<1>2. Spec => [](TypeOK /\ BucketInv /\ FullInv)
  BY <1>1, BucketStep, FullStep, ChargeOrder, TypeCorrect, PTL DEF Spec
<1>3. Spec => []WaitInv
  BY <1>1, <1>2, WaitStep, PTL DEF Spec
<1>4. TypeOK /\ WaitInv => RetryAfterIsEnough
  <2> SUFFICES ASSUME TypeOK, WaitInv, NEW p \in Process, Refused(p),
                      request[p].seen = Len(charges[RefusedKey(p)])
               PROVE  Allowed(RefusedKey(p), request[p].now_ms + WaitMs(p),
                              request[p].now_ms - Offset[p] + WaitMs(p))
    BY DEF RetryAfterIsEnough, Refused, RefusedKey, WaitMs
  <2>1. Enough(p) /\ request[p] \in Request
    BY DEF WaitInv, Refused, TypeOK
  <2>2. WaitMs(p) \in Nat
    <3>1. request[p].retry_after \in Nat /\ Skew \in Nat /\ Second \in Nat
      BY <2>1, RateLimitAssumption DEF Request, Positive
    <3> QED  BY <3>1 DEF WaitMs
  <2>3. request[p].now_ms \in Nat /\ Offset[p] \in Nat /\ request[p].now_ms >= Offset[p]
    BY <2>1, RateLimitAssumption DEF Enough, Request
  <2>4. /\ ToldMs(p) \in Nat /\ request[p].now_ms - Offset[p] + WaitMs(p) \in Nat
        /\ request[p].now_ms + WaitMs(p) = ToldMs(p)
    BY <2>2, <2>3 DEF ToldMs
  <2> QED  BY <2>1, <2>4, DueAllows, YoungerAllows DEF Enough
<1> QED
  BY <1>2, <1>3, <1>4, PTL
=============================================================================
