------------------------------ MODULE RateLimit ------------------------------
(***************************************************************************)
(* Rate limiting (backend/app/features/rate_limit): the server processes   *)
(* evaluate the rules of a policy one after the other, each with one Lua   *)
(* script in Redis and with the time of their own clock.  Times are in     *)
(* milliseconds, or in whatever fraction of a Second an instance chooses.  *)
(* Every rule of the code has cost 1.                                      *)
(***************************************************************************)
EXTENDS Integers, FiniteSets, Sequences

CONSTANTS
  Process,
  Skew,        \* how far the clocks of the processes are apart
  Offset,      \* how far a process's clock is ahead of the slowest
  Client,
  Policy,
  Rule,
  RulesOf,     \* the rules of a policy, in order
  FailClosed,  \* policies with on_redis_error = "fail_closed"
  TokenBucket, SlidingWindow,  \* the rules of either algorithm
  capacity, refill_tokens, refill_period_seconds,  \* of a token bucket
  max_requests, window_seconds,                    \* of a sliding window
  Subject, NoSubject,
  SubjectOf,   \* resolve_subject: whom a rule counts for a client, if anyone
  NoRequest, NoRule,
  Second,      \* 1000
  Scale,       \* the scale of TOKEN_BUCKET_SCRIPT, 1000
  Buffer,      \* the TTL_BUFFER_SECONDS of both algorithms
  MaxTime,     \* bound of the time
  MaxRequests, \* bound of the requests
  MaxFailures  \* bound of the failing calls to Redis

Positive == Nat \ {0}

\* In every policy the period is a multiple of what is refilled in it, and the buffer of
\* the TTL is longer than the clocks are apart.
ASSUME RateLimitAssumption ==
  /\ Skew \in Nat /\ Offset \in [Process -> 0 .. Skew]
  /\ RulesOf \in [Policy -> Seq(Rule)]
  /\ Rule = TokenBucket \cup SlidingWindow /\ TokenBucket \cap SlidingWindow = {}
  /\ {capacity, refill_tokens, refill_period_seconds} \subseteq [TokenBucket -> Positive]
  /\ {max_requests, window_seconds} \subseteq [SlidingWindow -> Positive]
  /\ NoSubject \notin Subject
  /\ SubjectOf \in [Rule -> [Client -> Subject \cup {NoSubject}]]
  /\ {Second, Scale} \subseteq Positive /\ {Buffer, MaxTime, MaxRequests, MaxFailures} \subseteq Nat
  /\ Skew <= Buffer * Second
  /\ \A r \in TokenBucket : refill_period_seconds[r] % refill_tokens[r] = 0
  /\ Second % Scale = 0

VARIABLES
  time,     \* true time
  bucket,   \* the hash of a token bucket, for each rule and subject
  window,   \* the sorted set of a sliding window, as indices into charges
  charges,  \* the requests a rule let pass: when, and by which clock (history)
  request,  \* the request a process is checking, or has checked last
  arrived,  \* how many there were
  failures  \* how often Redis may still fail

vars == <<time, bucket, window, charges, request, arrived, failures>>

Bucket == [tokens_fp : Nat, refilled_at_ms : Nat, expires_at : Nat]
Window == [members : SUBSET Nat, expires_at : Nat]
Charge == [at : Nat, now_ms : Nat]
Request == [client : Client, policy : Policy, next : Positive, charged : SUBSET Rule,
            outcome : {"passing", "failed_open", "refused", "unavailable"},
            rule : Rule \cup {NoRule}, now_ms : Nat, retry_after : Nat, seen : Nat]

TypeOK ==
  /\ time \in Nat
  /\ bucket \in [TokenBucket \X Subject -> Bucket]
  /\ window \in [SlidingWindow \X Subject -> Window]
  /\ charges \in [Rule \X Subject -> Seq(Charge)]
  /\ request \in [Process -> Request \cup {NoRequest}]
  /\ {arrived, failures} \subseteq Nat
  /\ \A k \in SlidingWindow \X Subject : window[k].members \subseteq DOMAIN charges[k]

Init ==
  /\ time = 0
  /\ bucket = [k \in TokenBucket \X Subject |->
                 [tokens_fp |-> 0, refilled_at_ms |-> 0, expires_at |-> 0]]
  /\ window = [k \in SlidingWindow \X Subject |-> [members |-> {}, expires_at |-> 0]]
  /\ charges = [k \in Rule \X Subject |-> <<>>]
  /\ request = [p \in Process |-> NoRequest]
  /\ arrived = 0 /\ failures = MaxFailures

-----------------------------------------------------------------------------
Larger(a, b) == IF a > b THEN a ELSE b
Smaller(a, b) == IF a < b THEN a ELSE b
CeilDiv(a, b) == -((-a) \div b)   \* math.ceil of the quotient

CapacityFp(r) == capacity[r] * Scale
RefillFp(r) == refill_tokens[r] * Scale
PeriodMs(r) == refill_period_seconds[r] * Second
WindowMs(r) == window_seconds[r] * Second
TtlMs(r) ==
  IF r \in TokenBucket
    THEN ((capacity[r] * refill_period_seconds[r]) \div refill_tokens[r] + Buffer) * Second
    ELSE (window_seconds[r] + Buffer) * Second

\* Redis has dropped a key whose TTL is over (t is Redis's time).
Live(key, t) == key.expires_at > t

\* Mutant of Refilled: the time that was paid for in tokens counts again.
RefilledAgain(k, now, t) ==
  LET r == k[1]
      old == IF Live(bucket[k], t) THEN bucket[k]
             ELSE [bucket[k] EXCEPT !.tokens_fp = CapacityFp(r), !.refilled_at_ms = now]
      elapsed == Larger(0, now - old.refilled_at_ms)
      added == (elapsed * RefillFp(r)) \div PeriodMs(r) IN
  [old EXCEPT !.tokens_fp = Smaller(CapacityFp(r), @ + added), !.expires_at = t + TtlMs(r)]

\* TOKEN_BUCKET_SCRIPT up to the test: the bucket of key k at the caller's time now.
Refilled(k, now, t) ==
  LET r == k[1]
      old == IF Live(bucket[k], t) THEN bucket[k]
             ELSE [bucket[k] EXCEPT !.tokens_fp = CapacityFp(r), !.refilled_at_ms = now]
      elapsed == Larger(0, now - old.refilled_at_ms)
      added == (elapsed * RefillFp(r)) \div PeriodMs(r) IN
  [tokens_fp      |-> Smaller(CapacityFp(r), old.tokens_fp + added),
   refilled_at_ms |-> old.refilled_at_ms + (added * PeriodMs(r)) \div RefillFp(r),
   expires_at     |-> t + TtlMs(r)]

\* Mutant of Remaining: the window is a second short.
RemainingShort(k, now, t) ==
  IF Live(window[k], t)
    THEN {n \in window[k].members : charges[k][n].now_ms > now + Second - WindowMs(k[1])}
    ELSE {}

\* SLIDING_WINDOW_SCRIPT up to the test.
Remaining(k, now, t) ==
  IF Live(window[k], t)
    THEN {n \in window[k].members : charges[k][n].now_ms > now - WindowMs(k[1])}
    ELSE {}

\* Whether the script allows one more request.
Allowed(k, now, t) ==
  IF k[1] \in TokenBucket
    THEN Refilled(k, now, t).tokens_fp >= Scale
    ELSE Cardinality(Remaining(k, now, t)) + 1 <= max_requests[k[1]]

\* Mutant of RetryAfter: the least it may say.
RetryAfterOne(k, now, t) == 1

\* retry_after_seconds of a refusal.
RetryAfter(k, now, t) ==
  LET r == k[1]
      missing == Scale - Refilled(k, now, t).tokens_fp
      oldest == CHOOSE n \in Remaining(k, now, t) :
                  \A m \in Remaining(k, now, t) : charges[k][n].now_ms <= charges[k][m].now_ms IN
  IF r \in TokenBucket
    THEN Larger(1, CeilDiv(missing * PeriodMs(r), RefillFp(r) * Second))
    ELSE Larger(1, CeilDiv(charges[k][oldest].now_ms + WindowMs(r) - now, Second))

\* What either script writes.
WriteBucket(k, now) ==
  bucket' = [bucket EXCEPT ![k] =
    [Refilled(k, now, time) EXCEPT !.tokens_fp = IF @ >= Scale THEN @ - Scale ELSE @]]

WriteWindow(k, now) ==
  window' = [window EXCEPT ![k] =
    IF Allowed(k, now, time)
      THEN [members |-> Remaining(k, now, time) \cup {Len(charges[k]) + 1},
            expires_at |-> time + TtlMs(k[1])]
      ELSE [@ EXCEPT !.members = Remaining(k, now, time)]]

Script(k, now) ==
  /\ \/ k[1] \in TokenBucket /\ WriteBucket(k, now) /\ UNCHANGED window
     \/ k[1] \in SlidingWindow /\ WriteWindow(k, now) /\ UNCHANGED bucket
  /\ charges' = IF Allowed(k, now, time)
                  THEN [charges EXCEPT ![k] = Append(@, [at |-> time, now_ms |-> now])]
                  ELSE charges

-----------------------------------------------------------------------------
\* RateLimitService.enforce

Now(p) == time + Offset[p]
Passing(p) == request[p] # NoRequest /\ request[p].outcome = "passing"
RulesLeft(p) == request[p].next <= Len(RulesOf[request[p].policy])
Checking(p) == Passing(p) /\ RulesLeft(p)
RuleOf(p) == RulesOf[request[p].policy][request[p].next]
KeyOf(p) == <<RuleOf(p), SubjectOf[RuleOf(p)][request[p].client]>>
HasSubject(p) == KeyOf(p)[2] # NoSubject

Arrive(p) ==
  /\ ~Checking(p)
  /\ arrived < MaxRequests /\ arrived' = arrived + 1
  /\ \E c \in Client, pol \in Policy :
       request' = [request EXCEPT ![p] =
         [client |-> c, policy |-> pol, next |-> 1, charged |-> {}, outcome |-> "passing",
          rule |-> NoRule, now_ms |-> 0, retry_after |-> 0, seen |-> 0]]
  /\ UNCHANGED <<time, bucket, window, charges, failures>>

\* A rule without a subject is passed over.
SkipRule(p) ==
  /\ Checking(p) /\ ~HasSubject(p)
  /\ request' = [request EXCEPT ![p].next = @ + 1]
  /\ UNCHANGED <<time, bucket, window, charges, arrived, failures>>

\* The first rule that does not allow a request ends it (429).
Answered(q, k, now) ==
  IF Allowed(k, now, time)
    THEN [q EXCEPT !.next = @ + 1, !.charged = @ \cup {k[1]}]
    ELSE [q EXCEPT !.outcome = "refused", !.rule = k[1], !.now_ms = now,
                   !.retry_after = RetryAfter(k, now, time), !.seen = Len(charges[k])]

\* evaluate_rule
EvaluateRule(p) ==
  /\ Checking(p) /\ HasSubject(p)
  /\ Script(KeyOf(p), Now(p))
  /\ request' = [request EXCEPT ![p] = Answered(@, KeyOf(p), Now(p))]
  /\ UNCHANGED <<time, arrived, failures>>

\* Mutant of OnRedisError: every policy fails open.
OnRedisErrorPassed(policy) == "failed_open"

\* on_redis_error: 503, or the request passes without the rules that are left.
OnRedisError(policy) == IF policy \in FailClosed THEN "unavailable" ELSE "failed_open"

\* The script fails, or its answer is lost.
RedisFails(p) ==
  /\ Checking(p) /\ HasSubject(p)
  /\ failures > 0 /\ failures' = failures - 1
  /\ Script(KeyOf(p), Now(p)) \/ UNCHANGED <<bucket, window, charges>>
  /\ request' = [request EXCEPT ![p].outcome = OnRedisError(request[p].policy)]
  /\ UNCHANGED <<time, arrived>>

Tick ==
  /\ time < MaxTime
  /\ time' = time + 1
  /\ UNCHANGED <<bucket, window, charges, request, arrived, failures>>

Next ==
  \/ \E p \in Process : Arrive(p) \/ SkipRule(p) \/ EvaluateRule(p) \/ RedisFails(p)
  \/ Tick

Spec == Init /\ [][Next]_vars

-----------------------------------------------------------------------------
\* Properties

\* However the clocks of the processes differ, and whatever TTLs do: a sliding window lets
\* at most max_requests pass in any stretch of window_seconds less the skew.
WindowHolds ==
  \A k \in SlidingWindow \X Subject : \A n \in DOMAIN charges[k] :
    Cardinality({m \in 1 .. n : charges[k][m].at > charges[k][n].at - (WindowMs(k[1]) - Skew)})
      <= max_requests[k[1]]

\* A token bucket lets pass, from any request to any later one, at most its capacity and
\* what the time between them and the skew refill, up to one unit of its arithmetic.
BucketHolds ==
  \A k \in TokenBucket \X Subject : \A n \in DOMAIN charges[k] : \A m \in 1 .. n :
    (n - m + 1 - capacity[k[1]]) * PeriodMs(k[1]) * Scale
      <= RefillFp(k[1]) * (charges[k][n].at - charges[k][m].at + Skew) + PeriodMs(k[1])

\* A client that waits for Retry-After, and the skew of the clocks, is not refused again by
\* the rule unless another request was charged to it meanwhile.
RetryAfterIsEnough ==
  \A p \in Process :
    LET q == request[p]
        k == <<q.rule, SubjectOf[q.rule][q.client]>>
        wait == q.retry_after * Second + Skew IN
    q # NoRequest /\ q.outcome = "refused" /\ q.seen = Len(charges[k]) =>
      Allowed(k, q.now_ms + wait, q.now_ms - Offset[p] + wait)

\* A request that passes was charged by every rule of its policy that has a subject for
\* it; a policy that fails closed lets no other pass, even if Redis fails on the way.
PassedIsCharged ==
  \A p \in Process :
    LET q == request[p]
        rules == {RulesOf[q.policy][i] : i \in DOMAIN RulesOf[q.policy]} IN
    \/ Passing(p) /\ ~RulesLeft(p)
    \/ q # NoRequest /\ q.outcome = "failed_open" /\ q.policy \in FailClosed
    => \A r \in rules : SubjectOf[r][q.client] # NoSubject => r \in q.charged
=============================================================================
