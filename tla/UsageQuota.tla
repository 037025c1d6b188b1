----------------------------- MODULE UsageQuota -----------------------------
(***************************************************************************)
(* Usage reservations of one billing feature of one user (backend/app/     *)
(* features/billing/services/usage.py, with the parts of cycle_lifecycle   *)
(* and cycle_features it calls).  A request reserves units of the current  *)
(* usage cycle before the work, and settles the reservation after it with  *)
(* what was consumed.  Requests run side by side, may share a request key  *)
(* (the Idempotency-Key header), may die at any point, and meet period and *)
(* plan changes; the database runs each transaction under row locks.       *)
(*                                                                         *)
(* The work may also be a scrape job: create_billable_instagram_job then   *)
(* reserves and complete_job settles, with the same two transactions.      *)
(***************************************************************************)
EXTENDS Naturals, FiniteSets

CONSTANTS
  Request,    \* HTTP requests
  Key,        \* values of usage_reservation.request_key
  KeyOf,      \* the key a request computes
  UnitsOf,    \* max_units_requested of a request
  Plan,       \* billing plans
  LimitOf,    \* monthly_limit of a plan
  Unlimited,  \* plans with is_unlimited
  NoPlan,     \* no row of usage_cycle_feature yet
  Periods     \* how often the billing period changes (a bound)

ASSUME UsageAssumption ==
  /\ KeyOf \in [Request -> Key]
  /\ UnitsOf \in [Request -> Nat \ {0}]
  /\ LimitOf \in [Plan -> Nat]
  /\ Unlimited \subseteq Plan
  /\ NoPlan \notin Plan
  /\ Periods \in Nat \ {0}

Cycle == 1 .. Periods

VARIABLES
  request,      \* progress of each request, with what it has read
  reservation,  \* the usage_reservation row of each key
  plan,         \* the plan whose limit a cycle's row carries
  used,         \* used_count of a cycle's row
  reserved,     \* reserved_count of a cycle's row
  period,       \* the period the subscription is in
  offered,      \* the plan the subscription is on
  granted,      \* the plans a cycle's row has carried so far (history)
  charges       \* usage_event rows written for each key

row == <<plan, used, reserved>>
subscription == <<period, offered>>
vars == <<request, reservation, row, subscription, granted, charges>>

RequestPc == {"new", "billable", "ensured", "working", "ended"}
RequestState == [pc : RequestPc, cycle : Cycle, plan : Plan \cup {NoPlan}]
ReservationState ==
  [status : {"none", "reserved", "finalized", "released"},
   cycle : Cycle, units : Nat, consumed : Nat]
NoReservation == [status |-> "none", cycle |-> 1, units |-> 0, consumed |-> 0]

TypeOK ==
  /\ request \in [Request -> RequestState]
  /\ reservation \in [Key -> ReservationState]
  /\ plan \in [Cycle -> Plan \cup {NoPlan}]
  /\ used \in [Cycle -> Nat]
  /\ reserved \in [Cycle -> Nat]
  /\ period \in Cycle
  /\ offered \in Plan
  /\ granted \in [Cycle -> SUBSET Plan]
  /\ charges \in [Key -> Nat]

Init ==
  /\ request = [r \in Request |-> [pc |-> "new", cycle |-> 1, plan |-> NoPlan]]
  /\ reservation = [k \in Key |-> NoReservation]
  /\ plan = [c \in Cycle |-> NoPlan]
  /\ used = [c \in Cycle |-> 0]
  /\ reserved = [c \in Cycle |-> 0]
  /\ period = 1
  /\ offered \in Plan
  /\ granted = [c \in Cycle |-> {}]
  /\ charges = [k \in Key |-> 0]

-----------------------------------------------------------------------------
\* reserve_feature_usage

\* The reads of the first transaction: an existing reservation of the key is
\* returned whatever its status, so the caller goes on to work.  Otherwise
\* ensure_user_is_billable loads the subscription as it is now.
LookUp(r) ==
  /\ request[r].pc = "new"
  /\ IF reservation[KeyOf[r]].status # "none"
     THEN request' = [request EXCEPT ![r].pc = "working"]
     ELSE request' = [request EXCEPT ![r] =
            [pc |-> "billable", cycle |-> period, plan |-> offered]]
  /\ UNCHANGED <<reservation, row, subscription, granted, charges>>

\* No billable subscription: BillingAccessError.
Refuse(r) ==
  /\ request[r].pc = "new" /\ reservation[KeyOf[r]].status = "none"
  /\ request' = [request EXCEPT ![r].pc = "ended"]
  /\ UNCHANGED <<reservation, row, subscription, granted, charges>>

\* ensure_open_..._usage_cycle and ensure_cycle_feature_rows, committed: the row
\* of the period that was read gets the limit of the plan that was read.  The
\* counters of an existing row are left alone.
EnsureCycle(r) ==
  LET c == request[r].cycle IN
  /\ request[r].pc = "billable"
  /\ request' = [request EXCEPT ![r].pc = "ensured"]
  /\ plan' = [plan EXCEPT ![c] = request[r].plan]
  /\ granted' = [granted EXCEPT ![c] = @ \cup {request[r].plan}]
  /\ UNCHANGED <<reservation, used, reserved, subscription, charges>>

\* Mutant of Fits: what other requests hold is not counted.
FitsUsedOnly(c, n) ==
  plan[c] \in Unlimited \/ used[c] + n <= LimitOf[plan[c]]

\* limit_count - used_count - reserved_count >= max_units_requested
Fits(c, n) ==
  plan[c] \in Unlimited \/ used[c] + reserved[c] + n <= LimitOf[plan[c]]

\* Mutant of Reserve: request_key is not unique, a second insert takes the row over.
ReserveOver(r) ==
  LET c == request[r].cycle
      k == KeyOf[r] IN
  /\ request[r].pc = "ensured"
  /\ Fits(c, UnitsOf[r])
  /\ reserved' = [reserved EXCEPT ![c] = @ + UnitsOf[r]]
  /\ reservation' = [reservation EXCEPT ![k] =
       [status |-> "reserved", cycle |-> c, units |-> UnitsOf[r], consumed |-> 0]]
  /\ request' = [request EXCEPT ![r].pc = "working"]
  /\ UNCHANGED <<plan, used, subscription, granted, charges>>

\* The second transaction: SELECT ... FOR UPDATE of the row, the test, the insert.
Reserve(r) ==
  LET c == request[r].cycle
      k == KeyOf[r] IN
  /\ request[r].pc = "ensured"
  /\ Fits(c, UnitsOf[r])
  /\ reservation[k].status = "none"
  /\ reserved' = [reserved EXCEPT ![c] = @ + UnitsOf[r]]
  /\ reservation' = [reservation EXCEPT ![k] =
       [status |-> "reserved", cycle |-> c, units |-> UnitsOf[r], consumed |-> 0]]
  /\ request' = [request EXCEPT ![r].pc = "working"]
  /\ UNCHANGED <<plan, used, subscription, granted, charges>>

\* BillingLimitExceededError, or the unique request_key refuses the insert
\* because another request with this key came first: both roll back.
ReserveFails(r) ==
  /\ request[r].pc = "ensured"
  /\ \/ ~Fits(request[r].cycle, UnitsOf[r])
     \/ reservation[KeyOf[r]].status # "none"
  /\ request' = [request EXCEPT ![r].pc = "ended"]
  /\ UNCHANGED <<reservation, row, subscription, granted, charges>>

-----------------------------------------------------------------------------
\* finalize_usage_reservation; release_usage_reservation is the case quantity 0.

Least(m, n) == IF m <= n THEN m ELSE n
Monus(m, n) == IF m >= n THEN m - n ELSE 0      \* max(0, m - n)

\* Mutant of Settle: a settled reservation is settled once more.
SettleAgain(r, quantity) ==
  LET k == KeyOf[r]
      c == reservation[k].cycle
      consumed == Least(quantity, reservation[k].units) IN
  /\ request[r].pc = "working"
  /\ request' = [request EXCEPT ![r].pc = "ended"]
  /\ used' = [used EXCEPT ![c] = @ + consumed]
  /\ reserved' = [reserved EXCEPT ![c] = @ - reservation[k].units]
  /\ reservation' = [reservation EXCEPT
       ![k].status = IF consumed > 0 THEN "finalized" ELSE "released",
       ![k].consumed = consumed]
  /\ charges' = [charges EXCEPT ![k] = @ + 1]
  /\ UNCHANGED <<plan, subscription, granted>>

\* The reservation and the row are locked; a settled reservation is left alone.
Settle(r, quantity) ==
  LET k == KeyOf[r]
      c == reservation[k].cycle
      consumed == Least(quantity, reservation[k].units) IN
  /\ request[r].pc = "working"
  /\ request' = [request EXCEPT ![r].pc = "ended"]
  /\ IF reservation[k].status # "reserved"
     THEN UNCHANGED <<reservation, used, reserved, charges>>
     ELSE /\ used' = [used EXCEPT ![c] = @ + consumed]
          /\ reserved' = [reserved EXCEPT ![c] = Monus(@, reservation[k].units)]
          /\ reservation' = [reservation EXCEPT
               ![k].status = IF consumed > 0 THEN "finalized" ELSE "released",
               ![k].consumed = consumed]
          /\ charges' = [charges EXCEPT ![k] = @ + 1]
  /\ UNCHANGED <<plan, subscription, granted>>

-----------------------------------------------------------------------------
\* The process handling the request dies, or the database refuses its transaction
\* (two requests create the rows of a cycle at once); what was committed stays.
Crash(r) ==
  /\ request[r].pc \in {"billable", "ensured", "working"}
  /\ request' = [request EXCEPT ![r].pc = "ended"]
  /\ UNCHANGED <<reservation, row, subscription, granted, charges>>

\* Stripe moves the subscription to its next period, or to another plan.
NextPeriod ==
  /\ period < Periods
  /\ period' = period + 1
  /\ UNCHANGED <<request, reservation, row, offered, granted, charges>>

ChangePlan(p) ==
  /\ p # offered
  /\ offered' = p
  /\ UNCHANGED <<request, reservation, row, period, granted, charges>>

Next ==
  \/ \E r \in Request :
       \/ LookUp(r)
       \/ Refuse(r)
       \/ EnsureCycle(r)
       \/ Reserve(r)
       \/ ReserveFails(r)
       \/ \E quantity \in 0 .. UnitsOf[r] : Settle(r, quantity)
       \/ Crash(r)
  \/ NextPeriod
  \/ \E p \in Plan : ChangePlan(p)

Spec == Init /\ [][Next]_vars

-----------------------------------------------------------------------------
\* The sum of f over Key, as the number of pairs of a key and one of its units.
Units(f) == UNION { {k} \X (1 .. f[k]) : k \in Key }
Total(f) == Cardinality(Units(f))

\* The units that the reservation of each key holds in a cycle, or consumed in it.
HeldBy(c) ==
  [k \in Key |-> IF reservation[k].status = "reserved" /\ reservation[k].cycle = c
                 THEN reservation[k].units ELSE 0]
ConsumedBy(c) ==
  [k \in Key |-> IF reservation[k].cycle = c THEN reservation[k].consumed ELSE 0]

\* The counters of a cycle are neither leaked nor settled twice: reserved_count is
\* what its open reservations hold and used_count what its settled ones consumed,
\* through shared request keys, crashes and period changes.
CountersMatch ==
  \A c \in Cycle : reserved[c] = Total(HeldBy(c)) /\ used[c] = Total(ConsumedBy(c))

\* A cycle is never promised more than a plan it has carried allows: two requests
\* that each fit alone cannot both be let through.  (A later downgrade may leave
\* the counters above the limit the row carries then.)
NeverOversold ==
  \A c \in Cycle :
    \/ used[c] + reserved[c] = 0
    \/ \E p \in granted[c] : p \in Unlimited \/ used[c] + reserved[c] <= LimitOf[p]

\* The owner sees one usage event per reservation, written when it is settled.
ChargedOnce ==
  \A k \in Key :
    charges[k] = IF reservation[k].status \in {"finalized", "released"} THEN 1 ELSE 0

\* A settled reservation stays as it is, whoever else works under its key, and
\* what a cycle has consumed stays consumed when its limits are refreshed.
SettledForGood ==
  [][/\ \A c \in Cycle : used'[c] >= used[c]
     /\ \A k \in Key : reservation[k].status \in {"finalized", "released"}
                         => reservation'[k] = reservation[k]]_vars
=============================================================================
