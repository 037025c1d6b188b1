---------------------------- MODULE StripeBilling ----------------------------
(***************************************************************************)
(* Stripe webhooks and the billing rows they maintain (backend/app/        *)
(* features/billing/services: webhooks, subscriptions, cycle_lifecycle,    *)
(* notices, access_read, access_state, checkout), for one user.  Access    *)
(* may also be managed: by an override (ambassador) or for a superuser;    *)
(* ManagedAccess adds the requests that grant it.  Stripe numbers the      *)
(* events it emits and delivers each until it is answered with a 2xx, in   *)
(* any order.  A handler records the event, awaits what it fetches from    *)
(* Stripe, and works in short database transactions without row locks:     *)
(* handlers of the two server processes interleave between their reads and *)
(* their commits.                                                          *)
(***************************************************************************)
EXTENDS Integers, Sequences, FiniteSets

CONSTANTS
  Subscription,  \* Stripe subscriptions of the user
  Handler,       \* webhook requests the server processes at a time
  NoHandler,     \* in place of the handler of a transaction without one
  NoSubscription, \* in place of the subscription of a managed cycle
  OneByOne,      \* TRUE: nothing happens at Stripe while an event is unanswered
  MaxEvents,     \* bounds: events emitted,
  MaxPeriod,     \*   billing periods,
  MaxAborts,     \*   handlers that die or meet a database error,
  MaxFetchFails  \*   failing requests to Stripe

ASSUME StripeAssumption ==
  /\ Subscription # {} /\ NoSubscription \notin Subscription
  /\ NoHandler \notin Handler
  /\ OneByOne \in BOOLEAN
  /\ {MaxEvents, MaxAborts, MaxFetchFails} \subseteq Nat /\ MaxPeriod \in Nat \ {0}

Period == 1 .. MaxPeriod
EventNo == 1 .. MaxEvents
Key == Subscription \X Period

\* The managed cycle of the month; as the start of an override: at once.
Managed == <<NoSubscription, 0>>
CycleKey == Key \cup {Managed}

Active == {"trialing", "active"}
Status == Active \cup {"past_due", "paused", "canceled"}

VARIABLES
  stripe,   \* Stripe's version of each subscription, "none" before it is bought
  log,      \* the events Stripe has emitted
  ended,    \* the billing periods whose end has passed
  offered,  \* the checkout session for each subscription; what an open one starts with
  answered, \* events answered with a 2xx
  record,   \* processing_status of billing_webhook_event
  row,      \* billing_subscription
  latest,   \* the subscription whose row was written last (updated_at); any before the first
  cycle,    \* status of usage_cycle
  override, \* user_access_override rows, in the order of their creation
  superuser, \* user.is_superuser
  notice,   \* billing_notice rows: access_revoked, subscription_paused
  handler,
  budget,
  \* history, for the properties:
  skipped,    \* events with an attempt cut short, or answered while one was unfinished
  overlapped, \* a handler committed between another one's read and commit
  overtaken,  \* data older than the row's were written over it
  stranded,   \* a handler ended between a row and the override that waits for its end
  applied     \* which state of the subscription its row was last synced to (asOf)

stripeVars == <<stripe, log, ended, offered>>
accessVars == <<override, superuser>>
rowVars == <<row, latest, cycle, accessVars>>
historyVars == <<skipped, overlapped, overtaken, stranded, applied>>
vars == <<stripeVars, answered, record, rowVars, notice, handler, budget, historyVars>>

\* What a payload says of a subscription; "asOf" is the number of the event that
\* brought it into this state, "cancel" is cancel_at_period_end.  A period is a
\* pair of bounds; its invoice is named by it, too.
Payload == [status : Status \cup {"none"}, period : 0 .. MaxPeriod,
            cancel : BOOLEAN, asOf : 0 .. MaxEvents]

\* Kinds of event: "updated" stands for customer.subscription.*, which carry the
\* subscription, "invoice" for those that name it and have it fetched
\* (checkout.session.completed, invoice.paid, invoice.payment_failed).
Event == [kind : {"updated", "invoice", "refund"}, sub : Subscription,
          data : Payload, invoice : 0 .. MaxPeriod, paid : {"none", "paid", "open"}]

Row == [status : Status \cup {"none"}, period : 0 .. MaxPeriod, cancel : BOOLEAN,
        invoice : 0 .. MaxPeriod, invoiceStatus : {"none", "paid", "open", "refunded"},
        revoked : BOOLEAN]
NoRow == [status |-> "none", period |-> 0, cancel |-> FALSE, invoice |-> 0,
          invoiceStatus |-> "none", revoked |-> FALSE]
CycleStatus == {"none", "open", "closed", "revoked"}
Override == [start : CycleKey, revoked : BOOLEAN]
Notice == [revoked : BOOLEAN, paused : {"none", "unread", "dismissed"}]

HandlerPc == {"idle", "register", "fetch", "load", "commit", "override", "note",
              "finish"}
HandlerState == [pc : HandlerPc, event : 0 .. MaxEvents, seen : {"none", "failed"},
                 data : Payload, row : Row, cycle : [CycleKey -> CycleStatus]]
NoPayload == [status |-> "none", period |-> 0, cancel |-> FALSE, asOf |-> 0]
NoCycles == [k \in CycleKey |-> "none"]
Idle == [pc |-> "idle", event |-> 0, seen |-> "none", data |-> NoPayload,
         row |-> NoRow, cycle |-> NoCycles]

TypeOK ==
  /\ stripe \in [Subscription -> Payload]
  /\ log \in Seq(Event) /\ Len(log) <= MaxEvents
  /\ answered \subseteq 1 .. Len(log)
  /\ record \in [EventNo -> {"none", "pending", "processed", "failed"}]
  /\ row \in [Subscription -> Row]
  /\ latest \in Subscription
  /\ ended \subseteq Key
  /\ offered \in [Subscription -> {"none", "completed"} \cup Active]
  /\ cycle \in [CycleKey -> CycleStatus]
  /\ override \in Seq(Override) /\ superuser \in BOOLEAN
  /\ notice \in [Key -> Notice]
  /\ handler \in [Handler -> HandlerState]
  /\ \A h \in Handler : handler[h].event \in 0 .. Len(log)
                        /\ (handler[h].event = 0 <=> handler[h].pc = "idle")
  /\ budget \in [aborts : 0 .. MaxAborts, fetches : 0 .. MaxFetchFails]
  /\ skipped \subseteq 1 .. Len(log)
  /\ overlapped \in BOOLEAN /\ overtaken \in BOOLEAN /\ stranded \in BOOLEAN
  /\ applied \in [Subscription -> 0 .. MaxEvents]

-----------------------------------------------------------------------------
\* Stripe

Updated(s, data) == [kind |-> "updated", sub |-> s, data |-> data, invoice |-> 0,
                     paid |-> "none"]
InvoiceEvent(s, p, paid) == [kind |-> "invoice", sub |-> s, data |-> NoPayload,
                             invoice |-> p, paid |-> paid]
RefundEvent(s, p) == [kind |-> "refund", sub |-> s, data |-> NoPayload,
                      invoice |-> p, paid |-> "none"]

\* A subscription in its first period, with its invoice paid, and all rows in step.
First == [status |-> "active", period |-> 1, cancel |-> FALSE, asOf |-> 0]
FirstRow == [status |-> "active", period |-> 1, cancel |-> FALSE, invoice |-> 1,
             invoiceStatus |-> "paid", revoked |-> FALSE]

\* The user has no subscription, or a new one.
Init ==
  /\ latest = CHOOSE s \in Subscription : TRUE
  /\ \/ /\ stripe = [s \in Subscription |-> NoPayload]
        /\ row = [s \in Subscription |-> NoRow]
        /\ cycle = NoCycles
     \/ /\ stripe = [s \in Subscription |-> IF s = latest THEN First ELSE NoPayload]
        /\ row = [s \in Subscription |-> IF s = latest THEN FirstRow ELSE NoRow]
        /\ cycle = [NoCycles EXCEPT ![<<latest, 1>>] = "open"]
  /\ log = <<>>
  /\ ended = {}
  /\ offered = [s \in Subscription |-> "none"]
  /\ answered = {}
  /\ record = [e \in EventNo |-> "none"]
  /\ override = <<>> /\ superuser = FALSE
  /\ notice = [k \in Key |-> [revoked |-> FALSE, paused |-> "none"]]
  /\ handler = [h \in Handler |-> Idle]
  /\ budget = [aborts |-> MaxAborts, fetches |-> MaxFetchFails]
  /\ skipped = {} /\ overlapped = FALSE /\ overtaken = FALSE /\ stranded = FALSE
  /\ applied = [s \in Subscription |-> 0]

serverVars == <<answered, record, rowVars, notice, handler, budget, historyVars>>

Settled == OneByOne => answered = 1 .. Len(log)

\* The subscription changes; customer.subscription.* carries the new version, and
\* an invoice event may follow.
Changes(s, new, more) ==
  LET data == [new EXCEPT !.asOf = Len(log) + 1] IN
  /\ stripe' = [stripe EXCEPT ![s] = data]
  /\ log' = log \o <<Updated(s, data)>> \o more
  /\ Len(log') <= MaxEvents

Emit(s, new, more) == Settled /\ Changes(s, new, more) /\ UNCHANGED <<offered, serverVars>>

CurrentEnds(s) == ended' = ended \cup {<<s, stripe[s].period>>}

Renew(s) ==
  /\ stripe[s].status \in Active \cup {"past_due"} /\ stripe[s].period < MaxPeriod
  /\ ~stripe[s].cancel
  /\ LET p == stripe[s].period + 1
         In(status) == [stripe[s] EXCEPT !.status = status, !.period = p] IN
       \/ Emit(s, In("active"), <<InvoiceEvent(s, p, "paid")>>)
       \/ Emit(s, In("past_due"), <<InvoiceEvent(s, p, "open")>>)
  /\ CurrentEnds(s)

\* The current period gets other bounds: a trial is extended, the anchor is reset.
Reschedule(s) ==
  /\ stripe[s].status \in Active /\ stripe[s].period < MaxPeriod
  /\ Emit(s, [stripe[s] EXCEPT !.period = @ + 1], <<>>)
  /\ UNCHANGED ended

\* The trial ends without a payment method ...
Pause(s) ==
  /\ stripe[s].status = "trialing" /\ ~stripe[s].cancel
  /\ Emit(s, [stripe[s] EXCEPT !.status = "paused"], <<>>)
  /\ CurrentEnds(s)

\* ... and a new period begins when one is given.
Resume(s) ==
  /\ stripe[s].status = "paused" /\ stripe[s].period < MaxPeriod
  /\ Emit(s, [stripe[s] EXCEPT !.status = "active", !.period = @ + 1], <<>>)
  /\ UNCHANGED ended

\* At once, or at the end of the period if that was asked for.
Cancel(s) ==
  /\ stripe[s].status \notin {"none", "canceled"}
  /\ Emit(s, [stripe[s] EXCEPT !.status = "canceled"], <<>>)
  /\ IF stripe[s].cancel THEN CurrentEnds(s) ELSE UNCHANGED ended

\* Time passes: the end of a period that was given up, or of a canceled subscription.
PeriodEnds(k) ==
  LET current == stripe[k[1]] IN
  /\ k \notin ended
  /\ k[2] < current.period \/ (k[2] = current.period /\ current.status = "canceled")
  /\ ended' = ended \cup {k}
  /\ UNCHANGED <<stripe, log, offered, serverVars>>

\* A full refund of an invoice; the subscription goes on.  refund.updated and
\* charge.refunded tell the same.
Refund(s) ==
  /\ Settled
  /\ \E p \in 1 .. stripe[s].period, n \in 1 .. 2 :
       log' = log \o [i \in 1 .. n |-> RefundEvent(s, p)]
  /\ Len(log') <= MaxEvents
  /\ UNCHANGED <<stripe, ended, offered, serverVars>>

\* A customer completes a checkout session, however long ago it was granted.
\* checkout.session.completed may follow the subscription's event.
Buy(s) ==
  /\ offered[s] \in Active
  /\ \E more \in {<<>>, <<InvoiceEvent(s, 0, "none")>>} :
       /\ Settled
       /\ Changes(s, [NoPayload EXCEPT !.status = offered[s], !.period = 1], more)
  /\ offered' = [offered EXCEPT ![s] = "completed"]
  /\ UNCHANGED <<ended, serverVars>>

-----------------------------------------------------------------------------
\* The overrides of a user

\* starts_at <= now
Started(start) == start \in ended \cup {Managed}

Live == {i \in DOMAIN override : ~override[i].revoked}

\* get_active_access_override: the youngest that has started; 0 without one.
ActiveOverride ==
  LET found == {i \in Live : Started(override[i].start)} IN
  IF found = {} THEN 0 ELSE CHOOSE i \in found : \A j \in found : j <= i

\* get_pending_access_override: the next to start, of those the youngest.
PendingOverride ==
  LET found == {i \in Live : ~Started(override[i].start)} IN
  IF found = {} THEN 0
  ELSE CHOOSE i \in found : \A j \in found :
         \/ override[i].start[2] < override[j].start[2]
         \/ override[i].start[2] = override[j].start[2] /\ j <= i

\* get_managed_access_source is not None.
IsManaged == superuser \/ ActiveOverride # 0

\* Mutant of PendingMoved: a pending override keeps its start.
PendingKept(s, p) == override

\* sync_pending_ambassador_override_for_subscription: a pending override starts when
\* the period of the subscription ends, if it has one.
PendingMoved(s, p) ==
  IF p = 0 \/ PendingOverride = 0 THEN override
  ELSE [override EXCEPT ![PendingOverride].start = <<s, p>>]

-----------------------------------------------------------------------------
\* process_stripe_webhook

Recorded(h) == log[handler[h].event]

\* Another handler works on rows it has read.
Overlaps(h) == \E g \in Handler \ {h} : handler[g].pc \in {"commit", "override", "note"}

\* Nothing is left to do for an event that was recorded and did not fail.
Done(e) == record[e] \in {"pending", "processed"}

\* The record's status is read; an event that is done is answered at once.
Deliver(h, e) ==
  /\ handler[h].pc = "idle" /\ e \in 1 .. Len(log) /\ e \notin answered
  /\ OneByOne => 1 .. (e - 1) \subseteq answered
  /\ IF Done(e)
       THEN /\ answered' = answered \cup {e}
            /\ skipped' = IF record[e] = "pending" THEN skipped \cup {e} ELSE skipped
            /\ UNCHANGED handler
       ELSE /\ handler' = [handler EXCEPT ![h] = [Idle EXCEPT !.pc = "register",
                                                    !.event = e, !.seen = record[e]]]
            /\ UNCHANGED <<answered, skipped>>
  /\ UNCHANGED <<stripeVars, record, rowVars, notice, budget, overlapped, overtaken, stranded,
                 applied>>

\* ... otherwise it becomes pending.  A second insert of the record violates its
\* unique key: the request fails and leaves no trace.
Register(h) ==
  LET me == handler[h] IN
  /\ me.pc = "register"
  /\ IF me.seen = "none" /\ record[me.event] # "none"
       THEN handler' = [handler EXCEPT ![h] = Idle] /\ UNCHANGED record
       ELSE /\ record' = [record EXCEPT ![me.event] = "pending"]
            /\ handler' = [handler EXCEPT
                 ![h].pc = IF Recorded(h).kind = "updated" THEN "load" ELSE "fetch",
                 ![h].seen = "none",
                 ![h].data = Recorded(h).data]
  /\ UNCHANGED <<stripeVars, answered, rowVars, notice, budget, historyVars>>

\* fetch_stripe_subscription, or fetch_stripe_charge for a refund.
Fetch(h) ==
  /\ handler[h].pc = "fetch"
  /\ handler' = [handler EXCEPT
       ![h].pc = "load",
       ![h].data = IF Recorded(h).kind = "invoice" THEN stripe[Recorded(h).sub] ELSE @]
  /\ UNCHANGED <<stripeVars, answered, record, rowVars, notice, budget, historyVars>>

\* The except branch: the record becomes failed and the answer is an error.
FetchFails(h) ==
  /\ handler[h].pc = "fetch" /\ budget.fetches > 0
  /\ budget' = [budget EXCEPT !.fetches = @ - 1]
  /\ record' = [record EXCEPT ![handler[h].event] = "failed"]
  /\ handler' = [handler EXCEPT ![h] = Idle]
  /\ UNCHANGED <<stripeVars, answered, rowVars, notice, historyVars>>

-----------------------------------------------------------------------------
\* The database work of a handler: what it reads (Load), what it commits.

Sticky(r) == r.revoked /\ r.invoiceStatus = "refunded"

RefundApplied(r, invoice) == Sticky(r) /\ r.invoice = invoice

\* A refund event without a row for its invoice, or applied before, needs no work.
Load(h) ==
  LET me == handler[h]
      s == Recorded(h).sub
      p == Recorded(h).invoice
      nothing == /\ Recorded(h).kind = "refund"
                 /\ row[s].invoice # p \/ RefundApplied(row[s], p) IN
  /\ me.pc = "load"
  /\ handler' = [handler EXCEPT ![h] =
       IF nothing THEN [me EXCEPT !.pc = "finish"]
       ELSE [me EXCEPT !.pc = "commit", !.row = row[s], !.cycle = cycle]]
  /\ UNCHANGED <<stripeVars, answered, record, rowVars, notice, budget, historyVars>>

\* Mutant of StaysRevoked: an active subscription always gets its access back.
StaysRevokedInactive(r, data) == r.revoked /\ data.status \notin Active

\* access_revoked_at is cleared for an active subscription, unless a refund is sticky.
StaysRevoked(r, data) == r.revoked /\ (data.status \notin Active \/ Sticky(r))

\* Mutant of Synced: after a refund the row is left alone.
SyncedUnlessSticky(r, data, event) ==
  IF Sticky(r) THEN r
  ELSE [status |-> data.status, period |-> data.period, cancel |-> data.cancel,
        invoice |-> IF event.invoice # 0 THEN event.invoice ELSE data.period,
        invoiceStatus |-> IF event.paid = "none" THEN r.invoiceStatus ELSE event.paid,
        revoked |-> StaysRevoked(r, data)]

\* The row sync_subscription_from_stripe_data computes from the row it has read.
Synced(r, data, event) ==
  LET p == IF event.invoice # 0 THEN event.invoice ELSE data.period IN
  [status |-> data.status, period |-> data.period, cancel |-> data.cancel,
   invoice |-> IF Sticky(r) THEN r.invoice ELSE p,
   invoiceStatus |-> IF Sticky(r) \/ event.paid = "none" THEN r.invoiceStatus ELSE event.paid,
   revoked |-> StaysRevoked(r, data)]

Refunded(r) == [r EXCEPT !.revoked = TRUE, !.invoiceStatus = "refunded"]

\* The ORM updates the columns that differ from what was read.
Merged(current, read, new) ==
  [f \in DOMAIN current |-> IF new[f] # read[f] THEN new[f] ELSE current[f]]

\* Mutant of WithOpen: the open cycles are left open.
WithOpenKept(read, status) == cycle

\* close_open_usage_cycles, and the refund's revocation, over the cycles as read.
WithOpen(read, status) == [k \in CycleKey |-> IF read[k] = "open" THEN status ELSE cycle[k]]

\* ensure_open_usage_cycle_for_subscription: the cycle of the period is opened again
\* if there is one; otherwise all others are closed and it is inserted.
Opened(read, k) == IF read[k] = "none" THEN [WithOpen(read, "closed") EXCEPT ![k] = "open"]
                   ELSE IF read[k] # "open" THEN [cycle EXCEPT ![k] = "open"]
                   ELSE cycle

WriteRow(h, s, new) ==
  /\ row' = [row EXCEPT ![s] = Merged(@, handler[h].row, new)]
  /\ latest' = s

\* Two inserts of one subscription: the database error leaves the session unusable,
\* the except branch cannot store "failed", and the record stays pending.
InsertCollides(h) == handler[h].row = NoRow /\ row[Recorded(h).sub] # NoRow

\* Two inserts of one cycle: the rollback takes the changes of the row with it.
CycleCollides(h, k) == handler[h].cycle[k] = "none" /\ cycle[k] # "none"

\* The row and its cycle.  With access they are committed while the cycle is ensured,
\* and the override has a transaction of its own; without, all are committed at once.
SyncCommit(h) ==
  LET me == handler[h]
      s == Recorded(h).sub
      new == Synced(me.row, me.data, Recorded(h))
      k == <<s, me.data.period>>
      allowed == new.status \in Active /\ ~new.revoked IN
  /\ me.pc = "commit" /\ Recorded(h).kind # "refund"
  /\ IF InsertCollides(h)
       THEN /\ handler' = [handler EXCEPT ![h] = Idle]
            /\ UNCHANGED <<rowVars, overtaken, stranded, applied>>
       ELSE /\ handler' = [handler EXCEPT ![h].pc = IF allowed THEN "override" ELSE "note",
                                          ![h].row = NoRow, ![h].cycle = NoCycles]
            /\ IF allowed /\ CycleCollides(h, k)
                 THEN UNCHANGED <<rowVars, overtaken, stranded, applied>>
                 ELSE /\ WriteRow(h, s, new)
                      /\ cycle' = IF allowed THEN Opened(me.cycle, k)
                                  ELSE WithOpen(me.cycle, "closed")
                      /\ override' = IF allowed THEN override ELSE PendingMoved(s, new.period)
                      /\ stranded' = (stranded /\ allowed)
                      /\ UNCHANGED superuser
                      /\ overtaken' = (overtaken \/ me.data.asOf < applied[s])
                      /\ applied' = [applied EXCEPT ![s] = me.data.asOf]
  /\ overlapped' = (overlapped \/ Overlaps(h))
  /\ UNCHANGED <<stripeVars, answered, record, notice, budget, skipped>>

\* The override of a subscription that gives access, by the row as it was committed.
MoveOverride(h) ==
  LET s == Recorded(h).sub IN
  /\ handler[h].pc = "override"
  /\ override' = PendingMoved(s, row[s].period)
  /\ stranded' = FALSE
  /\ handler' = [handler EXCEPT ![h].pc = "note"]
  /\ UNCHANGED <<stripeVars, answered, record, row, latest, cycle, superuser, notice, budget,
                 skipped, overlapped, overtaken, applied>>

\* Mutant of RefundCommit: the notice is forgotten.
RefundCommitUnnoticed(h) ==
  /\ handler[h].pc = "commit" /\ Recorded(h).kind = "refund"
  /\ handler' = [handler EXCEPT ![h].pc = "finish", ![h].row = NoRow, ![h].cycle = NoCycles]
  /\ WriteRow(h, Recorded(h).sub, Refunded(handler[h].row))
  /\ cycle' = WithOpen(handler[h].cycle, "revoked")
  /\ overlapped' = (overlapped \/ Overlaps(h))
  /\ UNCHANGED <<stripeVars, answered, record, accessVars, notice, budget, skipped, overtaken,
                 stranded, applied>>

\* _process_refund_event: the row and the open cycles of the user, in one transaction.
RefundCommit(h) ==
  /\ handler[h].pc = "commit" /\ Recorded(h).kind = "refund"
  /\ handler' = [handler EXCEPT ![h].pc = "note", ![h].row = NoRow, ![h].cycle = NoCycles]
  /\ WriteRow(h, Recorded(h).sub, Refunded(handler[h].row))
  /\ cycle' = WithOpen(handler[h].cycle, "revoked")
  /\ overlapped' = (overlapped \/ Overlaps(h))
  /\ UNCHANGED <<stripeVars, answered, record, accessVars, notice, budget, skipped, overtaken,
                 stranded, applied>>

\* dismiss_billing_notices for the paused notices of a subscription.
Dismissed(s) ==
  [k \in Key |-> IF k[1] = s /\ notice[k].paused = "unread"
                   THEN [notice[k] EXCEPT !.paused = "dismissed"] ELSE notice[k]]

\* upsert_billing_notice: a dismissed notice stays dismissed.
Paused(s, p) ==
  [notice EXCEPT ![<<s, p>>].paused = IF @ = "none" THEN "unread" ELSE @]

\* The notices, in transactions of their own.
Note(h) ==
  LET s == Recorded(h).sub
      p == handler[h].data.period IN
  /\ handler[h].pc = "note"
  /\ notice' =
       IF Recorded(h).kind = "refund"
         THEN [notice EXCEPT ![<<s, Recorded(h).invoice>>].revoked = TRUE]
       ELSE IF handler[h].data.status = "paused" THEN Paused(s, p) ELSE Dismissed(s)
  /\ handler' = [handler EXCEPT ![h].pc = "finish"]
  /\ UNCHANGED <<stripeVars, answered, record, rowVars, budget, historyVars>>

Finish(h) ==
  /\ handler[h].pc = "finish"
  /\ record' = [record EXCEPT ![handler[h].event] = "processed"]
  /\ answered' = answered \cup {handler[h].event}
  /\ handler' = [handler EXCEPT ![h] = Idle]
  /\ UNCHANGED <<stripeVars, rowVars, notice, budget, historyVars>>

\* The process dies, or the database fails a transaction: either way the record
\* stays as it is and Stripe gets no 2xx.
Abort(h) ==
  /\ handler[h].pc \notin {"idle", "register"} /\ budget.aborts > 0
  /\ budget' = [budget EXCEPT !.aborts = @ - 1]
  /\ handler' = [handler EXCEPT ![h] = Idle]
  /\ skipped' = skipped \cup {handler[h].event}
  /\ stranded' = (stranded \/ handler[h].pc = "override")
  /\ UNCHANGED <<stripeVars, answered, record, rowVars, notice, overlapped, overtaken, applied>>

-----------------------------------------------------------------------------
\* The user's requests

HasAccess(s) == row[s].status \in Active /\ ~row[s].revoked

\* get_access_snapshot opens the cycle that a request of the user would be charged to.
SummaryCycles ==
  IF IsManaged THEN [cycle EXCEPT ![Managed] = "open"]
  ELSE IF HasAccess(latest) THEN Opened(cycle, <<latest, row[latest].period>>)
  ELSE cycle

Summarizes ==
  /\ cycle' = SummaryCycles
  /\ overlapped' = (overlapped \/ (cycle' # cycle /\ Overlaps(NoHandler)))

\* GET /billing/me
ReadSummary ==
  /\ Summarizes /\ cycle' # cycle
  /\ UNCHANGED <<stripeVars, answered, record, row, latest, accessVars, notice, handler,
                 budget, skipped, overtaken, stranded, applied>>

\* POST /billing/checkout-session: for users who are not managed, will not be, and have
\* no subscription that gives access.  The first session includes the trial.
OpenCheckout(s) ==
  /\ stripe[s].status = "none" /\ offered[s] = "none"
  /\ ~IsManaged /\ PendingOverride = 0 /\ ~HasAccess(latest)
  /\ offered' = [offered EXCEPT ![s] =
       IF \A t \in Subscription : row[t] = NoRow THEN "trialing" ELSE "active"]
  /\ UNCHANGED <<stripe, log, ended, serverVars>>

\* POST /billing/notices/{id}/dismiss
DismissNotice(k) ==
  /\ notice[k].paused = "unread"
  /\ notice' = [notice EXCEPT ![k].paused = "dismissed"]
  /\ UNCHANGED <<stripeVars, answered, record, rowVars, handler, budget, historyVars>>

-----------------------------------------------------------------------------
StripeStep ==
  \/ \E s \in Subscription : \/ Renew(s) \/ Reschedule(s) \/ Pause(s) \/ Resume(s)
                             \/ Cancel(s) \/ Refund(s) \/ Buy(s)
  \/ \E k \in Key : PeriodEnds(k)

HandlerStep(h) ==
  \/ Register(h) \/ Fetch(h) \/ Load(h) \/ SyncCommit(h) \/ MoveOverride(h)
  \/ RefundCommit(h) \/ Note(h) \/ Finish(h)

Next ==
  \/ StripeStep
  \/ \E h \in Handler : \/ \E e \in EventNo : Deliver(h, e)
                        \/ HandlerStep(h) \/ FetchFails(h) \/ Abort(h)
  \/ ReadSummary
  \/ \E s \in Subscription : OpenCheckout(s)
  \/ \E k \in Key : DismissNotice(k)

Spec == Init /\ [][Next]_vars

-----------------------------------------------------------------------------
\* Properties

AllIdle == \A h \in Handler : handler[h].pc = "idle"
Quiescent == AllIdle /\ answered = 1 .. Len(log)

\* Access revoked by a refund is not given back by the events that follow (the sticky
\* refund of subscriptions.py), as long as no two handlers overlap.
RefundSticks ==
  [][\A s \in Subscription : row[s].revoked => row'[s].revoked \/ overlapped]_vars

\* A subscription cycle is open only while its subscription gives access: syncs close
\* and refunds revoke it with the change of the row.
OpenCycleHasAccess ==
  overlapped \/ \A k \in Key : cycle[k] = "open" => HasAccess(k[1])

\* The types, and the access that goes with open cycles.
AccessInv == TypeOK /\ OpenCycleHasAccess

\* When every event is answered, the row has Stripe's status and period, unless an
\* unfinished attempt hid an event, handlers overlapped or old data came last.
RowFollowsStripe ==
  Quiescent /\ skipped = {} /\ ~overlapped /\ ~overtaken
    => \A s \in Subscription : /\ row[s].status = stripe[s].status
                               /\ row[s].period = stripe[s].period

\* Whoever lost access to a refund is told so in the end, unless a handler ended between
\* the revocation and the notice: the next attempt finds the refund applied.
RevokedIsNoticed ==
  Quiescent /\ budget.aborts = MaxAborts
    => \A s \in Subscription : row[s].revoked => \E p \in Period : notice[<<s, p>>].revoked

\* ... and the paused notice is only up while the subscription is paused.
PausedNoticeIsTrue ==
  Quiescent /\ skipped = {} /\ ~overlapped
    => \A k \in Key : notice[k].paused = "unread" => row[k[1]].status = "paused"

\* What the user is told of the subscription agrees with its state: a revocation is
\* announced, a pause only while it lasts.
NoticesAreTrue == RevokedIsNoticed /\ PausedNoticeIsTrue
=============================================================================
