---------------------------- MODULE ManagedAccess ----------------------------
(***************************************************************************)
(* Access that administrators manage (backend/app/api/routes/users.py and  *)
(* features/billing/services/access_write.py): a user is made ambassador,  *)
(* standard, superuser or none, while webhooks maintain the rows of the    *)
(* user's subscription (StripeBilling).  An ambassador-to-be with a        *)
(* running subscription keeps it to the end of its period: Stripe is asked *)
(* to cancel it then, and the override starts then.  The request to Stripe *)
(* is awaited between the reads and the commit.                            *)
(***************************************************************************)
EXTENDS StripeBilling

CONSTANTS
  Admin,       \* requests of administrators that are processed at a time
  MaxRequests, \* bound: requests of administrators
  MaxLost      \* bound: requests to Stripe that fail, with or without effect

ASSUME ManagedAssumption == {MaxRequests, MaxLost} \subseteq Nat

VARIABLES
  request,  \* the request an Admin is processing
  requests, \* requests so far
  lost,     \* requests to Stripe that failed so far
  \* history:
  crossed,  \* a row was written between the reads and the commit of a request
  doubled,  \* an override was created while another was live
  profile,  \* the profile set last
  promoted, \* the user has been a superuser
  toggled,  \* the user decided in Stripe's portal whether to cancel
  misread   \* a request for "standard" has read rows that were not in step with Stripe

requestHistory == <<crossed, doubled, profile, promoted, toggled, misread>>
requestVars == <<request, requests, lost, requestHistory>>
managedVars == <<vars, requestVars>>

Profile == {"ambassador", "standard"}
Rank == {"superuser", "ordinary"}

\* A request sets the rank (PATCH /users/{id}), the profile, or both; it remembers the
\* overrides and the row it has read, and what Stripe is asked.
RequestPc == {"idle", "rank", "profile", "ask", "commit", "promote", "respond"}
RequestState ==
  [pc : RequestPc, rank : Rank \cup {"none"}, profile : Profile \cup {"none"},
   active : Nat, pending : Nat, sub : Subscription, read : Row,
   asked : BOOLEAN, cancel : BOOLEAN, after : {"profile", "rank"}]
NoRequest ==
  [pc |-> "idle", rank |-> "none", profile |-> "none", active |-> 0, pending |-> 0,
   sub |-> CHOOSE s \in Subscription : TRUE, read |-> NoRow,
   asked |-> FALSE, cancel |-> FALSE, after |-> "profile"]

ManagedTypeOK ==
  /\ request \in [Admin -> RequestState]
  /\ requests \in 0 .. MaxRequests /\ lost \in 0 .. MaxLost
  /\ {crossed, doubled, promoted, toggled, misread} \subseteq BOOLEAN
  /\ profile \in Profile \cup {"none"}

Working(a) == request[a].pc # "idle"

ManagedInit ==
  /\ Init
  /\ request = [a \in Admin |-> NoRequest] /\ requests = 0 /\ lost = 0
  /\ crossed = FALSE /\ doubled = FALSE /\ promoted = FALSE /\ toggled = FALSE
  /\ misread = FALSE /\ profile = "none"

-----------------------------------------------------------------------------
\* Another request, or a handler, works on what it has read of the rows.
Disturbs(a) ==
  \/ \E b \in Admin \ {a} : Working(b)
  \/ \E h \in Handler : handler[h].pc \in {"commit", "override"}

\* resolve_access_profile
AccessProfile == IF Live # {} THEN "ambassador" ELSE "standard"

\* Mutant of Allowed: an override that has not started does not count.
AllowedIfPending(rank, wanted) ==
  /\ ~(rank = "superuser" /\ wanted = "ambassador")
  /\ ~(superuser /\ wanted = "ambassador")
  /\ ~(ActiveOverride # 0 /\ rank = "superuser")

\* _validate_admin_user_update_transition; update_user_access_profile tests the second.
Allowed(rank, wanted) ==
  /\ ~(rank = "superuser" /\ wanted = "ambassador")
  /\ ~(superuser /\ wanted = "ambassador")
  /\ ~(AccessProfile = "ambassador" /\ rank = "superuser")

\* update_user (which builds the billing summary to know the profile) and
\* update_user_access_profile: the transition is validated.
Validate(a, rank, wanted) ==
  /\ ~Working(a) /\ requests < MaxRequests
  /\ rank # "none" \/ wanted # "none"
  /\ Allowed(rank, wanted)
  /\ request' = [request EXCEPT ![a] = [NoRequest EXCEPT
       !.pc = IF rank = "none" THEN "profile" ELSE "rank",
       !.rank = rank, !.profile = wanted]]
  /\ requests' = requests + 1
  /\ IF rank = "none" THEN UNCHANGED <<cycle, overlapped>> ELSE Summarizes
  /\ UNCHANGED <<stripeVars, answered, record, row, latest, accessVars, notice, handler,
                 budget, skipped, overtaken, stranded, applied, lost, requestHistory>>

\* crud.update_user
WriteRank(a) ==
  /\ request[a].pc = "rank"
  /\ superuser' = (request[a].rank = "superuser")
  /\ promoted' = (promoted \/ superuser')
  /\ crossed' = (crossed \/ (superuser' # superuser /\ Disturbs(a)))
  /\ request' = [request EXCEPT
       ![a].pc = IF request[a].profile = "none" THEN "promote" ELSE "profile"]
  /\ UNCHANGED <<stripeVars, answered, record, row, latest, cycle, override, notice, handler,
                 budget, historyVars, requests, lost, doubled, profile, toggled, misread>>

\* Stripe is to end the subscription, and the row does not say so or the override that
\* replaces it has begun: webhooks are late, or were applied after what a request wrote.
OutOfStep(s) ==
  /\ stripe[s].cancel /\ stripe[s].status # "canceled"
  /\ \/ row[s].status \notin Active \/ ~row[s].cancel
     \/ \E i \in Live : override[i].start[1] = s /\ Started(override[i].start)

\* The reads of set_access_profile_async, and whether Stripe has to be asked.
ReadProfile(a) ==
  LET r == row[latest]
      asked == IF request[a].profile = "ambassador" THEN HasAccess(latest)
               ELSE PendingOverride # 0 /\ r.status \in Active /\ r.cancel IN
  /\ request[a].pc = "profile"
  /\ request' = [request EXCEPT ![a] = [@ EXCEPT
       !.pc = IF asked THEN "ask" ELSE "commit",
       !.active = ActiveOverride, !.pending = PendingOverride,
       !.sub = latest, !.read = r, !.asked = asked,
       !.cancel = (request[a].profile = "ambassador"), !.after = "profile"]]
  /\ misread' = (misread \/ (request[a].profile = "standard"
                             /\ \E s \in Subscription : OutOfStep(s)))
  /\ UNCHANGED <<vars, requests, lost, crossed, doubled, profile, promoted, toggled>>

\* Stripe's side of set_subscription_cancel_at_period_end.
SetCancel(s, cancel) ==
  IF stripe[s].cancel = cancel THEN UNCHANGED <<stripe, log>>
  ELSE Changes(s, [stripe[s] EXCEPT !.cancel = cancel], <<>>)

AskStripe(a) ==
  /\ request[a].pc = "ask"
  /\ stripe[request[a].sub].status # "canceled"
  /\ SetCancel(request[a].sub, request[a].cancel)
  /\ request' = [request EXCEPT ![a].pc = "commit"]
  /\ UNCHANGED <<ended, offered, serverVars, requests, lost, requestHistory>>

\* Stripe refuses to change a canceled subscription, or the call fails, maybe after it
\* took effect: nothing is committed any more.
StripeFails(a) ==
  /\ request[a].pc = "ask"
  /\ \/ stripe[request[a].sub].status = "canceled" /\ UNCHANGED <<stripe, log, lost>>
     \/ /\ lost < MaxLost /\ lost' = lost + 1
        /\ \/ UNCHANGED <<stripe, log>>
           \/ /\ stripe[request[a].sub].status # "canceled"
              /\ SetCancel(request[a].sub, request[a].cancel)
  /\ request' = [request EXCEPT ![a] = NoRequest]
  /\ UNCHANGED <<ended, offered, serverVars, requests, requestHistory>>

\* The flag of the row, written if it differs from what was read.
WriteCancel(me) ==
  IF me.asked THEN /\ row' = [row EXCEPT ![me.sub].cancel =
                               IF me.read.cancel # me.cancel THEN me.cancel ELSE @]
                   /\ latest' = me.sub
  ELSE UNCHANGED <<row, latest>>

\* create_access_override
Created(start) == Append(override, [start |-> start, revoked |-> FALSE])

\* upsert_pending_ambassador_override
Upserted(start) ==
  IF PendingOverride = 0 THEN Created(start)
  ELSE [override EXCEPT ![PendingOverride].start = start]

\* The rows an ambassador gets: a pending override, or one that starts at once.
Granted(me) ==
  IF me.asked THEN Upserted(<<me.sub, me.read.period>>)
  ELSE IF me.active = 0 THEN Created(Managed)
  ELSE override

\* A standard user's overrides are revoked, those that were read.
Withdrawn(me) ==
  [i \in DOMAIN override |->
     [override[i] EXCEPT !.revoked = @ \/ i \in {me.active, me.pending}]]

\* The commit of set_access_profile_async.
CommitProfile(a) ==
  LET me == request[a] IN
  /\ me.pc = "commit" /\ me.after = "profile"
  /\ WriteCancel(me)
  /\ override' = IF me.profile = "ambassador" THEN Granted(me) ELSE Withdrawn(me)
  /\ cycle' = IF me.profile = "ambassador" /\ ~me.asked THEN WithOpen(cycle, "closed")
              ELSE cycle
  /\ overlapped' = (overlapped \/ (cycle' # cycle /\ Overlaps(NoHandler)))
  /\ crossed' = (crossed \/ Disturbs(a))
  /\ doubled' = (doubled \/ (Live # {} /\ Len(override') > Len(override)))
  /\ profile' = me.profile
  /\ request' = [request EXCEPT ![a].pc = "promote"]
  /\ UNCHANGED <<stripeVars, answered, record, superuser, notice, handler, budget, skipped,
                 overtaken, stranded, applied, requests, lost, promoted, toggled, misread>>

\* sync_superuser_billing_access_async: a superuser's subscription is canceled, too.
ReadPromoted(a) ==
  LET cancels == superuser /\ HasAccess(latest) /\ ~row[latest].cancel IN
  /\ request[a].pc = "promote"
  /\ request' = [request EXCEPT ![a] = [@ EXCEPT
       !.pc = IF cancels THEN "ask" ELSE "respond",
       !.sub = latest, !.read = row[latest], !.asked = TRUE, !.cancel = TRUE,
       !.after = "rank"]]
  /\ UNCHANGED <<vars, requests, lost, requestHistory>>

CommitPromoted(a) ==
  /\ request[a].pc = "commit" /\ request[a].after = "rank"
  /\ WriteCancel(request[a])
  /\ crossed' = (crossed \/ Disturbs(a))
  /\ request' = [request EXCEPT ![a].pc = "respond"]
  /\ UNCHANGED <<stripeVars, answered, record, cycle, accessVars, notice, handler, budget,
                 historyVars, requests, lost, doubled, profile, promoted, toggled, misread>>

\* The answer carries the billing summary.
Respond(a) ==
  /\ request[a].pc = "respond"
  /\ Summarizes
  /\ request' = [request EXCEPT ![a] = NoRequest]
  /\ UNCHANGED <<stripeVars, answered, record, row, latest, accessVars, notice, handler,
                 budget, skipped, overtaken, stranded, applied, requests, lost, requestHistory>>

\* The user decides in Stripe's portal whether the subscription goes on.
PortalToggle(s) ==
  /\ stripe[s].status \in Active \cup {"past_due"}
  /\ Emit(s, [stripe[s] EXCEPT !.cancel = ~@], <<>>)
  /\ toggled' = TRUE
  /\ UNCHANGED <<ended, request, requests, lost, crossed, doubled, profile, promoted, misread>>

-----------------------------------------------------------------------------
AdminStep(a) ==
  \/ \E rank \in Rank \cup {"none"}, wanted \in Profile \cup {"none"} : Validate(a, rank, wanted)
  \/ WriteRank(a) \/ ReadProfile(a) \/ AskStripe(a) \/ StripeFails(a) \/ CommitProfile(a)
  \/ ReadPromoted(a) \/ CommitPromoted(a) \/ Respond(a)

\* A webhook, the user or Stripe does something; it may write rows a request has read.
BillingStep ==
  /\ Next
  /\ crossed' = (crossed \/ (/\ row' # row \/ override' # override
                             /\ \E a \in Admin : Working(a)))
  /\ UNCHANGED <<request, requests, lost, doubled, profile, promoted, toggled, misread>>

ManagedNext ==
  \/ BillingStep
  \/ \E a \in Admin : AdminStep(a)
  \/ \E s \in Subscription : PortalToggle(s)

ManagedSpec == ManagedInit /\ [][ManagedNext]_managedVars

-----------------------------------------------------------------------------
\* Properties

\* Nobody is superuser and ambassador, now or later, unless requests crossed: the
\* transitions are validated on reads, two requests may each be allowed.
RanksExclude == ~crossed => ~(superuser /\ Live # {})

\* After "standard" no override is left that could make the user an ambassador again,
\* unless requests crossed or several were live: only one of them is looked for.
StandardIsStandard == profile = "standard" /\ ~crossed /\ ~doubled => Live = {}

\* What administrators set holds: the ranks exclude each other, and standard is standard.
ProfileHolds == ManagedTypeOK /\ RanksExclude /\ StandardIsStandard

\* An override that has not started does so at the end of the period its subscription's
\* row is in, whose bounds may change: the sync of the row moves it along.  A handler that
\* ends between row and override leaves it behind (stranded) until the next sync.
PendingFollows ==
  /\ ~(crossed \/ overlapped \/ stranded)
  /\ \A h \in Handler : handler[h].pc # "override"
  =>
    \A i \in Live : LET start == override[i].start IN
      ~Started(start) => start[2] = row[start[1]].period

\* The user has bought one subscription at most.
OneBought ==
  \A s, t \in Subscription : stripe[s].status # "none" /\ stripe[t].status # "none" => s = t

\* Between requests Stripe is to end the subscription of an ambassador-to-be and no other,
\* however webhooks interleave with them, unless the user chose in the portal or has been a
\* superuser, a request failed after it had told Stripe, or one for "standard" read rows
\* that were out of step: it asks nothing of Stripe then.
CancelAgrees ==
  /\ \A a \in Admin : ~Working(a)
  /\ lost = 0 /\ OneBought /\ ~(crossed \/ promoted \/ toggled \/ misread)
  => \A s \in Subscription : stripe[s].status # "canceled" =>
       (stripe[s].cancel <=> \E i \in Live : override[i].start[1] = s)

\* The rows, the overrides and Stripe agree on when the subscription gives way.
HandoverAgrees == PendingFollows /\ CancelAgrees
=============================================================================
