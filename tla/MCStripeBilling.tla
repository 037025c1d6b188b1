--------------------------- MODULE MCStripeBilling ---------------------------
(* Small instances of ManagedAccess, and with it of StripeBilling, for TLC. *)
EXTENDS ManagedAccess, TLC

Cut == (MaxAborts - budget.aborts) + (MaxFetchFails - budget.fetches)
Resting == \A h \in Handler : handler[h].pc = "idle"
InOrder == \A e \in answered : 1 .. e \subseteq answered

\* The subscription is there from the start.
Given == \E s \in Subscription : stripe[s].status # "none" /\ offered[s] # "completed"

\* Administrators are alike.  A request comes when no webhook is being handled and
\* events were not cut off; those that come afterwards overlap with it.
MayAsk(a) ==
  /\ ~Working(a) /\ a = CHOOSE b \in Admin : ~Working(b)
  /\ Resting /\ InOrder /\ (requests = 0 => Cut = 0) /\ Len(log) <= 1

\* Without requests the user leaves Stripe's portal alone.
MCNext ==
  \/ BillingStep
  \/ \E a \in Admin : (Working(a) \/ MayAsk(a)) /\ AdminStep(a)
  \/ requests = 1 /\ Given /\ \E s \in Subscription : PortalToggle(s)

MCSpec == ManagedInit /\ [][MCNext]_managedVars

\* Stripe does nothing but sell a subscription and note whether to cancel it.
NoChange ==
  /\ \A s \in Subscription : stripe[s].status \in Active \cup {"none"} /\ stripe[s].period < 2
  /\ \A e \in DOMAIN log : log[e].kind = "updated"

\* Without requests of administrators: MaxEvents events, two at a time, and one fault.
\* With one request, as many if the subscription is there from the start, else one fewer;
\* with two, one fewer, of a purchase and of the flags the requests set.  With requests
\* events are handled one by one and in order, what fails is a request to Stripe or a
\* handler between row and override, and the user leaves summary and notices alone.
Bounded ==
  /\ Cut' + lost' <= 1
  /\ requests' = 0 => Len(log') <= MaxEvents
  /\ requests' > 0 =>
       /\ Len(log') <= MaxEvents /\ (Len(log') = MaxEvents => requests' = 1 /\ Given')
       /\ Cardinality({h \in Handler : handler'[h].pc # "idle"}) <= 1
       /\ InOrder' /\ (Cut' = Cut \/ \E h \in Handler : handler[h].pc = "override")
       /\ handler' # handler \/ request' # request \/ stripe' # stripe \/ ended' # ended
  /\ requests' = 2 => NoChange'
  /\ ended' # ended => log' # log \/ override # <<>>

Symmetry == Permutations(Handler)
=============================================================================
