------------------------- MODULE ManagedAccessProofs -------------------------
(***************************************************************************)
(* Proofs about ManagedAccess, and with it about StripeBilling: webhook    *)
(* handlers that interleave, requests of administrators and what Stripe    *)
(* does, for every number of each.  The shape of the state comes first;    *)
(* on it rest that cycles follow access and refunds stick, that profiles   *)
(* and ranks hold, that notices are true, that the row follows Stripe, and *)
(* last, on what waits to start and what Stripe has been told, that the    *)
(* rows, the overrides and Stripe agree on when a subscription ends.       *)
(***************************************************************************)
EXTENDS ManagedAccess, SequenceTheorems, WellFoundedInduction, TLAPS

-----------------------------------------------------------------------------
\* Types of what does not change

LEMMA ConstantTypes ==
  /\ NoPayload \in Payload /\ NoPayload.status = "none"
  /\ NoRow \in Row /\ NoRow.status = "none" /\ NoRow.period = 0 /\ NoRow.invoice = 0
  /\ NoCycles \in [CycleKey -> CycleStatus]
  /\ Idle \in HandlerState /\ Idle.pc = "idle" /\ Idle.event = 0 /\ Idle.row = NoRow
  /\ First \in Payload /\ FirstRow \in Row /\ 1 \in Period
  /\ FirstRow.status = "active" /\ FirstRow.period = 1 /\ FirstRow # NoRow
  /\ Key \subseteq CycleKey /\ Managed \in CycleKey /\ Managed \notin Key
<1> USE StripeAssumption
<1>1. MaxPeriod \in Nat /\ MaxPeriod >= 1 /\ MaxEvents \in Nat
  OBVIOUS
<1>2. NoPayload \in Payload /\ NoPayload.status = "none"
  BY <1>1 DEF NoPayload, Payload
<1>3. NoRow \in Row /\ NoRow.status = "none" /\ NoRow.period = 0 /\ NoRow.invoice = 0
  BY <1>1 DEF NoRow, Row
<1>4. NoCycles \in [CycleKey -> CycleStatus]
  BY DEF NoCycles, CycleStatus
<1>5. Idle \in HandlerState /\ Idle.pc = "idle" /\ Idle.event = 0 /\ Idle.row = NoRow
  BY <1>1, <1>2, <1>3, <1>4 DEF Idle, HandlerState, HandlerPc
<1>6. First \in Payload /\ 1 \in Period
  BY <1>1 DEF First, Payload, Status, Active, Period
<1>7. FirstRow \in Row
  BY <1>1 DEF FirstRow, Row, Status, Active
<1>8. FirstRow.status = "active" /\ FirstRow.period = 1 /\ FirstRow # NoRow
  BY DEF FirstRow, NoRow
<1>9. Key \subseteq CycleKey /\ Managed \in CycleKey /\ Managed \notin Key
  BY DEF CycleKey, Key, Managed
<1> QED  BY <1>2, <1>3, <1>4, <1>5, <1>6, <1>7, <1>8, <1>9

LEMMA NoRequestType ==
  NoRequest \in RequestState /\ NoRequest.pc = "idle"
<1>1. (CHOOSE s \in Subscription : TRUE) \in Subscription
  BY StripeAssumption
<1> QED
  BY <1>1, ConstantTypes DEF NoRequest, RequestState, RequestPc, Rank, Profile

\* Events appended to others.
LEMMA Appended ==
  ASSUME NEW S, NEW l \in Seq(S), NEW m \in Seq(S)
  PROVE  /\ l \o m \in Seq(S) /\ Len(l \o m) = Len(l) + Len(m)
         /\ Len(l) \in Nat /\ Len(m) \in Nat
         /\ \A e \in 1 .. Len(l) : (l \o m)[e] = l[e]
         /\ \A e \in Len(l) + 1 .. Len(l) + Len(m) : (l \o m)[e] = m[e - Len(l)]
<1>1. Len(l) \in Nat /\ Len(m) \in Nat
  BY LenProperties
<1> QED
  BY <1>1, ConcatProperties

-----------------------------------------------------------------------------
\* Stripe

Bought(s) == stripe[s].status # "none"
Known(data) == data.status # "none" /\ data.period \in Period

StripeShape ==
  \A s \in Subscription : IF Bought(s) THEN stripe[s].period \in Period
                          ELSE stripe[s] = NoPayload

\* Events are about subscriptions that were bought, and say what state they are in.
EventShape ==
  \A e \in 1 .. Len(log) :
    /\ Bought(log[e].sub)
    /\ log[e].kind = "updated" => Known(log[e].data)
    /\ log[e].kind = "refund" => log[e].invoice \in Period

StripeType ==
  /\ stripe \in [Subscription -> Payload]
  /\ log \in Seq(Event) /\ Len(log) <= MaxEvents
  /\ ended \subseteq Key
  /\ offered \in [Subscription -> {"none", "completed"} \cup Active]

StripeInv == StripeType /\ StripeShape /\ EventShape

\* What a step may do at Stripe: a subscription changes with an event of its new state,
\* and the log grows by events about subscriptions there are.
StripeMove ==
  /\ StripeType'
  /\ ended \subseteq ended'
  /\ Len(log) <= Len(log')
  /\ \A e \in 1 .. Len(log) : log'[e] = log[e]
  /\ \A s \in Subscription :
       \/ stripe'[s] = stripe[s]
       \/ /\ Known(stripe'[s])
          /\ stripe'[s].asOf \in Len(log) + 1 .. Len(log')
          /\ log'[stripe'[s].asOf] = Updated(s, stripe'[s])
  /\ \A e \in Len(log) + 1 .. Len(log') :
       \/ \E s \in Subscription :
            log'[e] = Updated(s, stripe'[s]) /\ stripe'[s].asOf = e /\ Known(stripe'[s])
       \/ log'[e].kind = "invoice" /\ Known(stripe'[log'[e].sub])
            /\ stripe'[log'[e].sub].asOf # 0
       \/ \E s \in Subscription, p \in Period : log'[e] = RefundEvent(s, p) /\ Bought(s)

\* Nothing happens at Stripe, but time may pass or a checkout session be offered.
LEMMA StripeStill ==
  ASSUME StripeInv, UNCHANGED <<stripe, log>>, ended \subseteq ended', ended' \subseteq Key,
         offered' \in [Subscription -> {"none", "completed"} \cup Active]
  PROVE  StripeMove
<1>1. Len(log) \in Nat
  BY LenProperties DEF StripeInv, StripeType
<1> QED  BY <1>1 DEF StripeInv, StripeType, StripeMove

\* A subscription changes.
LEMMA ChangesMove ==
  ASSUME StripeInv, NEW s \in Subscription, NEW new \in Payload, Known(new),
         NEW more \in Seq(Event),
         \A i \in 1 .. Len(more) : more[i].kind = "invoice" /\ more[i].sub = s,
         Changes(s, new, more), ended \subseteq ended', ended' \subseteq Key,
         offered' \in [Subscription -> {"none", "completed"} \cup Active]
  PROVE  StripeMove
<1> DEFINE n == Len(log)
           data == [new EXCEPT !.asOf = n + 1]
           one == <<Updated(s, data)>>
<1>0. /\ log \in Seq(Event) /\ n \in Nat /\ Len(more) \in Nat /\ MaxEvents \in Nat
      /\ stripe \in [Subscription -> Payload]
  BY LenProperties, StripeAssumption DEF StripeInv, StripeType
<1>1. /\ stripe' = [stripe EXCEPT ![s] = data]
      /\ log' = log \o one \o more /\ Len(log') <= MaxEvents
  BY DEF Changes
<1>2. /\ data.status = new.status /\ data.period = new.period /\ data.asOf = n + 1
      /\ n + 1 \in 0 .. MaxEvents => data \in Payload
  BY DEF Payload
<1> HIDE DEF data
<1>3. /\ Updated(s, data).kind = "updated" /\ Updated(s, data).sub = s
      /\ Updated(s, data).data = data
  BY DEF Updated
<1>4. n + 1 \in 0 .. MaxEvents /\ Len(log') \in Nat
  <2> DEFINE S == Event \cup {Updated(s, data)}
  <2>1. log \in Seq(S) /\ more \in Seq(S) /\ one \in Seq(S) /\ Len(one) = 1
    BY <1>0, SeqMonotonic
  <2>2. log \o one \in Seq(S) /\ Len(log \o one) = n + 1
    BY <2>1, Appended
  <2>3. Len((log \o one) \o more) = n + 1 + Len(more)
    BY <2>1, <2>2, Appended
  <2> QED
    BY <1>0, <1>1, <2>3
<1>5. data \in Payload
  BY <1>2, <1>4
<1>6. Updated(s, data) \in Event
  BY <1>5, StripeAssumption DEF Updated, Event
<1>7. one \in Seq(Event) /\ Len(one) = 1 /\ one[1] = Updated(s, data)
  BY <1>6
<1>8. /\ log \o one \in Seq(Event) /\ Len(log \o one) = n + 1
      /\ \A e \in 1 .. n : (log \o one)[e] = log[e]
      /\ (log \o one)[n + 1] = Updated(s, data)
  BY <1>0, <1>7, Appended
<1> HIDE DEF one
<1>9. /\ log' \in Seq(Event) /\ Len(log') = n + 1 + Len(more)
      /\ \A e \in 1 .. n : log'[e] = log[e]
      /\ log'[n + 1] = Updated(s, data)
      /\ \A e \in n + 2 .. n + 1 + Len(more) : log'[e] = more[e - (n + 1)]
  <2> DEFINE two == log \o one
  <2>1. two \in Seq(Event) /\ Len(two) = n + 1 /\ log' = two \o more
    BY <1>1, <1>8
  <2>2. /\ \A e \in 1 .. n : two[e] = log[e]
        /\ two[n + 1] = Updated(s, data)
    BY <1>8
  <2> HIDE DEF two
  <2>3. /\ two \o more \in Seq(Event) /\ Len(two \o more) = Len(two) + Len(more)
        /\ \A e \in 1 .. Len(two) : (two \o more)[e] = two[e]
        /\ \A e \in Len(two) + 1 .. Len(two) + Len(more) : (two \o more)[e] = more[e - Len(two)]
    BY <2>1, Appended
  <2>4. \A e \in 1 .. n : e \in 1 .. Len(two)
    BY <1>0, <2>1
  <2>5. n + 1 \in 1 .. Len(two)
    BY <1>0, <2>1
  <2>6. \A e \in n + 2 .. n + 1 + Len(more) :
          e \in Len(two) + 1 .. Len(two) + Len(more) /\ e - Len(two) = e - (n + 1)
    BY <1>0, <2>1
  <2> QED
    BY <2>1, <2>2, <2>3, <2>4, <2>5, <2>6
<1>10. stripe'[s] = data /\ (\A t \in Subscription \ {s} : stripe'[t] = stripe[t])
  BY <1>0, <1>1
<1>11. Known(stripe'[s]) /\ stripe'[s].asOf = n + 1
  BY <1>2, <1>10 DEF Known
<1>12. StripeType'
  BY <1>0, <1>1, <1>5, <1>9 DEF StripeType
<1>13. \A t \in Subscription :
         \/ stripe'[t] = stripe[t]
         \/ /\ Known(stripe'[t])
            /\ stripe'[t].asOf \in Len(log) + 1 .. Len(log')
            /\ log'[stripe'[t].asOf] = Updated(t, stripe'[t])
  BY <1>0, <1>9, <1>10, <1>11
<1>14. ASSUME NEW e \in Len(log) + 1 .. Len(log')
       PROVE  \/ \E t \in Subscription :
                   log'[e] = Updated(t, stripe'[t]) /\ stripe'[t].asOf = e /\ Known(stripe'[t])
              \/ log'[e].kind = "invoice" /\ Known(stripe'[log'[e].sub])
                   /\ stripe'[log'[e].sub].asOf # 0
  <2>1. CASE e = n + 1
    BY <1>9, <1>10, <1>11, <2>1
  <2>2. CASE e # n + 1
    <3>1. e \in n + 2 .. n + 1 + Len(more) /\ e - (n + 1) \in 1 .. Len(more)
      BY <1>0, <1>9, <2>2
    <3>2. log'[e].kind = "invoice" /\ log'[e].sub = s
      BY <1>9, <3>1
    <3> QED
      BY <1>0, <1>11, <3>2
  <2> QED
    BY <2>1, <2>2
<1> QED
  BY <1>0, <1>9, <1>12, <1>13, <1>14 DEF StripeMove

\* The same of an action that emits events; the period of the subscription may end.
LEMMA EmitMove ==
  ASSUME StripeInv, NEW s \in Subscription, NEW new, NEW more \in Seq(Event),
         new \in Payload, Known(new),
         \A i \in 1 .. Len(more) : more[i].kind = "invoice" /\ more[i].sub = s,
         Emit(s, new, more), CurrentEnds(s) \/ UNCHANGED ended,
         Bought(s)
  PROVE  StripeMove /\ UNCHANGED serverVars
<1>1. stripe[s].period \in Period /\ ended \subseteq Key
  BY DEF StripeInv, StripeShape, StripeType
<1>2. ended \subseteq ended' /\ ended' \subseteq Key
  BY <1>1 DEF CurrentEnds, Key
<1>3. offered' \in [Subscription -> {"none", "completed"} \cup Active]
  BY DEF Emit, StripeInv, StripeType
<1>4. Changes(s, new, more) /\ UNCHANGED serverVars
  BY DEF Emit
<1> HIDE DEF serverVars
<1> QED
  BY <1>2, <1>3, <1>4, ChangesMove

LEMMA InvoiceEvents ==
  ASSUME NEW s \in Subscription, NEW p \in 0 .. MaxPeriod, NEW paid \in {"none", "paid", "open"},
         NEW more, more = <<InvoiceEvent(s, p, paid)>>
  PROVE  /\ more \in Seq(Event)
         /\ \A i \in 1 .. Len(more) : more[i].kind = "invoice" /\ more[i].sub = s
<1>1. InvoiceEvent(s, p, paid) \in Event
  BY ConstantTypes DEF InvoiceEvent, Event
<1>2. InvoiceEvent(s, p, paid).kind = "invoice" /\ InvoiceEvent(s, p, paid).sub = s
  BY DEF InvoiceEvent
<1> QED
  BY <1>1, <1>2

LEMMA RefundMove ==
  ASSUME StripeInv, NEW s \in Subscription, Refund(s)
  PROVE  StripeMove /\ UNCHANGED serverVars
<1>1. PICK p \in 1 .. stripe[s].period, n \in 1 .. 2 :
        log' = log \o [i \in 1 .. n |-> RefundEvent(s, p)]
  BY DEF Refund
<1> DEFINE more == [i \in 1 .. n |-> RefundEvent(s, p)]
<1>2. Len(log') <= MaxEvents /\ UNCHANGED <<stripe, ended, offered>> /\ UNCHANGED serverVars
  BY DEF Refund
<1>3. stripe[s] \in Payload /\ log \in Seq(Event)
  BY DEF StripeInv, StripeType
<1>4. p \in Period /\ Bought(s) /\ MaxPeriod \in Nat
  <2>1. stripe[s].period # 0
    BY <1>3, StripeAssumption DEF Payload
  <2>2. Bought(s) /\ stripe[s].period \in Period
    BY <2>1 DEF StripeInv, StripeShape, NoPayload
  <2> QED
    BY <2>2, StripeAssumption DEF Period
<1>5. RefundEvent(s, p) \in Event
  BY <1>4, ConstantTypes DEF RefundEvent, Event, Period
<1>6. more \in Seq(Event) /\ Len(more) = n
  <2>1. more \in [1 .. n -> Event]
    BY <1>5
  <2>2. more \in Seq(Event)
    BY <2>1, SeqDef
  <2> QED
    BY <2>1, <2>2, LenProperties
<1>7. \A i \in 1 .. Len(more) : more[i] = RefundEvent(s, p)
  BY <1>6
<1> HIDE DEF more
<1>8. /\ log' \in Seq(Event) /\ Len(log') = Len(log) + Len(more) /\ Len(log) \in Nat
      /\ \A e \in 1 .. Len(log) : log'[e] = log[e]
      /\ \A e \in Len(log) + 1 .. Len(log) + Len(more) : log'[e] = more[e - Len(log)]
  BY <1>1, <1>3, <1>6, Appended DEF more
<1>9. \A e \in Len(log) + 1 .. Len(log') : log'[e] = RefundEvent(s, p)
  BY <1>6, <1>7, <1>8
<1>10. StripeType'
  BY <1>2, <1>8 DEF StripeInv, StripeType
<1> HIDE DEF serverVars
<1> QED
  BY <1>2, <1>4, <1>6, <1>8, <1>9, <1>10 DEF StripeMove

LEMMA StripeStepMove ==
  ASSUME StripeInv, StripeStep
  PROVE  StripeMove /\ UNCHANGED serverVars
<1>1. /\ \A s \in Subscription : stripe[s] \in Payload
      /\ \A s \in Subscription : stripe[s].period \in Nat
      /\ \A s \in Subscription : Bought(s) => stripe[s].period \in Period
      /\ MaxPeriod \in Nat /\ <<>> \in Seq(Event) /\ Len(<<>>) = 0
  BY StripeAssumption, EmptySeq DEF StripeInv, StripeType, StripeShape, Payload, Period
<1> DEFINE Next1(s) == stripe[s].period + 1
<1>2. \A s \in Subscription : stripe[s].period < MaxPeriod => Next1(s) \in Period
  BY <1>1 DEF Period
<1>3. {"active", "past_due", "paused", "canceled"} \subseteq Status
  BY DEF Status, Active
<1>4. ASSUME NEW s \in Subscription, Renew(s)
      PROVE  StripeMove /\ UNCHANGED serverVars
  <2>1. Bought(s) /\ Next1(s) \in Period /\ Next1(s) \in 0 .. MaxPeriod
    BY <1>1, <1>2, <1>4 DEF Renew, Bought, Active, Period
  <2>2. PICK status \in {"active", "past_due"}, paid \in {"paid", "open"} :
          Emit(s, [stripe[s] EXCEPT !.status = status, !.period = Next1(s)],
               <<InvoiceEvent(s, Next1(s), paid)>>)
    BY <1>4 DEF Renew
  <2> DEFINE new == [stripe[s] EXCEPT !.status = status, !.period = Next1(s)]
  <2>3. new \in Payload /\ Known(new)
    BY <1>1, <1>3, <2>1 DEF Payload, Known
  <2>4. CurrentEnds(s)
    BY <1>4 DEF Renew
  <2> DEFINE more == <<InvoiceEvent(s, Next1(s), paid)>>
  <2>5. /\ more \in Seq(Event)
        /\ \A i \in 1 .. Len(more) : more[i].kind = "invoice" /\ more[i].sub = s
    <3>1. /\ Next1(s) \in 0 .. MaxPeriod /\ paid \in {"none", "paid", "open"}
          /\ more = <<InvoiceEvent(s, Next1(s), paid)>>
      BY <2>1
    <3> HIDE DEF more, Next1
    <3> QED
      BY <3>1, InvoiceEvents
  <2>6. Emit(s, new, more)
    BY <2>2
  <2> HIDE DEF new, more
  <2> QED
    BY <2>1, <2>3, <2>4, <2>5, <2>6, EmitMove
<1>5. ASSUME NEW s \in Subscription, NEW new \in Payload, Known(new), Bought(s),
             Emit(s, new, <<>>), CurrentEnds(s) \/ UNCHANGED ended
      PROVE  StripeMove /\ UNCHANGED serverVars
  <2> DEFINE more == <<>>
  <2>1. more \in Seq(Event) /\ Len(more) = 0
    BY <1>1
  <2>2. Emit(s, new, more)
    BY <1>5
  <2> HIDE DEF more
  <2>3. \A i \in 1 .. Len(more) : more[i].kind = "invoice" /\ more[i].sub = s
    BY <2>1
  <2> QED
    BY <1>5, <2>1, <2>2, <2>3, EmitMove
<1>6. ASSUME NEW s \in Subscription, Reschedule(s)
      PROVE  StripeMove /\ UNCHANGED serverVars
  <2>1. Bought(s) /\ Next1(s) \in Period /\ Next1(s) \in 0 .. MaxPeriod
    BY <1>1, <1>2, <1>6 DEF Reschedule, Bought, Active, Period
  <2>2. [stripe[s] EXCEPT !.period = @ + 1] = [stripe[s] EXCEPT !.period = Next1(s)]
    OBVIOUS
  <2>3. [stripe[s] EXCEPT !.period = Next1(s)] \in Payload /\ Known([stripe[s] EXCEPT !.period = Next1(s)])
    BY <1>1, <2>1 DEF Payload, Known, Bought
  <2> QED
    BY <1>5, <1>6, <2>1, <2>2, <2>3 DEF Reschedule
<1>7. ASSUME NEW s \in Subscription, Pause(s)
      PROVE  StripeMove /\ UNCHANGED serverVars
  <2>1. Bought(s)
    BY <1>7 DEF Pause, Bought
  <2>2. [stripe[s] EXCEPT !.status = "paused"] \in Payload /\ Known([stripe[s] EXCEPT !.status = "paused"])
    BY <1>1, <1>3, <2>1 DEF Payload, Known
  <2> QED
    BY <1>5, <1>7, <2>1, <2>2 DEF Pause
<1>8. ASSUME NEW s \in Subscription, Resume(s)
      PROVE  StripeMove /\ UNCHANGED serverVars
  <2>1. Bought(s) /\ Next1(s) \in Period /\ Next1(s) \in 0 .. MaxPeriod
    BY <1>1, <1>2, <1>8 DEF Resume, Bought, Period
  <2>2. [stripe[s] EXCEPT !.status = "active", !.period = @ + 1]
        = [stripe[s] EXCEPT !.status = "active", !.period = Next1(s)]
    OBVIOUS
  <2>3. /\ [stripe[s] EXCEPT !.status = "active", !.period = Next1(s)] \in Payload
        /\ Known([stripe[s] EXCEPT !.status = "active", !.period = Next1(s)])
    BY <1>1, <1>3, <2>1 DEF Payload, Known
  <2> QED
    BY <1>5, <1>8, <2>1, <2>2, <2>3 DEF Resume
<1>9. ASSUME NEW s \in Subscription, Cancel(s)
      PROVE  StripeMove /\ UNCHANGED serverVars
  <2>1. Bought(s)
    BY <1>9 DEF Cancel, Bought
  <2>2. [stripe[s] EXCEPT !.status = "canceled"] \in Payload /\ Known([stripe[s] EXCEPT !.status = "canceled"])
    BY <1>1, <1>3, <2>1 DEF Payload, Known
  <2> QED
    BY <1>5, <1>9, <2>1, <2>2 DEF Cancel
<1>10. ASSUME NEW s \in Subscription, Buy(s)
       PROVE  StripeMove /\ UNCHANGED serverVars
  <2>1. offered[s] \in Active /\ offered \in [Subscription -> {"none", "completed"} \cup Active]
    BY <1>10 DEF Buy, StripeInv, StripeType
  <2> DEFINE new == [NoPayload EXCEPT !.status = offered[s], !.period = 1]
  <2>2. PICK more \in {<<>>, <<InvoiceEvent(s, 0, "none")>>} : Changes(s, new, more)
    BY <1>10 DEF Buy
  <2>3. new \in Payload /\ Known(new)
    <3>1. 1 \in 0 .. MaxPeriod /\ 1 \in Period /\ offered[s] \in Status /\ offered[s] # "none"
      BY <2>1, StripeAssumption DEF Status, Active, Period
    <3> QED
      BY <3>1, ConstantTypes DEF Payload, Known
  <2>4. more \in Seq(Event) /\ (\A i \in 1 .. Len(more) : more[i].kind = "invoice" /\ more[i].sub = s)
    <3>1. CASE more = <<>>
      BY <1>1, <3>1
    <3>2. CASE more = <<InvoiceEvent(s, 0, "none")>>
      <4>1. 0 \in 0 .. MaxPeriod
        BY <1>1
      <4> QED
        BY <3>2, <4>1, InvoiceEvents
    <3> QED
      BY <2>2, <3>1, <3>2
  <2>5. UNCHANGED ended /\ UNCHANGED serverVars
        /\ offered' = [offered EXCEPT ![s] = "completed"]
    BY <1>10 DEF Buy
  <2>6. ended \subseteq Key
    BY DEF StripeInv, StripeType
  <2> HIDE DEF new, serverVars
  <2> QED
    BY <2>1, <2>2, <2>3, <2>4, <2>5, <2>6, ChangesMove
<1>11. ASSUME NEW k \in Key, PeriodEnds(k)
       PROVE  StripeMove /\ UNCHANGED serverVars
  <2>1. /\ ended \subseteq ended' /\ ended' \subseteq Key /\ UNCHANGED <<stripe, log, offered>>
        /\ UNCHANGED serverVars
    BY <1>11 DEF PeriodEnds, StripeInv, StripeType
  <2> HIDE DEF serverVars
  <2> QED
    BY <2>1, StripeStill DEF StripeInv, StripeType
<1> HIDE DEF serverVars
<1> QED
  BY <1>4, <1>6, <1>7, <1>8, <1>9, <1>10, <1>11, RefundMove DEF StripeStep

\* Stripe notes whether to cancel a subscription at the end of its period.
LEMMA SetCancelMove ==
  ASSUME StripeInv, NEW s \in Subscription, Bought(s), NEW cancel \in BOOLEAN,
         SetCancel(s, cancel), UNCHANGED <<ended, offered>>
  PROVE  StripeMove
<1>1. /\ stripe[s] \in Payload /\ stripe[s].period \in Period /\ stripe[s].status # "none"
      /\ ended' \subseteq Key /\ ended \subseteq ended'
      /\ offered' \in [Subscription -> {"none", "completed"} \cup Active]
  BY DEF StripeInv, StripeType, StripeShape, Bought
<1>2. CASE UNCHANGED <<stripe, log>>
  BY <1>1, <1>2, StripeStill DEF StripeInv, StripeType
<1>3. CASE Changes(s, [stripe[s] EXCEPT !.cancel = cancel], <<>>)
  <2> DEFINE new == [stripe[s] EXCEPT !.cancel = cancel]
             more == <<>>
  <2>1. new \in Payload /\ Known(new)
    BY <1>1 DEF Payload, Known
  <2>2. more \in Seq(Event) /\ Len(more) = 0
    BY EmptySeq
  <2>3. Changes(s, new, more)
    BY <1>3
  <2> HIDE DEF new, more
  <2>4. \A i \in 1 .. Len(more) : more[i].kind = "invoice" /\ more[i].sub = s
    BY <2>2
  <2> QED
    BY <1>1, <2>1, <2>2, <2>3, <2>4, ChangesMove
<1> QED
  BY <1>2, <1>3 DEF SetCancel

LEMMA ToggleMove ==
  ASSUME StripeInv, NEW s \in Subscription, PortalToggle(s)
  PROVE  StripeMove /\ UNCHANGED serverVars
<1>1. /\ stripe[s] \in Payload /\ stripe[s].cancel \in BOOLEAN
      /\ ended \subseteq Key /\ UNCHANGED ended
  BY DEF StripeInv, StripeType, PortalToggle, Payload
<1>2. Bought(s)
  BY DEF PortalToggle, Bought, Active
<1>3. stripe[s].status # "none" /\ stripe[s].period \in Period
  BY <1>2 DEF StripeInv, StripeShape, Bought
<1> DEFINE new == [stripe[s] EXCEPT !.cancel = ~stripe[s].cancel]
           more == <<>>
<1>4. new \in Payload /\ Known(new)
  BY <1>1, <1>3 DEF Payload, Known
<1>5. more \in Seq(Event) /\ Len(more) = 0
  BY EmptySeq
<1>6. Emit(s, new, more)
  <2>1. [stripe[s] EXCEPT !.cancel = ~@] = new
    OBVIOUS
  <2> QED
    BY <2>1 DEF PortalToggle
<1> HIDE DEF new, more
<1>7. \A i \in 1 .. Len(more) : more[i].kind = "invoice" /\ more[i].sub = s
  BY <1>5
<1> QED
  BY <1>1, <1>2, <1>4, <1>5, <1>6, <1>7, EmitMove

\* Subscriptions stay bought, and the events before are the events of before.
LEMMA StripeKept ==
  ASSUME StripeInv, StripeMove
  PROVE  /\ StripeInv'
         /\ \A s \in Subscription : Bought(s) => Bought(s)'
         /\ Len(log) \in Nat /\ Len(log') \in Nat
<1>1. /\ Len(log) \in Nat /\ Len(log') \in Nat /\ Len(log) <= Len(log')
      /\ \A e \in 1 .. Len(log) : log[e] \in Event
      /\ \A e \in 1 .. Len(log') : log'[e] \in Event
  BY LenProperties, ElementOfSeq DEF StripeInv, StripeType, StripeMove
<1>2. \A s \in Subscription : stripe'[s] = stripe[s] \/ Known(stripe'[s])
  BY DEF StripeMove
<1>3. \A s \in Subscription : Bought(s) => Bought(s)'
  BY <1>2 DEF Bought, Known
<1>4. StripeShape'
  <2> SUFFICES ASSUME NEW s \in Subscription
               PROVE  IF Bought(s)' THEN stripe'[s].period \in Period
                      ELSE stripe'[s] = NoPayload
    BY DEF StripeShape
  <2> QED
    BY <1>2 DEF StripeInv, StripeShape, Bought, Known
<1>5. EventShape'
  <2> SUFFICES ASSUME NEW e \in 1 .. Len(log')
               PROVE  /\ stripe'[log'[e].sub].status # "none"
                      /\ log'[e].kind = "updated" => Known(log'[e].data)
                      /\ log'[e].kind = "refund" => log'[e].invoice \in Period
    BY DEF EventShape, Bought, Known
  <2>1. CASE e \in 1 .. Len(log)
    <3>1. log'[e] = log[e] /\ log[e].sub \in Subscription
      BY <1>1, <2>1 DEF StripeMove, Event
    <3>2. /\ Bought(log[e].sub) /\ (log[e].kind = "updated" => Known(log[e].data))
          /\ log[e].kind = "refund" => log[e].invoice \in Period
      BY <2>1 DEF StripeInv, EventShape
    <3> QED
      BY <1>3, <3>1, <3>2 DEF Bought
  <2>2. CASE e \notin 1 .. Len(log)
    <3>1. e \in Len(log) + 1 .. Len(log')
      BY <1>1, <2>2
    <3>2. CASE \E s \in Subscription :
                 log'[e] = Updated(s, stripe'[s]) /\ stripe'[s].asOf = e /\ Known(stripe'[s])
      BY <3>2 DEF Updated, Known
    <3>3. CASE log'[e].kind = "invoice" /\ Known(stripe'[log'[e].sub])
      BY <3>3 DEF Known
    <3>4. CASE \E s \in Subscription, p \in Period : log'[e] = RefundEvent(s, p) /\ Bought(s)
      BY <1>3, <3>4 DEF RefundEvent, Bought
    <3> QED
      BY <3>1, <3>2, <3>3, <3>4 DEF StripeMove
  <2> QED
    BY <2>1, <2>2
<1> QED
  BY <1>1, <1>3, <1>4, <1>5 DEF StripeInv, StripeMove

-----------------------------------------------------------------------------
\* Rows and cycles

LEMMA RowFields ==
  ASSUME NEW r \in Row
  PROVE  /\ r.status \in Status \cup {"none"} /\ r.period \in 0 .. MaxPeriod
         /\ r.cancel \in BOOLEAN /\ r.invoice \in 0 .. MaxPeriod
         /\ r.invoiceStatus \in {"none", "paid", "open", "refunded"} /\ r.revoked \in BOOLEAN
         /\ DOMAIN r = {"status", "period", "cancel", "invoice", "invoiceStatus", "revoked"}
BY DEF Row

\* A field that was computed is written if it differs from what was read.
LEMMA MergedFields ==
  ASSUME NEW current \in Row, NEW read \in Row, NEW new \in Row
  PROVE  /\ Merged(current, read, new) \in Row
         /\ Merged(current, read, new).status
              = IF new.status # read.status THEN new.status ELSE current.status
         /\ Merged(current, read, new).period
              = IF new.period # read.period THEN new.period ELSE current.period
         /\ Merged(current, read, new).cancel
              = IF new.cancel # read.cancel THEN new.cancel ELSE current.cancel
         /\ Merged(current, read, new).invoice
              = IF new.invoice # read.invoice THEN new.invoice ELSE current.invoice
         /\ Merged(current, read, new).invoiceStatus
              = IF new.invoiceStatus # read.invoiceStatus THEN new.invoiceStatus
                ELSE current.invoiceStatus
         /\ Merged(current, read, new).revoked
              = IF new.revoked # read.revoked THEN new.revoked ELSE current.revoked
BY DEF Merged, Row

LEMMA SyncedFields ==
  ASSUME NEW r \in Row, NEW data \in Payload, NEW event \in Event
  PROVE  /\ Synced(r, data, event) \in Row
         /\ Synced(r, data, event).status = data.status
         /\ Synced(r, data, event).period = data.period
         /\ Synced(r, data, event).revoked = StaysRevoked(r, data)
         /\ Synced(r, data, event).invoiceStatus
              = IF Sticky(r) \/ event.paid = "none" THEN r.invoiceStatus ELSE event.paid
<1>1. StaysRevoked(r, data) \in BOOLEAN
  BY DEF StaysRevoked
<1>2. /\ data.status \in Status \cup {"none"} /\ data.period \in 0 .. MaxPeriod
      /\ data.cancel \in BOOLEAN
  BY DEF Payload
<1>3. event.invoice \in 0 .. MaxPeriod /\ event.paid \in {"none", "paid", "open"}
  BY DEF Event
<1> QED
  BY <1>1, <1>2, <1>3, RowFields DEF Synced, Row

LEMMA RefundedFields ==
  ASSUME NEW r \in Row
  PROVE  /\ Refunded(r) \in Row /\ Refunded(r).status = r.status /\ Refunded(r).period = r.period
         /\ Refunded(r).revoked = TRUE /\ Refunded(r).invoiceStatus = "refunded"
BY DEF Refunded, Row

Cycles == [CycleKey -> CycleStatus]

LEMMA WithOpenType ==
  ASSUME cycle \in Cycles, NEW read \in Cycles, NEW status \in CycleStatus
  PROVE  /\ WithOpen(read, status) \in Cycles
         /\ \A k \in CycleKey :
              WithOpen(read, status)[k] = IF read[k] = "open" THEN status ELSE cycle[k]
BY DEF WithOpen, Cycles

LEMMA OpenedType ==
  ASSUME cycle \in Cycles, NEW read \in Cycles, NEW k \in CycleKey
  PROVE  /\ Opened(read, k) \in Cycles
         /\ \A j \in CycleKey : Opened(read, k)[j] =
              IF read[k] = "none"
                THEN IF j = k THEN "open" ELSE IF read[j] = "open" THEN "closed" ELSE cycle[j]
              ELSE IF read[k] # "open" /\ j = k THEN "open" ELSE cycle[j]
<1>1. "open" \in CycleStatus /\ "closed" \in CycleStatus
  BY DEF CycleStatus
<1>2. CASE read[k] = "none"
  <2> DEFINE w == WithOpen(read, "closed")
  <2>1. /\ w \in Cycles
        /\ \A j \in CycleKey : w[j] = IF read[j] = "open" THEN "closed" ELSE cycle[j]
    BY <1>1, WithOpenType
  <2>2. Opened(read, k) = [w EXCEPT ![k] = "open"]
    BY <1>2 DEF Opened
  <2> HIDE DEF w
  <2> QED
    BY <1>1, <1>2, <2>1, <2>2 DEF Cycles
<1>3. CASE read[k] # "none" /\ read[k] # "open"
  <2>1. Opened(read, k) = [cycle EXCEPT ![k] = "open"]
    BY <1>3 DEF Opened
  <2> QED
    BY <1>1, <1>3, <2>1 DEF Cycles
<1>4. CASE read[k] # "none" /\ read[k] = "open"
  BY <1>4 DEF Opened
<1> QED
  BY <1>2, <1>3, <1>4

-----------------------------------------------------------------------------
\* The overrides that are looked up

LEMMA Smallest ==
  ASSUME NEW S, S \subseteq Nat, S # {}
  PROVE  \E i \in S : \A j \in S : i <= j
<1>1. PICK i \in S : \A j \in S : <<j, i>> \notin OpToRel(<, Nat)
  BY NatLessThanWellFounded, WFMin, Zenon
<1>2. \A j \in S : ~(j < i)
  BY <1>1 DEF OpToRel
<1> QED
  BY <1>2

LEMMA Largest ==
  ASSUME NEW n \in Nat, NEW S, S \subseteq 1 .. n, S # {}
  PROVE  \E i \in S : \A j \in S : j <= i
<1> DEFINE T == {n - i : i \in S}
<1>1. T \subseteq Nat /\ T # {}
  <2>1. \A i \in S : n - i \in Nat
    OBVIOUS
  <2> QED
    BY <2>1
<1> HIDE DEF T
<1>2. PICK x \in T : \A y \in T : x <= y
  BY <1>1, Smallest
<1>3. PICK i \in S : x = n - i
  BY <1>2 DEF T
<1>4. \A j \in S : n - i <= n - j
  BY <1>2, <1>3 DEF T
<1> QED
  BY <1>4

Begun == {i \in Live : Started(override[i].start)}
Waiting == {i \in Live : ~Started(override[i].start)}

LEMMA OverrideFacts ==
  ASSUME override \in Seq(Override)
  PROVE  /\ Len(override) \in Nat /\ DOMAIN override = 1 .. Len(override)
         /\ Live \subseteq 1 .. Len(override) /\ Begun \cup Waiting = Live
         /\ ActiveOverride \in Nat /\ PendingOverride \in Nat
         /\ IF Begun = {} THEN ActiveOverride = 0 ELSE ActiveOverride \in Begun
         /\ IF Waiting = {} THEN PendingOverride = 0 ELSE PendingOverride \in Waiting
<1>1. Len(override) \in Nat /\ DOMAIN override = 1 .. Len(override)
  BY LenProperties
<1>2. Live \subseteq 1 .. Len(override)
  BY <1>1 DEF Live
<1>3. Begun \subseteq Live /\ Waiting \subseteq Live /\ Begun \cup Waiting = Live
  BY DEF Begun, Waiting
<1>4. IF Begun = {} THEN ActiveOverride = 0 ELSE ActiveOverride \in Begun
  <2>1. Begun # {} => \E i \in Begun : \A j \in Begun : j <= i
    BY <1>1, <1>2, <1>3, Largest
  <2>2. ActiveOverride = IF Begun = {} THEN 0 ELSE CHOOSE i \in Begun : \A j \in Begun : j <= i
    BY DEF ActiveOverride, Begun
  <2> QED
    BY <2>1, <2>2
<1>5. IF Waiting = {} THEN PendingOverride = 0 ELSE PendingOverride \in Waiting
  <2> DEFINE Next2(i) == override[i].start[2]
             First2(i) == \A j \in Waiting : \/ Next2(i) < Next2(j)
                                             \/ Next2(i) = Next2(j) /\ j <= i
  <2>1. ASSUME Waiting # {}
        PROVE  \E i \in Waiting : First2(i)
    <3>1. \A i \in Waiting : Next2(i) \in Nat
      <4>1. \A k \in CycleKey : k[2] \in Nat
        BY StripeAssumption DEF CycleKey, Key, Period, Managed
      <4>2. \A i \in Waiting : override[i] \in Override
        BY <1>1, <1>2, <1>3, ElementOfSeq
      <4> QED
        BY <4>1, <4>2 DEF Override
    <3> DEFINE T == {Next2(i) : i \in Waiting}
    <3>2. T \subseteq Nat /\ T # {}
      BY <2>1, <3>1
    <3>3. PICK x \in T : \A y \in T : x <= y
      <4> HIDE DEF T
      <4> QED  BY <3>2, Smallest
    <3> DEFINE U == {i \in Waiting : Next2(i) = x}
    <3>4. U \subseteq 1 .. Len(override) /\ U # {}
      BY <1>2, <1>3, <3>3
    <3>5. PICK i \in U : \A j \in U : j <= i
      <4> HIDE DEF U
      <4> QED  BY <1>1, <3>4, Largest
    <3>6. ASSUME NEW j \in Waiting
          PROVE  \/ Next2(i) < Next2(j)
                 \/ Next2(i) = Next2(j) /\ j <= i
      <4>1. Next2(i) = x /\ x <= Next2(j) /\ Next2(j) \in Nat /\ x \in Nat
        BY <3>1, <3>3, <3>5, <3>6
      <4>2. CASE Next2(j) = x
        BY <3>5, <4>1, <4>2
      <4>3. CASE Next2(j) # x
        BY <4>1, <4>3
      <4> QED
        BY <4>2, <4>3
    <3> QED
      BY <3>5, <3>6
  <2>2. PendingOverride = IF Waiting = {} THEN 0 ELSE CHOOSE i \in Waiting : First2(i)
    BY DEF PendingOverride, Waiting
  <2> HIDE DEF First2
  <2> QED
    BY <2>1, <2>2
<1>6. \A i \in Live : i \in Nat
  BY <1>1, <1>2
<1>7. ActiveOverride \in Nat /\ PendingOverride \in Nat
  <2>1. CASE Begun = {} /\ Waiting = {}
    BY <1>4, <1>5, <2>1
  <2>2. CASE Begun # {} /\ Waiting = {}
    BY <1>3, <1>4, <1>5, <1>6, <2>2
  <2>3. CASE Begun = {} /\ Waiting # {}
    BY <1>3, <1>4, <1>5, <1>6, <2>3
  <2>4. CASE Begun # {} /\ Waiting # {}
    BY <1>3, <1>4, <1>5, <1>6, <2>4
  <2> QED
    BY <2>1, <2>2, <2>3, <2>4
<1> HIDE DEF Begun, Waiting, ActiveOverride, PendingOverride, Live
<1> QED
  BY <1>1, <1>2, <1>3, <1>4, <1>5, <1>7

-----------------------------------------------------------------------------
\* The shape of the state

\* A row that was written is that of a subscription that was bought.
Written(s) == row[s] # NoRow
RowShape ==
  \A s \in Subscription :
    Written(s) => row[s].status # "none" /\ row[s].period \in Period /\ Bought(s)

\* A handler works on data from Stripe, on a row as it was written.
SoundHandler(h) ==
  LET me == handler[h]
      kind == Recorded(h).kind IN
  /\ me.pc = "fetch" => kind # "updated"
  /\ me.pc \in {"load", "commit", "override", "note"} /\ kind # "refund" => Known(me.data)
  /\ me.pc = "commit" => /\ kind = "refund" => me.row # NoRow
                         /\ me.row # NoRow => Written(Recorded(h).sub)
  /\ me.pc = "override" => kind # "refund"
HandlerShape == \A h \in Handler : SoundHandler(h)

\* A request that asks Stripe does so for a row that was written.
SoundRequest(a) ==
  LET me == request[a] IN
  /\ me.pc = "ask" => me.asked
  /\ me.pc \in {"ask", "commit"} /\ me.asked => Written(me.sub) /\ me.read.period \in Period
  /\ me.pc = "commit" /\ me.after = "rank" => me.asked
  /\ \/ me.pc = "profile"
     \/ me.pc \in {"ask", "commit"} /\ me.after = "profile"
     => me.profile # "none"
  /\ me.pc = "rank" => me.rank # "none"
RequestShape == \A a \in Admin : SoundRequest(a)

Shape ==
  /\ TypeOK /\ ManagedTypeOK /\ StripeShape /\ EventShape
  /\ RowShape /\ HandlerShape /\ RequestShape

LEMMA HandlerFields ==
  ASSUME NEW me \in HandlerState
  PROVE  /\ me.pc \in HandlerPc /\ me.event \in 0 .. MaxEvents /\ me.seen \in {"none", "failed"}
         /\ me.data \in Payload /\ me.row \in Row /\ me.cycle \in Cycles
BY DEF HandlerState, Cycles

LEMMA ShapeFacts ==
  ASSUME Shape
  PROVE  /\ StripeInv /\ Len(log) \in Nat
         /\ cycle \in Cycles /\ override \in Seq(Override)
         /\ \A h \in Handler : handler[h] \in HandlerState
         /\ \A h \in Handler : handler[h].pc = "idle" <=> handler[h].event = 0
         /\ \A h \in Handler : handler[h].event # 0 =>
              /\ handler[h].event \in 1 .. Len(log) /\ handler[h].event \in EventNo
              /\ Recorded(h) \in Event /\ Recorded(h).sub \in Subscription
              /\ Recorded(h).data \in Payload /\ Bought(Recorded(h).sub)
         /\ \A s \in Subscription : row[s] \in Row /\ stripe[s] \in Payload
         /\ \A a \in Admin : request[a] \in RequestState
<1>1. StripeInv
  BY DEF Shape, TypeOK, StripeInv, StripeType
<1>2. Len(log) \in Nat /\ MaxEvents \in Nat /\ Len(log) <= MaxEvents
  BY <1>1, LenProperties, StripeAssumption DEF StripeInv, StripeType
<1>3. cycle \in Cycles /\ override \in Seq(Override)
  BY DEF Shape, TypeOK, Cycles
<1>4. \A h \in Handler :
        /\ handler[h] \in HandlerState
        /\ handler[h].pc = "idle" <=> handler[h].event = 0
        /\ handler[h].event \in 0 .. Len(log)
  BY DEF Shape, TypeOK
<1>5. ASSUME NEW h \in Handler, handler[h].event # 0
      PROVE  /\ handler[h].event \in 1 .. Len(log) /\ handler[h].event \in EventNo
             /\ Recorded(h) \in Event /\ Recorded(h).sub \in Subscription
             /\ Recorded(h).data \in Payload /\ Bought(Recorded(h).sub)
  <2>1. handler[h].event \in 1 .. Len(log) /\ handler[h].event \in EventNo
    BY <1>2, <1>4, <1>5 DEF EventNo
  <2>2. Recorded(h) \in Event
    BY <2>1, <1>1, ElementOfSeq DEF Recorded, StripeInv, StripeType
  <2>3. Bought(Recorded(h).sub)
    BY <2>1, <1>1 DEF Recorded, StripeInv, EventShape
  <2> QED
    BY <2>1, <2>2, <2>3 DEF Event
<1>6. \A s \in Subscription : row[s] \in Row /\ stripe[s] \in Payload
  BY DEF Shape, TypeOK
<1>7. \A a \in Admin : request[a] \in RequestState
  BY DEF Shape, ManagedTypeOK
<1> QED
  BY <1>1, <1>2, <1>3, <1>4, <1>5, <1>6, <1>7

-----------------------------------------------------------------------------
\* What a step of a handler does to the handlers

HandlerStepped(h) ==
  LET me == handler[h]
      new == handler'[h] IN
  /\ \A g \in Handler \ {h} : handler'[g] = handler[g]
  /\ new \in HandlerState
  /\ new.pc = "idle" <=> new.event = 0
  /\ new.pc = "register" => me.pc = "idle" /\ new.event \in 1 .. Len(log)
  /\ new.pc \notin {"idle", "register"} => new.event = me.event /\ me.event # 0
  /\ new.pc = "fetch" => me.pc = "register" /\ Recorded(h).kind # "updated"
  /\ new.pc = "load" =>
       \/ me.pc = "register" /\ Recorded(h).kind = "updated" /\ new.data = Recorded(h).data
       \/ /\ me.pc = "fetch" /\ Recorded(h).kind # "updated"
          /\ Recorded(h).kind = "invoice" => new.data = stripe[Recorded(h).sub]
  /\ new.pc = "commit" =>
       /\ me.pc = "load" /\ new.data = me.data
       /\ new.row = row[Recorded(h).sub] /\ new.cycle = cycle
       /\ Recorded(h).kind = "refund" => new.row.invoice = Recorded(h).invoice
  /\ new.pc = "override" => me.pc = "commit" /\ new.data = me.data /\ Recorded(h).kind # "refund"
  /\ new.pc = "note" => me.pc \in {"commit", "override"} /\ new.data = me.data
  /\ new.pc = "finish" => \/ me.pc = "note"
                          \/ me.pc = "load" /\ Recorded(h).kind = "refund"

\* ... which keeps the handlers sound, as long as rows are not unwritten.
LEMMA SteppedTypes ==
  ASSUME Shape, NEW h \in Handler, HandlerStepped(h), UNCHANGED stripeVars,
         handler' = [handler EXCEPT ![h] = handler'[h]]
  PROVE  /\ handler' \in [Handler -> HandlerState]
         /\ \A g \in Handler : handler'[g].event \in 0 .. Len(log')
                               /\ (handler'[g].event = 0 <=> handler'[g].pc = "idle")
         /\ \A g \in Handler : handler'[g].pc \notin {"idle", "register"} =>
              handler[g].event = handler'[g].event /\ Recorded(g)' = Recorded(g)
<1>1. handler \in [Handler -> HandlerState] /\ Len(log) \in Nat /\ log' = log
  BY ShapeFacts DEF Shape, TypeOK, stripeVars
<1>2. handler'[h] \in HandlerState
  BY DEF HandlerStepped
<1>3. handler' \in [Handler -> HandlerState]
  BY <1>1, <1>2
<1>4. ASSUME NEW g \in Handler
      PROVE  /\ handler'[g].event \in 0 .. Len(log')
             /\ (handler'[g].event = 0 <=> handler'[g].pc = "idle")
             /\ handler'[g].pc \notin {"idle", "register"} => handler[g].event = handler'[g].event
  <2>1. CASE g = h
    BY <1>1, <2>1, ShapeFacts DEF HandlerStepped
  <2>2. CASE g # h
    <3>1. handler'[g] = handler[g]
      BY <2>2 DEF HandlerStepped
    <3> QED
      BY <1>1, <3>1, ShapeFacts
  <2> QED
    BY <2>1, <2>2
<1>5. \A g \in Handler : handler'[g].event = handler[g].event => Recorded(g)' = Recorded(g)
  BY <1>1 DEF Recorded
<1> QED
  BY <1>3, <1>4, <1>5

LEMMA SteppedSound ==
  ASSUME Shape, NEW h \in Handler, HandlerStepped(h), UNCHANGED stripeVars,
         handler' = [handler EXCEPT ![h] = handler'[h]],
         \A s \in Subscription : Written(s) => Written(s)'
  PROVE  HandlerShape'
<1> SUFFICES ASSUME NEW g \in Handler, handler'[g].pc \notin {"idle", "register"}
             PROVE  SoundHandler(g)'
  BY DEF HandlerShape, SoundHandler
<1>1. /\ handler[g].event = handler'[g].event /\ Recorded(g)' = Recorded(g)
      /\ handler[g].event # 0
  BY SteppedTypes
<1>2. /\ Recorded(g) \in Event /\ Recorded(g).sub \in Subscription
      /\ Bought(Recorded(g).sub) /\ handler[g].event \in 1 .. Len(log)
  BY <1>1, ShapeFacts
<1>3. Recorded(g).kind \in {"updated", "invoice", "refund"}
  BY <1>2 DEF Event
<1>4. SoundHandler(g)
  BY DEF Shape, HandlerShape
<1>5. CASE g # h
  <2>1. handler'[g] = handler[g]
    BY <1>5 DEF HandlerStepped
  <2> QED
    BY <1>1, <1>2, <1>4, <2>1 DEF SoundHandler
<1>6. CASE g = h
  <2>1. handler'[g].pc = "fetch" => Recorded(g).kind # "updated"
    BY <1>6 DEF HandlerStepped
  <2>2. ASSUME handler'[g].pc = "load", Recorded(g).kind # "refund"
        PROVE  Known(handler'[g].data)
    <3>1. CASE Recorded(g).kind = "updated"
      <4>1. handler'[g].data = Recorded(g).data
        BY <1>6, <2>2, <3>1 DEF HandlerStepped
      <4> QED
        BY <1>2, <3>1, <4>1 DEF Shape, EventShape, Recorded
    <3>2. CASE Recorded(g).kind = "invoice"
      <4>1. handler'[g].data = stripe[Recorded(g).sub]
        BY <1>6, <2>2, <3>2 DEF HandlerStepped
      <4> QED
        BY <1>2, <4>1 DEF Shape, StripeShape, Bought, Known
    <3> QED
      BY <1>3, <2>2, <3>1, <3>2
  <2>3. /\ handler'[g].pc \in {"commit", "override", "note"} =>
             handler[g].pc \in {"load", "commit", "override"} /\ handler'[g].data = handler[g].data
        /\ handler'[g].pc = "override" => Recorded(g).kind # "refund"
    BY <1>6 DEF HandlerStepped
  <2>4. ASSUME handler'[g].pc = "commit"
        PROVE  /\ handler'[g].row = row[Recorded(g).sub]
               /\ Recorded(g).kind = "refund" => handler'[g].row # NoRow
    <3>1. /\ handler'[g].row = row[Recorded(g).sub]
          /\ Recorded(g).kind = "refund" => handler'[g].row.invoice = Recorded(g).invoice
      BY <1>6, <2>4 DEF HandlerStepped
    <3>2. ASSUME Recorded(g).kind = "refund"
          PROVE  Recorded(g).invoice # 0
      BY <1>2, <3>2 DEF Shape, EventShape, Recorded, Period
    <3> QED
      BY <3>1, <3>2, ConstantTypes
  <2> QED
    BY <1>1, <1>2, <1>4, <2>1, <2>2, <2>3, <2>4 DEF SoundHandler, Written
<1> QED
  BY <1>5, <1>6

\* The steps of a handler that leave the rows alone.
LEMMA ReadSteps ==
  ASSUME Shape, NEW h \in Handler,
         \/ \E e \in EventNo : Deliver(h, e)
         \/ Register(h) \/ Fetch(h) \/ Load(h) \/ FetchFails(h) \/ Note(h) \/ Finish(h) \/ Abort(h)
  PROVE  HandlerStepped(h) /\ handler' = [handler EXCEPT ![h] = handler'[h]]
<1> DEFINE me == handler[h]
           Stepped == HandlerStepped(h) /\ handler' = [handler EXCEPT ![h] = handler'[h]]
<1>1. /\ handler \in [Handler -> HandlerState] /\ me \in HandlerState
      /\ me.pc = "idle" <=> me.event = 0
      /\ me.pc \in HandlerPc /\ me.event \in 0 .. MaxEvents /\ me.seen \in {"none", "failed"}
      /\ me.data \in Payload /\ me.row \in Row /\ me.cycle \in Cycles
  BY ShapeFacts, HandlerFields DEF Shape, TypeOK
<1>2. me.event # 0 => /\ Recorded(h) \in Event /\ Recorded(h).sub \in Subscription
                      /\ Recorded(h).data \in Payload
  BY ShapeFacts
<1>3. Idle \in HandlerState /\ Idle.pc = "idle" /\ Idle.event = 0
  BY ConstantTypes
<1>4. ASSUME NEW new, handler' = [handler EXCEPT ![h] = new]
      PROVE  /\ handler'[h] = new /\ handler' = [handler EXCEPT ![h] = handler'[h]]
             /\ \A g \in Handler \ {h} : handler'[g] = handler[g]
  BY <1>1, <1>4
<1>5. ASSUME handler' = [handler EXCEPT ![h] = Idle]
      PROVE  Stepped
  BY <1>3, <1>4, <1>5 DEF HandlerStepped
<1>6. ASSUME NEW e \in EventNo, Deliver(h, e)
      PROVE  Stepped
  <2>0. e # 0 /\ e \in 0 .. MaxEvents
    BY StripeAssumption DEF EventNo
  <2>1. me.pc = "idle" /\ e \in 1 .. Len(log) /\ e # 0 /\ e \in 0 .. MaxEvents
    BY <1>6, <2>0 DEF Deliver
  <2>2. CASE UNCHANGED handler
    <3>1. handler' = [handler EXCEPT ![h] = me] /\ handler'[h] = me
      BY <1>1, <2>2
    <3> QED
      BY <1>1, <2>1, <2>2, <3>1 DEF HandlerStepped
  <2>3. CASE ~Done(e)
    <3> DEFINE new == [Idle EXCEPT !.pc = "register", !.event = e, !.seen = record[e]]
    <3>1. handler' = [handler EXCEPT ![h] = new]
      BY <1>6, <2>3 DEF Deliver
    <3>2. new \in HandlerState /\ new.pc = "register" /\ new.event = e
      <4>1. record[e] \in {"none", "pending", "processed", "failed"}
        BY DEF Shape, TypeOK
      <4>2. record[e] \in {"none", "failed"}
        BY <2>3, <4>1 DEF Done
      <4> QED
        BY <1>3, <2>1, <4>2 DEF HandlerState, HandlerPc
    <3> HIDE DEF new
    <3> QED
      BY <1>4, <2>1, <3>1, <3>2 DEF HandlerStepped
  <2> QED
    BY <1>6, <2>2, <2>3 DEF Deliver
<1>7. ASSUME Register(h)
      PROVE  Stepped
  <2>1. me.pc = "register" /\ me.event # 0
    BY <1>1, <1>7 DEF Register
  <2>2. CASE handler' = [handler EXCEPT ![h] = Idle]
    BY <1>5, <2>2
  <2>3. CASE handler' # [handler EXCEPT ![h] = Idle]
    <3> DEFINE pc == IF Recorded(h).kind = "updated" THEN "load" ELSE "fetch"
               new == [me EXCEPT !.pc = pc, !.seen = "none", !.data = Recorded(h).data]
    <3>1. handler' = [handler EXCEPT ![h] = new]
      BY <1>7, <2>3 DEF Register
    <3>2. /\ new \in HandlerState /\ new.pc = pc /\ new.event = me.event
          /\ new.data = Recorded(h).data
      BY <1>1, <1>2, <2>1 DEF HandlerState, HandlerPc
    <3> HIDE DEF new
    <3> QED
      BY <1>4, <2>1, <3>1, <3>2 DEF HandlerStepped
  <2> QED
    BY <2>2, <2>3
<1>8. ASSUME Fetch(h)
      PROVE  Stepped
  <2>1. me.pc = "fetch" /\ me.event # 0
    BY <1>1, <1>8 DEF Fetch
  <2> DEFINE data == IF Recorded(h).kind = "invoice" THEN stripe[Recorded(h).sub] ELSE me.data
             new == [me EXCEPT !.pc = "load", !.data = data]
  <2>2. handler' = [handler EXCEPT ![h] = new]
    BY <1>8 DEF Fetch
  <2>3. data \in Payload
    BY <1>1, <1>2, <2>1, ShapeFacts
  <2>4. new \in HandlerState /\ new.pc = "load" /\ new.event = me.event /\ new.data = data
    <3> HIDE DEF data
    <3> QED
      BY <1>1, <2>3 DEF HandlerState, HandlerPc
  <2>5. Recorded(h).kind # "updated"
    BY <2>1 DEF Shape, HandlerShape, SoundHandler
  <2> HIDE DEF new
  <2> QED
    BY <1>4, <2>1, <2>2, <2>4, <2>5 DEF HandlerStepped
<1>9. ASSUME Load(h)
      PROVE  Stepped
  <2>1. me.pc = "load" /\ me.event # 0
    BY <1>1, <1>9 DEF Load
  <2> DEFINE s == Recorded(h).sub
             p == Recorded(h).invoice
             nothing == /\ Recorded(h).kind = "refund"
                        /\ row[s].invoice # p \/ RefundApplied(row[s], p)
  <2>2. row[s] \in Row /\ cycle \in Cycles
    BY <1>2, <2>1, ShapeFacts
  <2>3. CASE nothing
    <3> DEFINE new == [me EXCEPT !.pc = "finish"]
    <3>1. handler' = [handler EXCEPT ![h] = new]
      BY <1>9, <2>3 DEF Load
    <3>2. new \in HandlerState /\ new.pc = "finish" /\ new.event = me.event
      BY <1>1 DEF HandlerState, HandlerPc
    <3> HIDE DEF new
    <3> QED
      BY <1>4, <2>1, <2>3, <3>1, <3>2 DEF HandlerStepped
  <2>4. CASE ~nothing
    <3> DEFINE new == [me EXCEPT !.pc = "commit", !.row = row[s], !.cycle = cycle]
    <3>1. handler' = [handler EXCEPT ![h] = new]
      BY <1>9, <2>4 DEF Load
    <3>2. /\ new \in HandlerState /\ new.pc = "commit" /\ new.event = me.event
          /\ new.data = me.data /\ new.row = row[s] /\ new.cycle = cycle
      BY <1>1, <2>2 DEF HandlerState, HandlerPc, Cycles
    <3>3. Recorded(h).kind = "refund" => row[s].invoice = p
      BY <2>4
    <3> HIDE DEF new
    <3> QED
      BY <1>4, <2>1, <3>1, <3>2, <3>3 DEF HandlerStepped
  <2> QED
    BY <2>3, <2>4
<1>10. ASSUME Note(h)
       PROVE  Stepped
  <2>1. me.pc = "note" /\ me.event # 0
    BY <1>1, <1>10 DEF Note
  <2> DEFINE new == [me EXCEPT !.pc = "finish"]
  <2>2. handler' = [handler EXCEPT ![h] = new]
    BY <1>10 DEF Note
  <2>3. new \in HandlerState /\ new.pc = "finish" /\ new.event = me.event
    BY <1>1 DEF HandlerState, HandlerPc
  <2> HIDE DEF new
  <2> QED
    BY <1>4, <2>1, <2>2, <2>3 DEF HandlerStepped
<1>11. FetchFails(h) \/ Finish(h) \/ Abort(h) => Stepped
  BY <1>5 DEF FetchFails, Finish, Abort
<1> QED
  BY <1>6, <1>7, <1>8, <1>9, <1>10, <1>11

\* The override is moved, after the row.
LEMMA MoveSteps ==
  ASSUME Shape, NEW h \in Handler, MoveOverride(h)
  PROVE  /\ HandlerStepped(h) /\ handler' = [handler EXCEPT ![h] = handler'[h]]
         /\ handler[h].pc = "override" /\ handler'[h].pc = "note"
         /\ handler'[h].event = handler[h].event /\ handler'[h].data = handler[h].data
         /\ handler[h].event # 0 /\ Recorded(h).kind # "refund"
<1> DEFINE me == handler[h]
           new == [me EXCEPT !.pc = "note"]
<1>1. /\ handler \in [Handler -> HandlerState] /\ me \in HandlerState
      /\ me.pc = "override" /\ me.event # 0
      /\ me.event \in 0 .. MaxEvents /\ me.seen \in {"none", "failed"}
      /\ me.data \in Payload /\ me.row \in Row /\ me.cycle \in Cycles
  BY ShapeFacts, HandlerFields DEF Shape, TypeOK, MoveOverride
<1>2. handler' = [handler EXCEPT ![h] = new]
  BY DEF MoveOverride
<1>3. /\ new \in HandlerState /\ new.pc = "note" /\ new.event = me.event
      /\ new.data = me.data
  BY <1>1 DEF HandlerState, HandlerPc
<1>4. Recorded(h).kind # "refund"
  BY <1>1 DEF Shape, HandlerShape, SoundHandler
<1> HIDE DEF new
<1> QED
  BY <1>1, <1>2, <1>3, <1>4 DEF HandlerStepped

\* The commits of a handler.
LEMMA CommitSteps ==
  ASSUME Shape, NEW h \in Handler, SyncCommit(h) \/ RefundCommit(h)
  PROVE  /\ HandlerStepped(h) /\ handler' = [handler EXCEPT ![h] = handler'[h]]
         /\ handler'[h].pc \in {"idle", "override", "note"}
<1> DEFINE me == handler[h]
<1>1. /\ handler \in [Handler -> HandlerState] /\ me \in HandlerState
      /\ me.pc = "commit" /\ me.event # 0
      /\ me.event \in 0 .. MaxEvents /\ me.seen \in {"none", "failed"} /\ me.data \in Payload
  BY ShapeFacts, HandlerFields DEF Shape, TypeOK, SyncCommit, RefundCommit
<1>2. Idle \in HandlerState /\ Idle.pc = "idle" /\ Idle.event = 0
  BY ConstantTypes
<1>3. CASE handler' = [handler EXCEPT ![h] = Idle]
  BY <1>1, <1>2, <1>3 DEF HandlerStepped
<1>4. CASE handler' # [handler EXCEPT ![h] = Idle]
  <2>1. PICK pc \in {"override", "note"} :
          /\ handler' = [handler EXCEPT ![h].pc = pc, ![h].row = NoRow, ![h].cycle = NoCycles]
          /\ pc = "override" => Recorded(h).kind # "refund"
    BY <1>4 DEF SyncCommit, RefundCommit
  <2> DEFINE new == [me EXCEPT !.pc = pc, !.row = NoRow, !.cycle = NoCycles]
  <2>2. handler' = [handler EXCEPT ![h] = new]
    BY <1>1, <2>1
  <2>3. /\ new \in HandlerState /\ new.pc = pc /\ new.event = me.event
        /\ new.data = me.data
    BY <1>1, ConstantTypes DEF HandlerState, HandlerPc
  <2> HIDE DEF new
  <2> QED
    BY <1>1, <2>1, <2>2, <2>3 DEF HandlerStepped
<1> QED
  BY <1>3, <1>4

-----------------------------------------------------------------------------
\* What commits do to rows and overrides

\* An override starts at another time.
LEMMA MovedOverride ==
  ASSUME override \in Seq(Override), NEW i \in 1 .. Len(override), NEW start \in CycleKey
  PROVE  /\ [override EXCEPT ![i].start = start] \in Seq(Override)
         /\ Len([override EXCEPT ![i].start = start]) = Len(override)
         /\ \A j \in 1 .. Len(override) :
              /\ [override EXCEPT ![i].start = start][j].revoked = override[j].revoked
              /\ [override EXCEPT ![i].start = start][j].start
                   = IF j = i THEN start ELSE override[j].start
<1> DEFINE new == [override[i] EXCEPT !.start = start]
<1>1. override[i] \in Override
  BY ElementOfSeq
<1>2. new \in Override /\ new.start = start /\ new.revoked = override[i].revoked
  BY <1>1 DEF Override
<1>3. [override EXCEPT ![i].start = start] = [override EXCEPT ![i] = new]
  OBVIOUS
<1> HIDE DEF new
<1>4. /\ [override EXCEPT ![i] = new] \in Seq(Override)
      /\ Len([override EXCEPT ![i] = new]) = Len(override)
      /\ \A j \in 1 .. Len(override) :
           [override EXCEPT ![i] = new][j] = IF j = i THEN new ELSE override[j]
  BY <1>2, ExceptSeq
<1> QED
  BY <1>2, <1>3, <1>4

\* A pending override is the only one that may move, and stays live.
LEMMA PendingMovedFacts ==
  ASSUME override \in Seq(Override), NEW s \in Subscription, NEW p \in Period
  PROVE  /\ PendingMoved(s, p) \in Seq(Override)
         /\ Len(PendingMoved(s, p)) = Len(override)
         /\ \A j \in 1 .. Len(override) :
              /\ PendingMoved(s, p)[j].revoked = override[j].revoked
              /\ PendingMoved(s, p)[j].start
                   = IF j = PendingOverride THEN <<s, p>> ELSE override[j].start
<1>1. /\ Len(override) \in Nat
      /\ PendingOverride = 0 \/ PendingOverride \in 1 .. Len(override)
  BY OverrideFacts
<1>2. <<s, p>> \in CycleKey /\ p # 0
  BY DEF CycleKey, Key, Period
<1>3. CASE PendingOverride = 0
  BY <1>1, <1>3 DEF PendingMoved
<1>4. CASE PendingOverride # 0
  <2>1. PendingMoved(s, p) = [override EXCEPT ![PendingOverride].start = <<s, p>>]
    BY <1>2, <1>4 DEF PendingMoved
  <2> DEFINE i == PendingOverride
             start == <<s, p>>
  <2>2. i \in 1 .. Len(override) /\ start \in CycleKey
    BY <1>1, <1>2, <1>4
  <2>3. PendingMoved(s, p) = [override EXCEPT ![i].start = start]
    BY <2>1
  <2> HIDE DEF i, start
  <2>4. /\ PendingMoved(s, p) \in Seq(Override) /\ Len(PendingMoved(s, p)) = Len(override)
        /\ \A j \in 1 .. Len(override) :
             /\ PendingMoved(s, p)[j].revoked = override[j].revoked
             /\ PendingMoved(s, p)[j].start = IF j = i THEN start ELSE override[j].start
    BY <2>2, <2>3, MovedOverride
  <2> QED
    BY <2>4 DEF i, start
<1> QED
  BY <1>3, <1>4

\* The row a sync writes is that of a subscription that was bought, with its data; a row
\* that was there stays there.
LEMMA RowWrites ==
  ASSUME Shape, NEW h \in Handler, handler[h].pc = "commit", NEW new \in Row,
         row' = [row EXCEPT ![Recorded(h).sub] = Merged(@, handler[h].row, new)],
         handler[h].row = NoRow => ~Written(Recorded(h).sub),
         \/ new.status # "none" /\ new.period \in Period
         \/ /\ Written(Recorded(h).sub)
            /\ new.status = handler[h].row.status /\ new.period = handler[h].row.period,
         UNCHANGED stripe
  PROVE  /\ row' \in [Subscription -> Row] /\ RowShape'
         /\ \A s \in Subscription : Written(s) => Written(s)'
         /\ row'[Recorded(h).sub] # NoRow
         /\ row'[Recorded(h).sub] = Merged(row[Recorded(h).sub], handler[h].row, new)
         /\ \A s \in Subscription \ {Recorded(h).sub} : row'[s] = row[s]
<1> DEFINE s == Recorded(h).sub
           me == handler[h]
           r == Merged(row[s], me.row, new)
<1>1. /\ me.event # 0 /\ s \in Subscription /\ Bought(s)
      /\ row[s] \in Row /\ me.row \in Row
  BY ShapeFacts, HandlerFields
<1>2. row \in [Subscription -> Row]
  BY DEF Shape, TypeOK
<1>3. /\ r \in Row
      /\ r.status = IF new.status # me.row.status THEN new.status ELSE row[s].status
      /\ r.period = IF new.period # me.row.period THEN new.period ELSE row[s].period
  BY <1>1, MergedFields
<1> HIDE DEF r
<1>4. row' = [row EXCEPT ![s] = r]
  BY DEF r
<1>5. /\ row' \in [Subscription -> Row] /\ row'[s] = r
      /\ \A t \in Subscription \ {s} : row'[t] = row[t]
  BY <1>1, <1>2, <1>3, <1>4
<1>6. r.status # "none" /\ r.period \in Period
  <2>1. CASE Written(s)
    <3>1. row[s].status # "none" /\ row[s].period \in Period
      BY <1>1, <2>1 DEF Shape, RowShape
    <3> QED
      BY <1>3, <3>1, <2>1
  <2>2. CASE ~Written(s)
    <3>1. me.row = NoRow
      BY <2>2 DEF Shape, HandlerShape, SoundHandler
    <3>2. new.status # "none" /\ new.period \in Period /\ 0 \notin Period
      BY <2>2 DEF Period
    <3> QED
      BY <1>3, <3>1, <3>2, ConstantTypes
  <2> QED
    BY <2>1, <2>2
<1>7. r # NoRow
  BY <1>6, ConstantTypes
<1>8. \A t \in Subscription : Written(t) => Written(t)'
  BY <1>5, <1>7 DEF Written
<1>9. RowShape'
  BY <1>1, <1>5, <1>6 DEF Shape, RowShape, Written, Bought
<1> QED
  BY <1>5, <1>7, <1>8, <1>9 DEF r, Written

\* A sync that commits the row it has computed.
SyncWrites(h) ==
  LET me == handler[h]
      s == Recorded(h).sub
      new == Synced(me.row, me.data, Recorded(h))
      k == <<s, me.data.period>>
      allowed == new.status \in Active /\ ~new.revoked IN
  /\ ~InsertCollides(h) /\ ~(allowed /\ CycleCollides(h, k))
  /\ row' = [row EXCEPT ![s] = Merged(@, me.row, new)] /\ latest' = s
  /\ cycle' = IF allowed THEN Opened(me.cycle, k) ELSE WithOpen(me.cycle, "closed")
  /\ override' = IF allowed THEN override ELSE PendingMoved(s, new.period)
  /\ stranded' = (stranded /\ allowed) /\ UNCHANGED superuser
  /\ overtaken' = (overtaken \/ me.data.asOf < applied[s])
  /\ applied' = [applied EXCEPT ![s] = me.data.asOf]
  /\ handler' = [handler EXCEPT ![h].pc = IF allowed THEN "override" ELSE "note",
                                ![h].row = NoRow, ![h].cycle = NoCycles]

LEMMA SyncCases ==
  ASSUME NEW h \in Handler, SyncCommit(h)
  PROVE  /\ SyncWrites(h) \/ UNCHANGED <<rowVars, overtaken, stranded, applied>>
         /\ handler[h].pc = "commit" /\ Recorded(h).kind # "refund"
         /\ overlapped' = (overlapped \/ Overlaps(h))
         /\ UNCHANGED <<stripeVars, answered, record, notice, budget, skipped>>
BY DEF SyncCommit, SyncWrites, WriteRow

\* The facts about a handler that is about to commit.
LEMMA CommitFacts ==
  ASSUME Shape, NEW h \in Handler, handler[h].pc = "commit"
  PROVE  /\ handler[h] \in HandlerState /\ handler[h].data \in Payload
         /\ handler[h].row \in Row /\ handler[h].cycle \in Cycles
         /\ handler[h].event \in 1 .. Len(log) /\ Recorded(h) \in Event
         /\ Recorded(h).sub \in Subscription /\ row[Recorded(h).sub] \in Row
         /\ Recorded(h).kind # "refund" => Known(handler[h].data)
         /\ Recorded(h).kind = "refund" => handler[h].row # NoRow
         /\ handler[h].row # NoRow => Written(Recorded(h).sub)
<1>1. handler[h].event # 0 /\ handler[h] \in HandlerState
  BY ShapeFacts
<1>2. SoundHandler(h)
  BY DEF Shape, HandlerShape
<1> QED
  BY <1>1, <1>2, ShapeFacts, HandlerFields DEF SoundHandler

LEMMA SyncWritten ==
  ASSUME Shape, NEW h \in Handler, SyncWrites(h), UNCHANGED stripeVars,
         handler[h].pc = "commit", Recorded(h).kind # "refund"
  PROVE  LET me == handler[h]
             s == Recorded(h).sub
             new == Synced(me.row, me.data, Recorded(h)) IN
         /\ new \in Row /\ new.status = me.data.status /\ new.period = me.data.period
         /\ new.period \in Period /\ new.status # "none"
         /\ row' \in [Subscription -> Row] /\ RowShape'
         /\ \A t \in Subscription : Written(t) => Written(t)'
         /\ row'[s] # NoRow /\ row'[s] = Merged(row[s], me.row, new)
         /\ \A t \in Subscription \ {s} : row'[t] = row[t]
         /\ cycle' \in Cycles /\ override' \in Seq(Override) /\ Len(override') = Len(override)
         /\ latest' = s /\ s \in Subscription
         /\ applied' \in [Subscription -> 0 .. MaxEvents] /\ overtaken' \in BOOLEAN
         /\ stranded' \in BOOLEAN
<1> DEFINE me == handler[h]
           s == Recorded(h).sub
           new == Synced(me.row, me.data, Recorded(h))
           k == <<s, me.data.period>>
           allowed == new.status \in Active /\ ~new.revoked
<1>1. /\ me.data \in Payload /\ me.row \in Row /\ me.cycle \in Cycles /\ Recorded(h) \in Event
      /\ s \in Subscription /\ Known(me.data)
  BY CommitFacts
<1>2. /\ new \in Row /\ new.status = me.data.status /\ new.period = me.data.period
      /\ new.status # "none" /\ new.period \in Period
  BY <1>1, SyncedFields DEF Known
<1>3. /\ (me.row = NoRow => ~Written(s))
      /\ row' = [row EXCEPT ![s] = Merged(@, me.row, new)] /\ latest' = s
      /\ cycle' = IF allowed THEN Opened(me.cycle, k) ELSE WithOpen(me.cycle, "closed")
      /\ override' = IF allowed THEN override ELSE PendingMoved(s, new.period)
      /\ stranded' = (stranded /\ allowed)
      /\ overtaken' = (overtaken \/ me.data.asOf < applied[s])
      /\ applied' = [applied EXCEPT ![s] = me.data.asOf]
  BY DEF SyncWrites, InsertCollides, Written
<1> HIDE DEF new
<1>4. /\ row' \in [Subscription -> Row] /\ RowShape'
      /\ \A t \in Subscription : Written(t) => Written(t)'
      /\ row'[s] # NoRow /\ row'[s] = Merged(row[s], me.row, new)
      /\ \A t \in Subscription \ {s} : row'[t] = row[t]
  <2>1. UNCHANGED stripe /\ me.pc = "commit"
    BY DEF stripeVars
  <2>2. me.row = NoRow => ~Written(s)
    BY <1>3
  <2>3. row' = [row EXCEPT ![s] = Merged(@, me.row, new)]
    BY <1>3
  <2>4. new \in Row /\ new.status # "none" /\ new.period \in Period
    BY <1>2
  <2> QED
    BY <2>1, <2>2, <2>3, <2>4, RowWrites
<1>5. cycle' \in Cycles
  <2>1. k \in CycleKey /\ cycle \in Cycles /\ "closed" \in CycleStatus
    BY <1>1, ShapeFacts DEF Known, CycleKey, Key, CycleStatus
  <2>2. Opened(me.cycle, k) \in Cycles /\ WithOpen(me.cycle, "closed") \in Cycles
    BY <1>1, <2>1, OpenedType, WithOpenType
  <2> QED
    BY <1>3, <2>2
<1>6. override' \in Seq(Override) /\ Len(override') = Len(override)
  BY <1>1, <1>2, <1>3, ShapeFacts, PendingMovedFacts
<1>7. /\ applied' \in [Subscription -> 0 .. MaxEvents] /\ overtaken' \in BOOLEAN
      /\ stranded' \in BOOLEAN
  <2>1. me.data.asOf \in 0 .. MaxEvents /\ applied \in [Subscription -> 0 .. MaxEvents]
    BY <1>1 DEF Payload, Shape, TypeOK
  <2> QED
    BY <1>1, <1>3, <2>1
<1> QED
  BY <1>1, <1>2, <1>3, <1>4, <1>5, <1>6, <1>7 DEF new

\* A refund: the row of its invoice is revoked with the open cycles.
LEMMA RefundWritten ==
  ASSUME Shape, NEW h \in Handler, RefundCommit(h)
  PROVE  LET me == handler[h]
             s == Recorded(h).sub IN
         /\ me.pc = "commit" /\ Recorded(h).kind = "refund" /\ me.row # NoRow
         /\ row' \in [Subscription -> Row] /\ RowShape'
         /\ \A t \in Subscription : Written(t) => Written(t)'
         /\ row'[s] = Merged(row[s], me.row, Refunded(me.row)) /\ Refunded(me.row) \in Row
         /\ \A t \in Subscription \ {s} : row'[t] = row[t]
         /\ cycle' = WithOpen(me.cycle, "revoked") /\ cycle' \in Cycles
         /\ latest' = s /\ s \in Subscription
         /\ overlapped' = (overlapped \/ Overlaps(h))
         /\ UNCHANGED <<stripeVars, answered, record, accessVars, notice, budget, skipped,
                        overtaken, stranded, applied>>
<1> DEFINE me == handler[h]
           s == Recorded(h).sub
           new == Refunded(me.row)
<1>1. me.pc = "commit" /\ Recorded(h).kind = "refund"
  BY DEF RefundCommit
<1>2. /\ me.row \in Row /\ me.cycle \in Cycles /\ me.row # NoRow /\ Written(s)
      /\ s \in Subscription
  BY <1>1, CommitFacts
<1>3. /\ new \in Row /\ new.status = me.row.status /\ new.period = me.row.period
  BY <1>2, RefundedFields
<1>4. /\ row' = [row EXCEPT ![s] = Merged(@, me.row, new)] /\ latest' = s
      /\ cycle' = WithOpen(me.cycle, "revoked")
      /\ overlapped' = (overlapped \/ Overlaps(h))
      /\ UNCHANGED <<stripeVars, answered, record, accessVars, notice, budget, skipped,
                     overtaken, stranded, applied>>
  BY DEF RefundCommit, WriteRow
<1> HIDE DEF new
<1>5. /\ row' \in [Subscription -> Row] /\ RowShape'
      /\ \A t \in Subscription : Written(t) => Written(t)'
      /\ row'[s] = Merged(row[s], me.row, new)
      /\ \A t \in Subscription \ {s} : row'[t] = row[t]
  BY <1>1, <1>2, <1>3, <1>4, RowWrites DEF stripeVars
<1>6. cycle' \in Cycles
  BY <1>2, <1>4, ShapeFacts, WithOpenType DEF CycleStatus
<1> QED
  BY <1>1, <1>2, <1>3, <1>4, <1>5, <1>6 DEF new

-----------------------------------------------------------------------------
\* Every step keeps the shape of the state

BillingShape == TypeOK /\ StripeShape /\ EventShape /\ RowShape /\ HandlerShape
RowsStay == \A s \in Subscription : Written(s) => Written(s)'

\* The events handlers work on stay what they are while Stripe goes on.
LEMMA RecordedStays ==
  ASSUME Shape, StripeMove, UNCHANGED handler
  PROVE  \A h \in Handler : handler[h].event # 0 => Recorded(h)' = Recorded(h)
<1> SUFFICES ASSUME NEW h \in Handler, handler[h].event # 0
             PROVE  Recorded(h)' = Recorded(h)
  OBVIOUS
<1>1. handler[h].event \in 1 .. Len(log)
  BY ShapeFacts
<1> QED
  BY <1>1 DEF Recorded, StripeMove

LEMMA StripeKeepsShape ==
  ASSUME Shape, StripeMove, UNCHANGED serverVars
  PROVE  BillingShape' /\ RowsStay
<1>1. /\ StripeInv' /\ Len(log) \in Nat /\ Len(log') \in Nat
      /\ \A s \in Subscription : Bought(s) => Bought(s)'
  BY ShapeFacts, StripeKept
<1>2. Len(log) <= Len(log')
  BY DEF StripeMove
<1>3. UNCHANGED <<answered, record, row, latest, cycle, override, superuser, notice, handler,
                  budget, skipped, overlapped, overtaken, stranded, applied>>
  BY DEF serverVars, rowVars, accessVars, historyVars
<1>4. TypeOK'
  <2>1. 1 .. Len(log) \subseteq 1 .. Len(log') /\ 0 .. Len(log) \subseteq 0 .. Len(log')
    BY <1>1, <1>2
  <2>2. TypeOK
    BY DEF Shape
  <2>3. StripeType'
    BY <1>1 DEF StripeInv
  <2> QED
    BY <1>3, <2>1, <2>2, <2>3 DEF TypeOK, StripeType
<1>5. RowShape' /\ RowsStay
  BY <1>1, <1>3 DEF Shape, RowShape, RowsStay, Written
<1>6. HandlerShape'
  <2> SUFFICES ASSUME NEW h \in Handler, handler'[h].pc # "idle"
               PROVE  SoundHandler(h)'
    BY DEF HandlerShape, SoundHandler
  <2>1. handler[h].event # 0 /\ Recorded(h)' = Recorded(h)
    BY <1>3, ShapeFacts, RecordedStays
  <2>2. SoundHandler(h)
    BY DEF Shape, HandlerShape
  <2> QED
    BY <1>3, <2>1, <2>2 DEF SoundHandler, Written
<1> QED
  BY <1>1, <1>4, <1>5, <1>6 DEF BillingShape, StripeInv

\* The summary opens the cycle requests are charged to.
LEMMA SummaryFacts ==
  ASSUME Shape
  PROVE  /\ SummaryCycles \in Cycles
         /\ \A k \in CycleKey : SummaryCycles[k] = "open" =>
              \/ cycle[k] = "open"
              \/ IsManaged /\ k = Managed
              \/ HasAccess(latest) /\ k = <<latest, row[latest].period>>
         /\ \A k \in CycleKey : SummaryCycles[k] # cycle[k] =>
              \/ IsManaged /\ k = Managed
              \/ /\ ~IsManaged /\ HasAccess(latest)
                 /\ k = <<latest, row[latest].period>> \/ cycle[k] = "open"
<1>1. cycle \in Cycles /\ Managed \in CycleKey /\ "open" \in CycleStatus
  BY ShapeFacts, ConstantTypes DEF CycleStatus
<1>2. CASE IsManaged
  <2>1. SummaryCycles = [cycle EXCEPT ![Managed] = "open"]
    BY <1>2 DEF SummaryCycles
  <2> QED
    BY <1>1, <1>2, <2>1 DEF Cycles
<1>3. CASE ~IsManaged /\ HasAccess(latest)
  <2> DEFINE k == <<latest, row[latest].period>>
  <2>1. latest \in Subscription /\ row[latest] \in Row
    BY DEF Shape, TypeOK
  <2>2. row[latest].status \in Active
    BY <1>3 DEF HasAccess
  <2>3. row[latest] # NoRow
    BY <2>2, ConstantTypes DEF Active
  <2>4. k \in CycleKey
    BY <2>1, <2>3 DEF Shape, RowShape, Written, CycleKey, Key
  <2>5. SummaryCycles = Opened(cycle, k)
    BY <1>3 DEF SummaryCycles
  <2> HIDE DEF k
  <2>6. /\ Opened(cycle, k) \in Cycles
        /\ \A j \in CycleKey : Opened(cycle, k)[j] =
             IF cycle[k] = "none"
               THEN IF j = k THEN "open" ELSE IF cycle[j] = "open" THEN "closed" ELSE cycle[j]
             ELSE IF cycle[k] # "open" /\ j = k THEN "open" ELSE cycle[j]
    BY <1>1, <2>4, OpenedType
  <2> QED
    BY <1>3, <2>5, <2>6 DEF k
<1>4. CASE ~IsManaged /\ ~HasAccess(latest)
  <2>1. SummaryCycles = cycle
    BY <1>4 DEF SummaryCycles
  <2> QED
    BY <1>1, <2>1
<1> QED
  BY <1>2, <1>3, <1>4

\* Rows that differ in the flag only.
RowsAlike ==
  \A s \in Subscription :
    /\ row'[s].status = row[s].status /\ row'[s].period = row[s].period
    /\ row'[s].invoice = row[s].invoice /\ row'[s].invoiceStatus = row[s].invoiceStatus
    /\ row'[s].revoked = row[s].revoked
    /\ Written(s)' <=> Written(s)

\* A step that leaves Stripe and handlers alone, and rows but for the flag.
LEMMA AlikeKeepsShape ==
  ASSUME Shape, UNCHANGED <<stripeVars, answered, record, handler, budget, skipped,
                            overtaken, stranded, applied>>,
         row' \in [Subscription -> Row], RowsAlike,
         latest' \in Subscription, cycle' \in Cycles, override' \in Seq(Override),
         superuser' \in BOOLEAN, notice' \in [Key -> Notice], overlapped' \in BOOLEAN
  PROVE  BillingShape' /\ RowsStay
<1>1. UNCHANGED <<stripe, log, ended, offered>>
  BY DEF stripeVars
<1>2. TypeOK'
  BY <1>1 DEF Shape, TypeOK, Cycles
<1>3. StripeShape' /\ EventShape' /\ RowShape' /\ RowsStay
  BY <1>1 DEF Shape, StripeShape, EventShape, RowShape, RowsStay, Bought, RowsAlike
<1>4. HandlerShape'
  <2> SUFFICES ASSUME NEW h \in Handler, handler[h].event # 0
               PROVE  SoundHandler(h)'
    BY ShapeFacts DEF HandlerShape, SoundHandler
  <2>1. Recorded(h).sub \in Subscription /\ Recorded(h)' = Recorded(h)
    BY <1>1, ShapeFacts DEF Recorded
  <2>2. SoundHandler(h)
    BY DEF Shape, HandlerShape
  <2> QED
    BY <2>1, <2>2 DEF SoundHandler, RowsAlike
<1> QED
  BY <1>2, <1>3, <1>4 DEF BillingShape

LEMMA CyclesKeepShape ==
  ASSUME Shape, UNCHANGED <<stripeVars, answered, record, row, handler, budget, skipped,
                            overtaken, stranded, applied>>,
         latest' \in Subscription, cycle' \in Cycles, override' \in Seq(Override),
         superuser' \in BOOLEAN, notice' \in [Key -> Notice], overlapped' \in BOOLEAN
  PROVE  BillingShape' /\ RowsStay
<1>1. RowsAlike /\ row' \in [Subscription -> Row]
  BY DEF RowsAlike, Written, Shape, TypeOK
<1> HIDE DEF stripeVars
<1> QED
  BY <1>1, AlikeKeepsShape

\* A step of a handler that leaves the rows alone.
LEMMA ReadsKeepShape ==
  ASSUME Shape, NEW h \in Handler,
         \/ \E e \in EventNo : Deliver(h, e)
         \/ Register(h) \/ Fetch(h) \/ Load(h) \/ FetchFails(h) \/ Note(h) \/ Finish(h) \/ Abort(h)
  PROVE  /\ BillingShape' /\ RowsStay
         /\ UNCHANGED <<stripeVars, rowVars, overlapped, overtaken, applied>>
<1>1. HandlerStepped(h) /\ handler' = [handler EXCEPT ![h] = handler'[h]]
  BY ReadSteps
<1>2. UNCHANGED <<stripeVars, rowVars, overlapped, overtaken, applied>>
  BY DEF Deliver, Register, Fetch, Load, FetchFails, Note, Finish, Abort, historyVars
<1>3. /\ UNCHANGED <<stripe, log, ended, offered>>
      /\ UNCHANGED <<row, latest, cycle, override, superuser>> /\ stranded' \in BOOLEAN
  <2>1. stranded' \in {stranded, stranded \/ handler[h].pc = "override"}
    BY DEF Deliver, Register, Fetch, Load, FetchFails, Note, Finish, Abort, historyVars
  <2> QED
    BY <1>2, <2>1 DEF stripeVars, rowVars, accessVars, Shape, TypeOK
<1>4. RowsStay /\ StripeShape' /\ EventShape' /\ RowShape'
  BY <1>3 DEF Shape, StripeShape, EventShape, RowShape, RowsStay, Written, Bought
<1>5. HandlerShape'
  BY <1>1, <1>2, <1>4, SteppedSound DEF RowsStay
<1>6. /\ handler' \in [Handler -> HandlerState]
      /\ \A g \in Handler : handler'[g].event \in 0 .. Len(log')
                            /\ (handler'[g].event = 0 <=> handler'[g].pc = "idle")
  BY <1>1, <1>2, SteppedTypes
<1>7. \A e \in 1 .. Len(log) : e \in EventNo
  BY ShapeFacts, StripeAssumption DEF StripeInv, StripeType, EventNo
<1>8. handler[h].pc # "idle" => handler[h].event \in 1 .. Len(log)
  BY ShapeFacts
<1>9. /\ answered' \subseteq 1 .. Len(log) /\ skipped' \subseteq 1 .. Len(log)
      /\ record' \in [EventNo -> {"none", "pending", "processed", "failed"}]
      /\ notice' \in [Key -> Notice]
      /\ budget' \in [aborts : 0 .. MaxAborts, fetches : 0 .. MaxFetchFails]
  <2>1. /\ answered \subseteq 1 .. Len(log) /\ skipped \subseteq 1 .. Len(log)
        /\ record \in [EventNo -> {"none", "pending", "processed", "failed"}]
        /\ notice \in [Key -> Notice]
        /\ budget \in [aborts : 0 .. MaxAborts, fetches : 0 .. MaxFetchFails]
        /\ MaxAborts \in Nat /\ MaxFetchFails \in Nat
    BY StripeAssumption DEF Shape, TypeOK
  <2>2. CASE \E e \in EventNo : Deliver(h, e)
    BY <2>1, <2>2 DEF Deliver
  <2>3. CASE Register(h)
    BY <1>7, <1>8, <2>1, <2>3 DEF Register, historyVars
  <2>4. CASE Fetch(h) \/ Load(h)
    BY <2>1, <2>4 DEF Fetch, Load, historyVars
  <2>5. CASE FetchFails(h)
    <3>1. /\ budget.fetches > 0 /\ budget' = [budget EXCEPT !.fetches = budget.fetches - 1]
          /\ record' = [record EXCEPT ![handler[h].event] = "failed"]
          /\ UNCHANGED <<answered, notice, skipped>>
      BY <2>5 DEF FetchFails, historyVars
    <3>2. budget' \in [aborts : 0 .. MaxAborts, fetches : 0 .. MaxFetchFails]
      BY <2>1, <3>1
    <3>3. record' \in [EventNo -> {"none", "pending", "processed", "failed"}]
      BY <2>1, <3>1
    <3> QED
      BY <2>1, <3>1, <3>2, <3>3
  <2>6. CASE Abort(h)
    <3>1. /\ budget.aborts > 0 /\ budget' = [budget EXCEPT !.aborts = budget.aborts - 1]
          /\ skipped' = skipped \cup {handler[h].event} /\ handler[h].pc # "idle"
          /\ UNCHANGED <<answered, notice, record>>
      BY <2>6 DEF Abort
    <3> QED
      BY <1>8, <2>1, <3>1
  <2>7. CASE Note(h)
    <3>1. UNCHANGED <<answered, record, budget, skipped>> /\ handler[h].pc = "note"
      BY <2>7 DEF Note, historyVars
    <3> DEFINE s == Recorded(h).sub
               p == handler[h].data.period
    <3>2. /\ s \in Subscription /\ SoundHandler(h) /\ handler[h].event \in 1 .. Len(log)
          /\ handler[h].event # 0
      BY <1>8, <3>1, ShapeFacts DEF Shape, HandlerShape
    <3>3. notice' \in [Key -> Notice]
      <4>1. CASE Recorded(h).kind = "refund"
        <5>1. <<s, Recorded(h).invoice>> \in Key
          BY <3>2, <4>1 DEF Shape, EventShape, Recorded, Key
        <5>2. notice' = [notice EXCEPT ![<<s, Recorded(h).invoice>>].revoked = TRUE]
          BY <2>7, <4>1 DEF Note
        <5> QED
          BY <2>1, <5>1, <5>2 DEF Notice
      <4>2. CASE Recorded(h).kind # "refund" /\ handler[h].data.status = "paused"
        <5>1. <<s, p>> \in Key
          BY <3>1, <3>2, <4>2 DEF SoundHandler, Known, Key
        <5>2. notice' = Paused(s, p)
          BY <2>7, <4>2 DEF Note
        <5> QED
          BY <2>1, <5>1, <5>2 DEF Paused, Notice
      <4>3. CASE Recorded(h).kind # "refund" /\ handler[h].data.status # "paused"
        <5>1. notice' = Dismissed(s)
          BY <2>7, <4>3 DEF Note
        <5> QED
          BY <2>1, <5>1 DEF Dismissed, Notice
      <4> QED
        BY <4>1, <4>2, <4>3
    <3> QED
      BY <2>1, <3>1, <3>3
  <2>8. CASE Finish(h)
    <3>1. /\ record' = [record EXCEPT ![handler[h].event] = "processed"]
          /\ answered' = answered \cup {handler[h].event} /\ handler[h].pc # "idle"
          /\ UNCHANGED <<budget, notice, skipped>>
      BY <2>8 DEF Finish, historyVars
    <3> QED
      BY <1>7, <1>8, <2>1, <3>1
  <2> QED
    BY <2>2, <2>3, <2>4, <2>5, <2>6, <2>7, <2>8
<1>10. TypeOK'
  BY <1>2, <1>3, <1>6, <1>9 DEF Shape, TypeOK
<1> QED
  BY <1>2, <1>4, <1>5, <1>10 DEF BillingShape

\* The override that waits is moved, or there is nothing to move.
LEMMA MoveFacts ==
  ASSUME Shape, NEW h \in Handler, MoveOverride(h)
  PROVE  LET s == Recorded(h).sub IN
         /\ s \in Subscription /\ Bought(s)
         /\ \/ row[s].period \in Period /\ override' = PendingMoved(s, row[s].period)
            \/ row[s].period = 0 /\ ~Written(s) /\ UNCHANGED override
         /\ override' \in Seq(Override) /\ Len(override') = Len(override)
         /\ UNCHANGED <<stripeVars, answered, record, row, latest, cycle, superuser, notice,
                        budget, skipped, overlapped, overtaken, applied>>
         /\ stranded' = FALSE
<1> DEFINE s == Recorded(h).sub
<1>1. handler[h].event # 0 /\ s \in Subscription /\ Bought(s)
  BY MoveSteps, ShapeFacts
<1>2. override' = PendingMoved(s, row[s].period)
  BY DEF MoveOverride
<1>3. CASE row[s].period \in Period
  <2> DEFINE p == row[s].period
  <2>1. override \in Seq(Override)
    BY ShapeFacts
  <2>2. PendingMoved(s, p) \in Seq(Override) /\ Len(PendingMoved(s, p)) = Len(override)
    BY <1>1, <1>3, <2>1, PendingMovedFacts
  <2>3. override' = PendingMoved(s, p)
    BY <1>2
  <2> QED
    BY <1>1, <1>3, <2>2, <2>3 DEF MoveOverride
<1>4. CASE row[s].period \notin Period
  <2>1. row[s] = NoRow /\ row[s].period = 0
    BY <1>1, <1>4, ConstantTypes DEF Shape, RowShape, Written
  <2>2. UNCHANGED override
    BY <1>2, <2>1 DEF PendingMoved
  <2> QED
    BY <1>1, <2>1, <2>2, ShapeFacts DEF MoveOverride, Written
<1> QED
  BY <1>3, <1>4

LEMMA MoveKeepsShape ==
  ASSUME Shape, NEW h \in Handler, MoveOverride(h)
  PROVE  BillingShape' /\ RowsStay
<1>1. HandlerStepped(h) /\ handler' = [handler EXCEPT ![h] = handler'[h]]
  BY MoveSteps
<1>2. /\ UNCHANGED <<stripe, log, ended, offered, answered, record, row, latest, cycle,
                     superuser, notice, budget, skipped, overlapped, overtaken, applied>>
      /\ UNCHANGED stripeVars
      /\ override' \in Seq(Override) /\ stranded' \in BOOLEAN
  BY MoveFacts DEF stripeVars
<1>3. RowsStay /\ StripeShape' /\ EventShape' /\ RowShape'
  BY <1>2 DEF Shape, StripeShape, EventShape, RowShape, RowsStay, Written, Bought
<1>4. HandlerShape'
  BY <1>1, <1>2, <1>3, SteppedSound DEF RowsStay
<1>5. /\ handler' \in [Handler -> HandlerState]
      /\ \A g \in Handler : handler'[g].event \in 0 .. Len(log')
                            /\ (handler'[g].event = 0 <=> handler'[g].pc = "idle")
  BY <1>1, <1>2, SteppedTypes
<1>6. TypeOK'
  BY <1>2, <1>5 DEF Shape, TypeOK
<1> QED
  BY <1>3, <1>4, <1>6 DEF BillingShape

\* What leaves rows and cycles alone.
ReadStep(h) ==
  \/ \E e \in EventNo : Deliver(h, e)
  \/ Register(h) \/ Fetch(h) \/ Load(h) \/ FetchFails(h) \/ MoveOverride(h) \/ Note(h)
  \/ Finish(h) \/ Abort(h)

LEMMA ReadFacts ==
  ASSUME Shape, NEW h \in Handler, ReadStep(h)
  PROVE  /\ HandlerStepped(h) /\ handler' = [handler EXCEPT ![h] = handler'[h]]
         /\ BillingShape' /\ RowsStay /\ UNCHANGED stripeVars
         /\ UNCHANGED <<row, latest, cycle, superuser, overlapped, overtaken, applied>>
         /\ MoveOverride(h) \/ UNCHANGED override
<1>1. CASE MoveOverride(h)
  BY <1>1, MoveSteps, MoveFacts, MoveKeepsShape
<1>2. CASE ~MoveOverride(h)
  <2>1. \/ \E e \in EventNo : Deliver(h, e)
        \/ Register(h) \/ Fetch(h) \/ Load(h) \/ FetchFails(h) \/ Note(h) \/ Finish(h)
        \/ Abort(h)
    BY <1>2 DEF ReadStep
  <2> QED
    BY <2>1, ReadSteps, ReadsKeepShape DEF rowVars, accessVars
<1> QED
  BY <1>1, <1>2

\* A commit of a handler.
LEMMA CommitsKeepShape ==
  ASSUME Shape, NEW h \in Handler, SyncCommit(h) \/ RefundCommit(h)
  PROVE  /\ BillingShape' /\ RowsStay
<1>1. HandlerStepped(h) /\ handler' = [handler EXCEPT ![h] = handler'[h]]
  BY CommitSteps
<1>2. UNCHANGED <<stripeVars, answered, record, notice, budget, skipped>>
      /\ overlapped' = (overlapped \/ Overlaps(h))
  BY DEF SyncCommit, RefundCommit
<1>3. UNCHANGED <<stripe, log, ended, offered>>
  BY <1>2 DEF stripeVars
<1>4. /\ row' \in [Subscription -> Row] /\ RowShape' /\ RowsStay
      /\ latest' \in Subscription /\ cycle' \in Cycles /\ override' \in Seq(Override)
      /\ superuser' \in BOOLEAN /\ overtaken' \in BOOLEAN /\ stranded' \in BOOLEAN
      /\ applied' \in [Subscription -> 0 .. MaxEvents]
  <2>1. CASE SyncCommit(h) /\ SyncWrites(h)
    <3>1. UNCHANGED superuser /\ handler[h].pc = "commit" /\ Recorded(h).kind # "refund"
      BY <2>1, SyncCases DEF SyncWrites
    <3> QED
      BY <1>2, <2>1, <3>1, SyncWritten DEF RowsStay, Shape, TypeOK
  <2>2. CASE SyncCommit(h) /\ ~SyncWrites(h)
    <3>1. UNCHANGED <<row, latest, cycle, override, superuser, overtaken, stranded, applied>>
      BY <2>2, SyncCases DEF rowVars, accessVars
    <3>2. RowShape' /\ RowsStay
      BY <1>3, <3>1 DEF Shape, RowShape, RowsStay, Written, Bought
    <3> QED
      BY <3>1, <3>2 DEF Shape, TypeOK, Cycles
  <2>3. CASE RefundCommit(h)
    <3>1. UNCHANGED <<override, superuser, overtaken, stranded, applied>>
      BY <2>3 DEF RefundCommit, accessVars
    <3> QED
      BY <2>3, <3>1, RefundWritten DEF RowsStay, Shape, TypeOK
  <2> QED
    BY <2>1, <2>2, <2>3
<1>5. StripeShape' /\ EventShape'
  BY <1>3 DEF Shape, StripeShape, EventShape, Bought
<1>6. HandlerShape'
  BY <1>1, <1>2, <1>4, SteppedSound DEF RowsStay
<1>7. /\ handler' \in [Handler -> HandlerState]
      /\ \A g \in Handler : handler'[g].event \in 0 .. Len(log')
                            /\ (handler'[g].event = 0 <=> handler'[g].pc = "idle")
  BY <1>1, <1>2, SteppedTypes
<1>8. overlapped' \in BOOLEAN
  BY <1>2 DEF Shape, TypeOK, Overlaps
<1>9. TypeOK'
  BY <1>2, <1>3, <1>4, <1>7, <1>8 DEF Shape, TypeOK, Cycles
<1> QED
  BY <1>4, <1>5, <1>6, <1>9 DEF BillingShape

LEMMA BillingKeepsShape ==
  ASSUME Shape, Next
  PROVE  BillingShape' /\ RowsStay
<1>1. CASE StripeStep
  BY <1>1, ShapeFacts, StripeStepMove, StripeKeepsShape
<1>2. ASSUME NEW h \in Handler,
             \/ \E e \in EventNo : Deliver(h, e)
             \/ HandlerStep(h) \/ FetchFails(h) \/ Abort(h)
      PROVE  BillingShape' /\ RowsStay
  BY <1>2, ReadFacts, CommitsKeepShape DEF HandlerStep, ReadStep
<1>3. CASE ReadSummary
  <2>1. /\ UNCHANGED <<stripeVars, answered, record, row, latest, override, superuser, notice,
                       handler, budget, skipped, overtaken, stranded, applied>>
        /\ cycle' = SummaryCycles /\ overlapped' \in BOOLEAN
    BY <1>3 DEF ReadSummary, Summarizes, accessVars, Shape, TypeOK, Overlaps
  <2>2. /\ latest' \in Subscription /\ override' \in Seq(Override) /\ superuser' \in BOOLEAN
        /\ notice' \in [Key -> Notice]
    BY <2>1 DEF Shape, TypeOK
  <2> HIDE DEF stripeVars
  <2> QED
    BY <2>1, <2>2, SummaryFacts, CyclesKeepShape
<1>4. ASSUME NEW s \in Subscription, OpenCheckout(s)
      PROVE  BillingShape' /\ RowsStay
  <2>1. UNCHANGED <<stripe, log, ended>> /\ UNCHANGED serverVars
    BY <1>4 DEF OpenCheckout
  <2>2. offered' \in [Subscription -> {"none", "completed"} \cup Active]
    BY <1>4 DEF OpenCheckout, Shape, TypeOK, Active
  <2>3. StripeInv /\ ended \subseteq ended' /\ ended' \subseteq Key
    BY <2>1, ShapeFacts DEF StripeInv, StripeType
  <2>4. StripeMove
    BY <2>1, <2>2, <2>3, StripeStill
  <2> QED
    BY <2>1, <2>4, StripeKeepsShape
<1>5. ASSUME NEW k \in Key, DismissNotice(k)
      PROVE  BillingShape' /\ RowsStay
  <2>1. /\ UNCHANGED <<stripeVars, answered, record, row, latest, cycle, override, superuser,
                       handler, budget, skipped, overlapped, overtaken, stranded, applied>>
        /\ notice' = [notice EXCEPT ![k].paused = "dismissed"]
    BY <1>5 DEF DismissNotice, rowVars, accessVars, historyVars
  <2>2. /\ latest' \in Subscription /\ override' \in Seq(Override) /\ superuser' \in BOOLEAN
        /\ cycle' \in Cycles /\ overlapped' \in BOOLEAN
    BY <2>1 DEF Shape, TypeOK, Cycles
  <2>3. notice' \in [Key -> Notice]
    BY <2>1 DEF Shape, TypeOK, Notice
  <2> HIDE DEF stripeVars
  <2> QED
    BY <2>1, <2>2, <2>3, CyclesKeepShape
<1> QED
  BY <1>1, <1>2, <1>3, <1>4, <1>5 DEF Next

-----------------------------------------------------------------------------
\* Requests of administrators

LEMMA RequestFields ==
  ASSUME NEW me \in RequestState
  PROVE  /\ me.pc \in RequestPc /\ me.rank \in Rank \cup {"none"}
         /\ me.profile \in Profile \cup {"none"} /\ me.active \in Nat /\ me.pending \in Nat
         /\ me.sub \in Subscription /\ me.read \in Row /\ me.asked \in BOOLEAN
         /\ me.cancel \in BOOLEAN /\ me.after \in {"profile", "rank"}
BY DEF RequestState

LEMMA CreatedFacts ==
  ASSUME override \in Seq(Override), NEW start \in CycleKey
  PROVE  /\ Created(start) \in Seq(Override) /\ Len(Created(start)) = Len(override) + 1
         /\ \A j \in 1 .. Len(override) : Created(start)[j] = override[j]
         /\ Created(start)[Len(override) + 1].revoked = FALSE
         /\ Created(start)[Len(override) + 1].start = start
<1> DEFINE new == [start |-> start, revoked |-> FALSE]
<1>1. new \in Override /\ new.revoked = FALSE /\ new.start = start
  BY DEF Override
<1> HIDE DEF new
<1>2. Created(start) = Append(override, new)
  BY DEF Created, new
<1>3. Len(override) \in Nat
  BY LenProperties
<1>4. /\ Append(override, new) \in Seq(Override)
      /\ Len(Append(override, new)) = Len(override) + 1
      /\ \A j \in 1 .. Len(override) : Append(override, new)[j] = override[j]
      /\ Append(override, new)[Len(override) + 1] = new
  BY <1>1, AppendProperties
<1> QED
  BY <1>1, <1>2, <1>4

\* An ambassador gets at most one override more, and no live one less.
LEMMA GrantedFacts ==
  ASSUME override \in Seq(Override), NEW me \in RequestState,
         me.asked => me.read.period \in Period
  PROVE  /\ Granted(me) \in Seq(Override)
         /\ Len(Granted(me)) \in {Len(override), Len(override) + 1}
         /\ \A j \in 1 .. Len(override) : Granted(me)[j].revoked = override[j].revoked
         /\ Len(Granted(me)) # Len(override) =>
              /\ ~Granted(me)[Len(override) + 1].revoked
              /\ me.asked => /\ PendingOverride = 0
                             /\ Granted(me)[Len(override) + 1].start = <<me.sub, me.read.period>>
              /\ ~me.asked => Granted(me)[Len(override) + 1].start = Managed
         /\ \A j \in 1 .. Len(override) : Granted(me)[j].start
              = IF me.asked /\ j = PendingOverride THEN <<me.sub, me.read.period>>
                ELSE override[j].start
<1>1. /\ Len(override) \in Nat
      /\ PendingOverride = 0 \/ PendingOverride \in 1 .. Len(override)
  BY OverrideFacts
<1>2. CASE me.asked /\ PendingOverride # 0
  <2> DEFINE i == PendingOverride
             start == <<me.sub, me.read.period>>
  <2>1. i \in 1 .. Len(override) /\ start \in CycleKey
    BY <1>1, <1>2, RequestFields DEF CycleKey, Key
  <2>2. Granted(me) = [override EXCEPT ![i].start = start]
    BY <1>2 DEF Granted, Upserted
  <2> HIDE DEF i, start
  <2>3. /\ Granted(me) \in Seq(Override) /\ Len(Granted(me)) = Len(override)
        /\ \A j \in 1 .. Len(override) :
             /\ Granted(me)[j].revoked = override[j].revoked
             /\ Granted(me)[j].start = IF j = i THEN start ELSE override[j].start
    BY <2>1, <2>2, MovedOverride
  <2> QED
    BY <1>2, <2>3 DEF i, start
<1>3. CASE me.asked /\ PendingOverride = 0
  <2> DEFINE start == <<me.sub, me.read.period>>
  <2>1. start \in CycleKey
    BY <1>3, RequestFields DEF CycleKey, Key
  <2>2. Granted(me) = Created(start)
    BY <1>3 DEF Granted, Upserted
  <2> HIDE DEF start
  <2>0. /\ Created(start) \in Seq(Override) /\ Len(Created(start)) = Len(override) + 1
        /\ \A j \in 1 .. Len(override) : Created(start)[j] = override[j]
        /\ Created(start)[Len(override) + 1].revoked = FALSE
        /\ Created(start)[Len(override) + 1].start = start
    BY <2>1, CreatedFacts
  <2>3. /\ Granted(me) \in Seq(Override) /\ Len(Granted(me)) = Len(override) + 1
        /\ \A j \in 1 .. Len(override) : Granted(me)[j] = override[j]
        /\ Granted(me)[Len(override) + 1].revoked = FALSE
        /\ Granted(me)[Len(override) + 1].start = start
    BY <2>0, <2>2
  <2>4. \A j \in 1 .. Len(override) : j # PendingOverride
    BY <1>1, <1>3
  <2> QED
    BY <1>1, <1>3, <2>3, <2>4 DEF start
<1>4. CASE ~me.asked /\ me.active = 0
  <2>1. Granted(me) = Created(Managed)
    BY <1>4 DEF Granted
  <2>2. /\ Granted(me) \in Seq(Override) /\ Len(Granted(me)) = Len(override) + 1
        /\ \A j \in 1 .. Len(override) : Granted(me)[j] = override[j]
        /\ Granted(me)[Len(override) + 1].revoked = FALSE
        /\ Granted(me)[Len(override) + 1].start = Managed
    BY <2>1, CreatedFacts, ConstantTypes
  <2> QED
    BY <1>1, <1>4, <2>2
<1>5. CASE ~me.asked /\ me.active # 0
  BY <1>1, <1>5 DEF Granted
<1> QED
  BY <1>2, <1>3, <1>4, <1>5, RequestFields

LEMMA SameInterval ==
  ASSUME NEW m \in Nat, NEW n \in Nat, 1 .. m = 1 .. n
  PROVE  m = n
<1>1. m >= 1 => m \in 1 .. n
  OBVIOUS
<1>2. n >= 1 => n \in 1 .. m
  OBVIOUS
<1> QED
  BY <1>1, <1>2

LEMMA WithdrawnFacts ==
  ASSUME override \in Seq(Override), NEW me \in RequestState
  PROVE  /\ Withdrawn(me) \in Seq(Override) /\ Len(Withdrawn(me)) = Len(override)
         /\ \A j \in 1 .. Len(override) :
              /\ Withdrawn(me)[j].start = override[j].start
              /\ Withdrawn(me)[j].revoked
                   = (override[j].revoked \/ j \in {me.active, me.pending})
<1> DEFINE gone == {me.active, me.pending}
<1>1. Len(override) \in Nat /\ DOMAIN override = 1 .. Len(override)
  BY LenProperties
<1>2. \A j \in 1 .. Len(override) : override[j] \in Override
  BY ElementOfSeq
<1> DEFINE With(j) == [override[j] EXCEPT !.revoked = override[j].revoked \/ j \in gone]
<1>3. Withdrawn(me) = [j \in 1 .. Len(override) |-> With(j)]
  BY <1>1 DEF Withdrawn
<1> HIDE DEF gone
<1>4. \A j \in 1 .. Len(override) :
        /\ With(j) \in Override /\ With(j).start = override[j].start
        /\ With(j).revoked = (override[j].revoked \/ j \in gone)
  BY <1>2 DEF Override
<1> HIDE DEF With
<1>5. Withdrawn(me) \in [1 .. Len(override) -> Override]
  BY <1>3, <1>4
<1>6. Withdrawn(me) \in Seq(Override) /\ Len(Withdrawn(me)) = Len(override)
  <2>1. Withdrawn(me) \in Seq(Override)
    BY <1>1, <1>5, SeqDef
  <2>2. DOMAIN Withdrawn(me) = 1 .. Len(Withdrawn(me)) /\ Len(Withdrawn(me)) \in Nat
    BY <2>1, LenProperties
  <2>3. DOMAIN Withdrawn(me) = 1 .. Len(override)
    BY <1>5
  <2> QED
    BY <1>1, <2>1, <2>2, <2>3, SameInterval
<1>7. \A j \in 1 .. Len(override) : Withdrawn(me)[j] = With(j)
  BY <1>3
<1>8. \A j \in 1 .. Len(override) : Withdrawn(me)[j].start = override[j].start
  BY <1>4, <1>7
<1>9. \A j \in 1 .. Len(override) :
        Withdrawn(me)[j].revoked = (override[j].revoked \/ j \in gone)
  BY <1>4, <1>7, Zenon
<1> QED
  BY <1>6, <1>8, <1>9 DEF gone

\* Writing the flag.
LEMMA CancelWritten ==
  ASSUME Shape, NEW a \in Admin, request[a].asked => Written(request[a].sub),
         WriteCancel(request[a])
  PROVE  row' \in [Subscription -> Row] /\ RowsAlike /\ latest' \in Subscription
<1> DEFINE me == request[a]
           s == me.sub
           cancel == IF me.read.cancel # me.cancel THEN me.cancel ELSE row[s].cancel
           new == [row[s] EXCEPT !.cancel = cancel]
<1>1. /\ row \in [Subscription -> Row] /\ latest \in Subscription
      /\ me \in RequestState
  BY ShapeFacts DEF Shape, TypeOK
<1>2. CASE ~me.asked
  BY <1>1, <1>2 DEF WriteCancel, RowsAlike, Written
<1>3. CASE me.asked
  <2>1. s \in Subscription /\ row[s] \in Row /\ me.cancel \in BOOLEAN /\ Written(s)
    BY <1>1, <1>3, RequestFields
  <2>2. cancel \in BOOLEAN
    BY <2>1, RowFields
  <2>3. row' = [row EXCEPT ![s].cancel = cancel] /\ latest' = s
    BY <1>3 DEF WriteCancel
  <2>4. row' = [row EXCEPT ![s] = new]
    BY <2>3
  <2> HIDE DEF cancel
  <2>5. /\ new \in Row /\ new.status = row[s].status /\ new.period = row[s].period
        /\ new.invoice = row[s].invoice /\ new.invoiceStatus = row[s].invoiceStatus
        /\ new.revoked = row[s].revoked
    BY <2>1, <2>2 DEF Row
  <2> HIDE DEF new
  <2>6. row[s].status # "none"
    BY <2>1 DEF Shape, RowShape
  <2>7. new # NoRow
    BY <2>5, <2>6, ConstantTypes
  <2>8. row' \in [Subscription -> Row] /\ row'[s] = new
        /\ \A t \in Subscription \ {s} : row'[t] = row[t]
    BY <1>1, <2>1, <2>4, <2>5
  <2>9. RowsAlike
    BY <2>1, <2>5, <2>7, <2>8 DEF RowsAlike, Written
  <2> QED
    BY <2>1, <2>3, <2>8, <2>9
<1> QED
  BY <1>2, <1>3

RequestTypes ==
  /\ requests \in 0 .. MaxRequests /\ lost \in 0 .. MaxLost
  /\ {crossed, doubled, promoted, toggled, misread} \subseteq BOOLEAN
  /\ profile \in Profile \cup {"none"}

\* A step of one request.
LEMMA RequestKeepsShape ==
  ASSUME Shape, BillingShape', RowsStay, RequestTypes', NEW a \in Admin,
         request' = [request EXCEPT ![a] = request'[a]],
         request'[a] \in RequestState, SoundRequest(a)'
  PROVE  Shape'
<1>1. request \in [Admin -> RequestState]
  BY DEF Shape, ManagedTypeOK
<1>2. ManagedTypeOK'
  BY <1>1 DEF ManagedTypeOK, RequestTypes
<1>3. RequestShape'
  <2> SUFFICES ASSUME NEW b \in Admin, b # a
               PROVE  SoundRequest(b)'
    BY DEF RequestShape
  <2>1. request'[b] = request[b] /\ SoundRequest(b) /\ request[b] \in RequestState
    BY <1>1 DEF Shape, RequestShape
  <2> QED
    BY <2>1, RequestFields DEF SoundRequest, RowsStay
<1> QED
  BY <1>2, <1>3 DEF Shape, BillingShape

\* The user, Stripe or a handler does something.
LEMMA OthersKeepShape ==
  ASSUME Shape, BillingShape', RowsStay, RequestTypes', UNCHANGED request
  PROVE  Shape'
<1>1. ManagedTypeOK'
  BY DEF Shape, ManagedTypeOK, RequestTypes
<1>2. RequestShape'
  <2> SUFFICES ASSUME NEW b \in Admin
               PROVE  SoundRequest(b)'
    BY DEF RequestShape
  <2>1. request'[b] = request[b] /\ SoundRequest(b) /\ request[b] \in RequestState
    BY DEF Shape, RequestShape, ManagedTypeOK
  <2> QED
    BY <2>1, RequestFields DEF SoundRequest, RowsStay
<1> QED
  BY <1>1, <1>2 DEF Shape, BillingShape

\* What is left alone stays as it is.
LEMMA NothingKeepsShape ==
  ASSUME Shape, UNCHANGED vars
  PROVE  BillingShape' /\ RowsStay
<1>1. /\ UNCHANGED <<stripeVars, answered, record, row, handler, budget, skipped,
                     overtaken, stranded, applied>>
      /\ UNCHANGED <<latest, cycle, override, superuser, notice, overlapped>>
  BY DEF vars, rowVars, accessVars, historyVars
<1>2. /\ latest' \in Subscription /\ cycle' \in Cycles /\ override' \in Seq(Override)
      /\ superuser' \in BOOLEAN /\ notice' \in [Key -> Notice] /\ overlapped' \in BOOLEAN
  BY <1>1 DEF Shape, TypeOK, Cycles
<1> HIDE DEF stripeVars
<1> QED
  BY <1>1, <1>2, CyclesKeepShape

-----------------------------------------------------------------------------
\* What the steps of a request do to it

\* The request's next state, and which rows its step leaves alone.
RequestStepped(a) ==
  LET me == request[a]
      new == request'[a] IN
  /\ request' = [request EXCEPT ![a] = new] /\ new \in RequestState
  /\ new.pc = "rank" => me.pc = "idle" /\ new.rank # "none" /\ Allowed(new.rank, new.profile)
  /\ new.pc = "profile" =>
       /\ new.profile # "none"
       /\ \/ me.pc = "idle" /\ Allowed("none", new.profile)
          \/ me.pc = "rank" /\ new.profile = me.profile /\ new.rank = me.rank
  /\ me.pc = "profile" => new.profile = me.profile
  /\ new.pc = "ask" =>
       /\ new.asked /\ Written(new.sub) /\ new.sub = latest /\ new.read = row[latest]
       /\ new.read.period \in Period
  /\ new.pc \in {"ask", "commit"} =>
       \/ /\ me.pc = "profile" /\ new.after = "profile"
          /\ new.active = ActiveOverride /\ new.pending = PendingOverride
          /\ new.sub = latest /\ new.read = row[latest]
          /\ new.asked <=> new.pc = "ask"
          /\ new.cancel = (new.profile = "ambassador")
          /\ new.profile = "ambassador" => new.asked = HasAccess(latest)
       \/ me.pc = "promote" /\ new.after = "rank" /\ new.pc = "ask"
       \/ me.pc = "ask" /\ new = [me EXCEPT !.pc = "commit"] /\ me.asked

LEMMA ValidateStepped ==
  ASSUME Shape, NEW a \in Admin, NEW rank \in Rank \cup {"none"},
         NEW wanted \in Profile \cup {"none"}, Validate(a, rank, wanted)
  PROVE  RequestStepped(a)
<1> DEFINE pc == IF rank = "none" THEN "profile" ELSE "rank"
           new == [NoRequest EXCEPT !.pc = pc, !.rank = rank, !.profile = wanted]
<1>1. request \in [Admin -> RequestState] /\ request[a].pc = "idle"
  BY DEF Shape, ManagedTypeOK, Validate, Working
<1>2. /\ request' = [request EXCEPT ![a] = new] /\ Allowed(rank, wanted)
      /\ rank # "none" \/ wanted # "none"
  BY DEF Validate
<1>3. /\ new \in RequestState /\ new.pc = pc /\ new.rank = rank /\ new.profile = wanted
  BY NoRequestType DEF RequestState, RequestPc
<1>4. request'[a] = new
  BY <1>1, <1>2
<1> HIDE DEF new
<1>5. request' = [request EXCEPT ![a] = request'[a]]
  BY <1>2, <1>4
<1> QED
  BY <1>1, <1>2, <1>3, <1>4, <1>5 DEF RequestStepped

\* A subscription that gives access, or is not over, has a row.
LEMMA LatestWritten ==
  ASSUME Shape, row[latest].status \in Active
  PROVE  latest \in Subscription /\ Written(latest) /\ row[latest].period \in Period
<1>1. latest \in Subscription
  BY DEF Shape, TypeOK
<1>2. Written(latest)
  BY ConstantTypes DEF Written, Active
<1> QED
  BY <1>1, <1>2 DEF Shape, RowShape

LEMMA ReadProfileStepped ==
  ASSUME Shape, NEW a \in Admin, ReadProfile(a)
  PROVE  RequestStepped(a)
<1> DEFINE me == request[a]
           r == row[latest]
           asked == IF me.profile = "ambassador" THEN HasAccess(latest)
                    ELSE PendingOverride # 0 /\ r.status \in Active /\ r.cancel
           new == [me EXCEPT !.pc = IF asked THEN "ask" ELSE "commit",
                             !.active = ActiveOverride, !.pending = PendingOverride,
                             !.sub = latest, !.read = r, !.asked = asked,
                             !.cancel = (me.profile = "ambassador"), !.after = "profile"]
<1>1. /\ request \in [Admin -> RequestState] /\ me \in RequestState /\ me.pc = "profile"
      /\ latest \in Subscription /\ r \in Row
  BY ShapeFacts DEF Shape, ManagedTypeOK, TypeOK, ReadProfile
<1>2. request' = [request EXCEPT ![a] = new]
  BY DEF ReadProfile
<1>3. asked \in BOOLEAN
  BY <1>1, RowFields DEF HasAccess
<1>4. asked => Written(latest) /\ r.period \in Period
  BY LatestWritten DEF HasAccess
<1>5. ActiveOverride \in Nat /\ PendingOverride \in Nat
  BY ShapeFacts, OverrideFacts
<1>6. me.profile = "ambassador" => asked = HasAccess(latest)
  OBVIOUS
<1> HIDE DEF asked
<1>7. new \in RequestState
  BY <1>1, <1>3, <1>5 DEF RequestState, RequestPc
<1>8. /\ new.pc = IF asked THEN "ask" ELSE "commit"
      /\ new.active = ActiveOverride /\ new.pending = PendingOverride
      /\ new.sub = latest /\ new.read = r /\ new.asked = asked
      /\ new.cancel = (me.profile = "ambassador") /\ new.after = "profile"
      /\ new.profile = me.profile
  BY <1>1 DEF RequestState
<1> HIDE DEF new
<1>9. request'[a] = new /\ request' = [request EXCEPT ![a] = request'[a]]
  BY <1>1, <1>2
<1>10. /\ new.pc \in {"ask", "commit"} /\ (new.asked <=> new.pc = "ask")
  BY <1>3, <1>8
<1>11. new.profile = "ambassador" => new.asked = HasAccess(latest)
  BY <1>6, <1>8
<1> QED
  BY <1>1, <1>4, <1>7, <1>8, <1>9, <1>10, <1>11 DEF RequestStepped

LEMMA ReadPromotedStepped ==
  ASSUME Shape, NEW a \in Admin, ReadPromoted(a)
  PROVE  RequestStepped(a)
<1> DEFINE me == request[a]
           cancels == superuser /\ HasAccess(latest) /\ ~row[latest].cancel
           new == [me EXCEPT !.pc = IF cancels THEN "ask" ELSE "respond",
                             !.sub = latest, !.read = row[latest], !.asked = TRUE,
                             !.cancel = TRUE, !.after = "rank"]
<1>1. /\ request \in [Admin -> RequestState] /\ me \in RequestState /\ me.pc = "promote"
      /\ latest \in Subscription /\ row[latest] \in Row
  BY ShapeFacts DEF Shape, ManagedTypeOK, TypeOK, ReadPromoted
<1>2. request' = [request EXCEPT ![a] = new]
  BY DEF ReadPromoted
<1>3. cancels => Written(latest) /\ row[latest].period \in Period
  BY LatestWritten DEF HasAccess
<1> HIDE DEF cancels
<1>4. new \in RequestState
  BY <1>1 DEF RequestState, RequestPc
<1>5. /\ new.pc = IF cancels THEN "ask" ELSE "respond"
      /\ new.sub = latest /\ new.read = row[latest] /\ new.asked = TRUE /\ new.after = "rank"
  BY <1>1 DEF RequestState
<1> HIDE DEF new
<1>6. request'[a] = new /\ request' = [request EXCEPT ![a] = request'[a]]
  BY <1>1, <1>2
<1> QED
  BY <1>1, <1>3, <1>4, <1>5, <1>6 DEF RequestStepped

LEMMA OtherStepped ==
  ASSUME Shape, NEW a \in Admin,
         \/ WriteRank(a) \/ AskStripe(a) \/ StripeFails(a) \/ CommitProfile(a)
         \/ CommitPromoted(a) \/ Respond(a)
  PROVE  RequestStepped(a)
<1> DEFINE me == request[a]
<1>1. request \in [Admin -> RequestState] /\ me \in RequestState /\ SoundRequest(a)
  BY DEF Shape, ManagedTypeOK, RequestShape
<1>2. ASSUME StripeFails(a) \/ Respond(a)
      PROVE  RequestStepped(a)
  <2>1. request' = [request EXCEPT ![a] = NoRequest] /\ me.pc \in {"ask", "respond"}
    BY <1>2 DEF StripeFails, Respond
  <2>2. request'[a] = NoRequest /\ request' = [request EXCEPT ![a] = request'[a]]
    BY <1>1, <2>1
  <2> QED
    BY <2>1, <2>2, NoRequestType DEF RequestStepped
<1>3. ASSUME NEW pc \in RequestPc, request' = [request EXCEPT ![a].pc = pc]
      PROVE  /\ request'[a] = [me EXCEPT !.pc = pc] /\ request'[a] \in RequestState
             /\ request' = [request EXCEPT ![a] = request'[a]]
             /\ request'[a].pc = pc /\ request'[a].profile = me.profile
             /\ request'[a].rank = me.rank
  <2> DEFINE new == [me EXCEPT !.pc = pc]
  <2>1. request' = [request EXCEPT ![a] = new]
    BY <1>3
  <2>2. new \in RequestState /\ new.pc = pc /\ new.profile = me.profile /\ new.rank = me.rank
    BY <1>1 DEF RequestState
  <2>3. request'[a] = new
    BY <1>1, <2>1
  <2> HIDE DEF new
  <2>4. request' = [request EXCEPT ![a] = request'[a]]
    BY <2>1, <2>3
  <2> QED
    BY <2>2, <2>3, <2>4 DEF new
<1>4. ASSUME WriteRank(a)
      PROVE  RequestStepped(a)
  <2> DEFINE pc == IF me.profile = "none" THEN "promote" ELSE "profile"
  <2>1. request' = [request EXCEPT ![a].pc = pc] /\ me.pc = "rank" /\ pc \in RequestPc
    BY <1>4 DEF WriteRank, RequestPc
  <2>2. /\ request'[a] = [me EXCEPT !.pc = pc] /\ request'[a] \in RequestState
        /\ request' = [request EXCEPT ![a] = request'[a]]
        /\ request'[a].pc = pc /\ request'[a].profile = me.profile
        /\ request'[a].rank = me.rank
    BY <1>3, <2>1
  <2> QED
    BY <2>1, <2>2 DEF RequestStepped
<1>5. ASSUME AskStripe(a)
      PROVE  RequestStepped(a)
  <2>1. request' = [request EXCEPT ![a].pc = "commit"] /\ me.pc = "ask"
    BY <1>5 DEF AskStripe
  <2>2. /\ request'[a] = [me EXCEPT !.pc = "commit"] /\ request'[a] \in RequestState
        /\ request' = [request EXCEPT ![a] = request'[a]] /\ request'[a].pc = "commit"
    BY <1>3, <2>1 DEF RequestPc
  <2> QED
    BY <1>1, <2>1, <2>2 DEF RequestStepped, SoundRequest
<1>6. ASSUME CommitProfile(a) \/ CommitPromoted(a)
      PROVE  RequestStepped(a)
  <2>1. PICK pc \in {"promote", "respond"} :
          request' = [request EXCEPT ![a].pc = pc] /\ me.pc = "commit"
    BY <1>6 DEF CommitProfile, CommitPromoted
  <2>2. /\ request'[a] = [me EXCEPT !.pc = pc] /\ request'[a] \in RequestState
        /\ request' = [request EXCEPT ![a] = request'[a]] /\ request'[a].pc = pc
    BY <1>3, <2>1 DEF RequestPc
  <2> QED
    BY <2>1, <2>2 DEF RequestStepped
<1> QED
  BY <1>2, <1>4, <1>5, <1>6

LEMMA SteppedRequestSound ==
  ASSUME Shape, NEW a \in Admin, RequestStepped(a), RowsStay
  PROVE  SoundRequest(a)'
<1> DEFINE me == request[a]
           new == request'[a]
<1>1. /\ me \in RequestState /\ SoundRequest(a) /\ new \in RequestState
  BY DEF Shape, ManagedTypeOK, RequestShape, RequestStepped
<1>2. /\ new.pc = "rank" => new.rank # "none"
      /\ new.pc = "profile" => new.profile # "none"
  BY DEF RequestStepped
<1>3. ASSUME new.pc = "ask"
      PROVE  /\ new.asked /\ row'[new.sub] # NoRow /\ new.read.period \in Period
             /\ new.after = "profile" => new.profile # "none"
  <2>1. new.asked /\ Written(new.sub) /\ new.read.period \in Period /\ new.sub \in Subscription
    BY <1>1, <1>3, RequestFields DEF RequestStepped
  <2>2. me.pc = "profile" => new.profile = me.profile /\ me.profile # "none"
    BY <1>1 DEF RequestStepped, SoundRequest
  <2>3. \/ me.pc = "profile"
        \/ me.pc = "promote" /\ new.after = "rank"
        \/ new = [me EXCEPT !.pc = "commit"]
    BY <1>3 DEF RequestStepped
  <2>4. new # [me EXCEPT !.pc = "commit"]
    BY <1>1, <1>3 DEF RequestState
  <2>6. row'[new.sub] # NoRow
    BY <2>1 DEF RowsStay, Written
  <2> QED
    BY <2>1, <2>2, <2>3, <2>4, <2>6 DEF Written
<1>4. ASSUME new.pc = "commit"
      PROVE  /\ new.asked => row'[new.sub] # NoRow /\ new.read.period \in Period
             /\ new.after = "rank" => new.asked
             /\ new.after = "profile" => new.profile # "none"
  <2>1. CASE /\ me.pc = "profile" /\ new.after = "profile" /\ (new.asked <=> new.pc = "ask")
             /\ new.profile = me.profile
    BY <1>1, <1>4, <2>1 DEF SoundRequest
  <2>2. CASE new = [me EXCEPT !.pc = "commit"] /\ me.asked /\ me.pc = "ask"
    <3>1. /\ new.asked /\ new.sub = me.sub /\ new.read = me.read /\ new.after = me.after
          /\ new.profile = me.profile
      BY <1>1, <2>2 DEF RequestState
    <3>2. /\ Written(me.sub) /\ me.read.period \in Period /\ me.sub \in Subscription
          /\ me.after = "profile" => me.profile # "none"
      BY <1>1, <2>2, RequestFields DEF SoundRequest
    <3>3. row'[me.sub] # NoRow
      BY <3>2 DEF RowsStay, Written
    <3> QED
      BY <3>1, <3>2, <3>3 DEF Written
  <2> QED
    BY <1>4, <2>1, <2>2 DEF RequestStepped
<1> QED
  BY <1>2, <1>3, <1>4 DEF SoundRequest, Written

LEMMA AdminStepped ==
  ASSUME Shape, NEW a \in Admin, AdminStep(a)
  PROVE  RequestStepped(a)
BY ValidateStepped, ReadProfileStepped, ReadPromotedStepped, OtherStepped DEF AdminStep

\* What a request's step leaves alone.
LEMMA AdminUnchanged ==
  ASSUME NEW a \in Admin, AdminStep(a)
  PROVE  UNCHANGED <<answered, record, notice, handler, budget, skipped, overtaken, stranded, applied,
                     ended, offered, toggled>>
BY DEF AdminStep, Validate, WriteRank, ReadProfile, AskStripe, StripeFails, CommitProfile,
       ReadPromoted, CommitPromoted, Respond, vars, stripeVars, serverVars, rowVars,
       accessVars, historyVars, requestHistory

LEMMA AdminKeepsShape ==
  ASSUME Shape, NEW a \in Admin, AdminStep(a)
  PROVE  Shape'
<1> DEFINE me == request[a]
<1>1. me \in RequestState /\ SoundRequest(a) /\ RequestTypes /\ TypeOK
  BY DEF Shape, ManagedTypeOK, RequestShape, RequestTypes
<1>2. RequestStepped(a)
  BY AdminStepped
<1>3. /\ latest \in Subscription /\ row \in [Subscription -> Row] /\ cycle \in Cycles
      /\ override \in Seq(Override) /\ superuser \in BOOLEAN /\ notice \in [Key -> Notice]
      /\ overlapped \in BOOLEAN
      /\ crossed \in BOOLEAN /\ doubled \in BOOLEAN /\ promoted \in BOOLEAN /\ toggled \in BOOLEAN
      /\ misread \in BOOLEAN
  BY <1>1 DEF TypeOK, Cycles, RequestTypes
<1>4. /\ SummaryCycles \in Cycles /\ Disturbs(a) \in BOOLEAN
      /\ \A h \in Handler \cup {NoHandler} : Overlaps(h) \in BOOLEAN
  BY SummaryFacts DEF Disturbs, Overlaps
<1>5. SUFFICES BillingShape' /\ RowsStay /\ RequestTypes'
  BY <1>2, SteppedRequestSound, RequestKeepsShape DEF RequestStepped
<1>6. CASE \E rank \in Rank \cup {"none"}, wanted \in Profile \cup {"none"} :
             Validate(a, rank, wanted)
  <2>1. /\ UNCHANGED <<stripeVars, answered, record, row, latest, accessVars, notice, handler,
                       budget, skipped, overtaken, stranded, applied, lost, requestHistory>>
        /\ cycle' \in Cycles /\ overlapped' \in BOOLEAN
        /\ requests < MaxRequests /\ requests' = requests + 1
    BY <1>3, <1>4, <1>6 DEF Validate, Summarizes
  <2>2. RequestTypes'
    BY <1>1, <2>1, ManagedAssumption DEF RequestTypes, requestHistory
  <2>3. UNCHANGED <<override, superuser>>
    BY <2>1 DEF accessVars
  <2> HIDE DEF stripeVars
  <2> QED
    BY <1>3, <2>1, <2>2, <2>3, CyclesKeepShape
<1>7. CASE WriteRank(a)
  <2>1. /\ UNCHANGED <<stripeVars, answered, record, row, latest, cycle, override, notice, handler,
                       budget, skipped, overlapped, overtaken, stranded, applied, requests, lost, doubled,
                       profile, toggled, misread>>
        /\ superuser' \in BOOLEAN /\ promoted' \in BOOLEAN /\ crossed' \in BOOLEAN
    BY <1>3, <1>4, <1>7 DEF WriteRank, historyVars
  <2>2. RequestTypes'
    BY <1>1, <2>1 DEF RequestTypes
  <2> HIDE DEF stripeVars
  <2> QED
    BY <1>3, <2>1, <2>2, CyclesKeepShape
<1>8. CASE ReadProfile(a) \/ ReadPromoted(a)
  <2>1. UNCHANGED <<vars, requests, lost, crossed, doubled, profile, promoted, toggled>>
    BY <1>8 DEF ReadProfile, ReadPromoted, requestHistory
  <2>2. misread' \in BOOLEAN
    BY <1>3, <1>8 DEF ReadProfile, ReadPromoted, requestHistory
  <2>3. RequestTypes'
    BY <1>1, <2>1, <2>2 DEF RequestTypes
  <2> QED
    BY <2>1, <2>3, NothingKeepsShape
<1>9. CASE AskStripe(a) \/ StripeFails(a)
  <2>1. me.pc = "ask" /\ UNCHANGED <<ended, offered>> /\ UNCHANGED serverVars
        /\ UNCHANGED <<requests, requestHistory>>
    BY <1>9 DEF AskStripe, StripeFails
  <2>2. \/ UNCHANGED <<stripe, log>>
        \/ SetCancel(me.sub, me.cancel)
    BY <1>9 DEF AskStripe, StripeFails
  <2>3. StripeInv /\ me.sub \in Subscription /\ me.cancel \in BOOLEAN /\ Written(me.sub)
    BY <1>1, <2>1, ShapeFacts, RequestFields DEF SoundRequest
  <2>4. Bought(me.sub)
    BY <2>3 DEF Shape, RowShape
  <2>5. StripeMove
    <3>1. CASE UNCHANGED <<stripe, log>>
      BY <2>1, <2>3, <3>1, StripeStill DEF StripeInv, StripeType
    <3>2. CASE SetCancel(me.sub, me.cancel)
      BY <2>1, <2>3, <2>4, <3>2, SetCancelMove
    <3> QED
      BY <2>2, <3>1, <3>2
  <2>6. RequestTypes'
    <3>1. lost' \in 0 .. MaxLost
      BY <1>1, <1>9, ManagedAssumption DEF AskStripe, StripeFails, RequestTypes
    <3> QED
      BY <1>1, <2>1, <3>1 DEF RequestTypes, requestHistory
  <2> QED
    BY <2>1, <2>5, <2>6, StripeKeepsShape
<1>10. CASE CommitProfile(a)
  <2>1. /\ UNCHANGED <<stripeVars, answered, record, superuser, notice, handler, budget, skipped,
                       overtaken, stranded, applied, requests, lost, promoted, toggled, misread>>
        /\ WriteCancel(me) /\ me.pc = "commit"
        /\ profile' = me.profile /\ crossed' \in BOOLEAN /\ doubled' \in BOOLEAN
        /\ overlapped' \in BOOLEAN
    BY <1>3, <1>4, <1>10 DEF CommitProfile
  <2>2. row' \in [Subscription -> Row] /\ RowsAlike /\ latest' \in Subscription
    BY <1>1, <2>1, CancelWritten DEF SoundRequest
  <2>3. override' \in Seq(Override)
    <3>1. me.asked => me.read.period \in Period
      BY <1>1, <2>1 DEF SoundRequest
    <3>2. Granted(me) \in Seq(Override) /\ Withdrawn(me) \in Seq(Override)
      BY <1>1, <1>3, <3>1, GrantedFacts, WithdrawnFacts
    <3> QED
      BY <1>10, <3>2 DEF CommitProfile
  <2>4. cycle' \in Cycles
    <3>1. WithOpen(cycle, "closed") \in Cycles
      BY <1>3, WithOpenType DEF CycleStatus
    <3> QED
      BY <1>3, <1>10, <3>1 DEF CommitProfile
  <2>5. RequestTypes'
    BY <1>1, <2>1, RequestFields DEF RequestTypes
  <2> HIDE DEF stripeVars
  <2> QED
    BY <1>3, <2>1, <2>2, <2>3, <2>4, <2>5, AlikeKeepsShape
<1>11. CASE CommitPromoted(a)
  <2>1. /\ UNCHANGED <<stripeVars, answered, record, cycle, override, superuser, notice, handler,
                       budget, skipped, overlapped, overtaken, stranded, applied, requests, lost, doubled,
                       profile, promoted, toggled, misread>>
        /\ WriteCancel(me) /\ me.pc = "commit" /\ crossed' \in BOOLEAN
    BY <1>3, <1>4, <1>11 DEF CommitPromoted, accessVars, historyVars
  <2>2. row' \in [Subscription -> Row] /\ RowsAlike /\ latest' \in Subscription
    BY <1>1, <2>1, CancelWritten DEF SoundRequest
  <2>3. RequestTypes'
    BY <1>1, <2>1 DEF RequestTypes
  <2> HIDE DEF stripeVars
  <2> QED
    BY <1>3, <2>1, <2>2, <2>3, AlikeKeepsShape
<1>12. CASE Respond(a)
  <2>1. /\ UNCHANGED <<stripeVars, answered, record, row, latest, accessVars, notice, handler,
                       budget, skipped, overtaken, stranded, applied, requests, lost, requestHistory>>
        /\ cycle' \in Cycles /\ overlapped' \in BOOLEAN
    BY <1>3, <1>4, <1>12 DEF Respond, Summarizes
  <2>2. RequestTypes'
    BY <1>1, <2>1 DEF RequestTypes, requestHistory
  <2>3. UNCHANGED <<override, superuser>>
    BY <2>1 DEF accessVars
  <2> HIDE DEF stripeVars
  <2> QED
    BY <1>3, <2>1, <2>2, <2>3, CyclesKeepShape
<1> QED
  BY <1>6, <1>7, <1>8, <1>9, <1>10, <1>11, <1>12 DEF AdminStep

LEMMA InitialRequest ==
  ASSUME ManagedInit, NEW a \in Admin
  PROVE  request[a] = NoRequest
BY DEF ManagedInit

LEMMA ShapeInit ==
  ASSUME ManagedInit
  PROVE  Shape
<1>0. Init
  BY DEF ManagedInit
<1>1. /\ (CHOOSE s \in Subscription : TRUE) \in Subscription
      /\ MaxEvents \in Nat /\ MaxPeriod \in Nat /\ MaxAborts \in Nat /\ MaxFetchFails \in Nat
      /\ MaxRequests \in Nat /\ MaxLost \in Nat
  BY StripeAssumption, ManagedAssumption
<1>2. latest \in Subscription
  BY <1>0, <1>1 DEF Init
<1>3. /\ \/ /\ stripe = [s \in Subscription |-> NoPayload]
            /\ row = [s \in Subscription |-> NoRow]
            /\ cycle = NoCycles
         \/ /\ stripe = [s \in Subscription |-> IF s = latest THEN First ELSE NoPayload]
            /\ row = [s \in Subscription |-> IF s = latest THEN FirstRow ELSE NoRow]
            /\ cycle = [NoCycles EXCEPT ![<<latest, 1>>] = "open"]
  BY <1>0 DEF Init
<1>4. /\ log = <<>> /\ ended = {} /\ offered = [s \in Subscription |-> "none"]
      /\ answered = {} /\ record = [e \in EventNo |-> "none"]
      /\ override = <<>> /\ superuser = FALSE
      /\ notice = [k \in Key |-> [revoked |-> FALSE, paused |-> "none"]]
      /\ handler = [h \in Handler |-> Idle]
      /\ budget = [aborts |-> MaxAborts, fetches |-> MaxFetchFails]
      /\ skipped = {} /\ overlapped = FALSE /\ overtaken = FALSE /\ stranded = FALSE
      /\ applied = [s \in Subscription |-> 0]
  BY <1>0 DEF Init
<1>5. /\ log \in Seq(Event) /\ Len(log) = 0 /\ override \in Seq(Override)
  BY <1>4, EmptySeq
<1>6. /\ stripe \in [Subscription -> Payload] /\ StripeShape
  <2>1. CASE stripe = [s \in Subscription |-> NoPayload]
    BY <2>1, ConstantTypes DEF StripeShape, Bought
  <2>2. CASE stripe = [s \in Subscription |-> IF s = latest THEN First ELSE NoPayload]
    <3>1. /\ First.period \in Period /\ First \in Payload /\ NoPayload \in Payload
          /\ NoPayload.status = "none" /\ First.status # "none"
      BY ConstantTypes DEF First
    <3>2. stripe \in [Subscription -> Payload]
      BY <2>2, <3>1
    <3>3. \A s \in Subscription : stripe[s] = First \/ stripe[s] = NoPayload
      BY <2>2
    <3>4. StripeShape
      BY <3>1, <3>3 DEF StripeShape, Bought
    <3> QED
      BY <3>2, <3>4
  <2> QED
    BY <1>3, <2>1, <2>2
<1>7. row \in [Subscription -> Row] /\ RowShape
  <2>1. CASE row = [s \in Subscription |-> NoRow]
    BY <2>1, ConstantTypes DEF RowShape, Written
  <2>2. CASE /\ stripe = [s \in Subscription |-> IF s = latest THEN First ELSE NoPayload]
             /\ row = [s \in Subscription |-> IF s = latest THEN FirstRow ELSE NoRow]
    BY <1>2, <2>2, ConstantTypes DEF RowShape, Written, Bought, First
  <2> QED
    BY <1>3, <2>1, <2>2
<1>8. cycle \in Cycles
  BY <1>3, ConstantTypes DEF Cycles, CycleStatus
<1>9. notice \in [Key -> Notice]
  BY <1>4 DEF Notice
<1>10. /\ handler \in [Handler -> HandlerState]
       /\ \A h \in Handler : handler[h].pc = "idle" /\ handler[h].event = 0
  BY <1>4, ConstantTypes
<1>11. /\ record \in [EventNo -> {"none", "pending", "processed", "failed"}]
       /\ offered \in [Subscription -> {"none", "completed"} \cup Active]
       /\ applied \in [Subscription -> 0 .. MaxEvents]
       /\ budget \in [aborts : 0 .. MaxAborts, fetches : 0 .. MaxFetchFails]
  BY <1>1, <1>4
<1>12. TypeOK
  <2>1. \A h \in Handler : handler[h].event \in 0 .. Len(log)
                           /\ (handler[h].event = 0 <=> handler[h].pc = "idle")
    BY <1>5, <1>10
  <2>2. /\ answered \subseteq 1 .. Len(log) /\ skipped \subseteq 1 .. Len(log)
        /\ ended \subseteq Key /\ superuser \in BOOLEAN
        /\ overlapped \in BOOLEAN /\ overtaken \in BOOLEAN /\ stranded \in BOOLEAN
    BY <1>4
  <2>3. Len(log) <= MaxEvents
    BY <1>1, <1>5
  <2> QED
    BY <1>2, <1>5, <1>6, <1>7, <1>8, <1>9, <1>10, <1>11, <2>1, <2>2, <2>3 DEF TypeOK, Cycles
<1>13. EventShape /\ HandlerShape
  BY <1>5, <1>10 DEF EventShape, HandlerShape, SoundHandler
<1>14. /\ request = [a \in Admin |-> NoRequest] /\ requests = 0 /\ lost = 0
       /\ crossed = FALSE /\ doubled = FALSE /\ promoted = FALSE /\ toggled = FALSE
       /\ misread = FALSE
       /\ profile = "none"
  BY DEF ManagedInit
<1>15. ManagedTypeOK
  <2>1. request \in [Admin -> RequestState]
    BY <1>14, NoRequestType
  <2>2. requests \in 0 .. MaxRequests /\ lost \in 0 .. MaxLost
    BY <1>1, <1>14
  <2> QED
    BY <1>14, <2>1, <2>2 DEF ManagedTypeOK
<1>16. RequestShape
  BY <1>14, NoRequestType DEF RequestShape, SoundRequest
<1> QED
  BY <1>6, <1>7, <1>12, <1>13, <1>15, <1>16 DEF Shape

LEMMA ShapeStep ==
  ASSUME Shape, [ManagedNext]_managedVars
  PROVE  Shape'
<1>1. RequestTypes
  BY DEF Shape, ManagedTypeOK, RequestTypes
<1>2. CASE BillingStep
  <2>1. /\ Next /\ UNCHANGED <<request, requests, lost, doubled, profile, promoted, toggled, misread>>
        /\ crossed' \in BOOLEAN
    BY <1>1, <1>2 DEF BillingStep, RequestTypes
  <2>2. RequestTypes'
    BY <1>1, <2>1 DEF RequestTypes
  <2> QED
    BY <2>1, <2>2, BillingKeepsShape, OthersKeepShape
<1>3. ASSUME NEW s \in Subscription, PortalToggle(s)
      PROVE  Shape'
  <2>1. /\ UNCHANGED <<request, requests, lost, crossed, doubled, profile, promoted, misread>>
        /\ toggled' = TRUE
    BY <1>3 DEF PortalToggle
  <2>2. RequestTypes'
    BY <1>1, <2>1 DEF RequestTypes
  <2> QED
    BY <1>3, <2>1, <2>2, ShapeFacts, ToggleMove, StripeKeepsShape, OthersKeepShape
<1>4. CASE UNCHANGED managedVars
  <2>1. /\ UNCHANGED vars
        /\ UNCHANGED <<request, requests, lost, crossed, doubled, profile, promoted, toggled, misread>>
    BY <1>4 DEF managedVars, requestVars, requestHistory
  <2>2. RequestTypes'
    BY <1>1, <2>1 DEF RequestTypes
  <2> QED
    BY <2>1, <2>2, NothingKeepsShape, OthersKeepShape
<1> QED
  BY <1>2, <1>3, <1>4, AdminKeepsShape DEF ManagedNext

\* The state has its types, and what it says of subscriptions, rows and events fits together.
THEOREM Shaped == ManagedSpec => []Shape
<1>1. ManagedInit => Shape
  BY ShapeInit
<1>2. Shape /\ [ManagedNext]_managedVars => Shape'
  BY ShapeStep
<1> QED
  BY <1>1, <1>2, PTL DEF ManagedSpec

-----------------------------------------------------------------------------
\* The steps that are not a handler's

\* What they leave to handlers; rows change in the flag only.
QuietMove ==
  /\ UNCHANGED <<answered, record, handler, budget, skipped, overtaken, stranded, applied>>
  /\ StripeMove /\ RowsAlike
  /\ \A k \in Key : /\ notice'[k].revoked = notice[k].revoked
                    /\ notice'[k].paused = "unread" => notice[k].paused = "unread"
  /\ overlapped => overlapped'
  /\ cycle' # cycle /\ ~overlapped' =>
       \A h \in Handler : handler[h].pc \notin {"commit", "override", "note"}
  /\ \A k \in Key : cycle'[k] = "open" => cycle[k] = "open" \/ HasAccess(k[1])

\* A step that only touches cycles, as the summary does, or the user's notices.
LEMMA QuietCycles ==
  ASSUME Shape, UNCHANGED <<stripeVars, answered, record, handler, budget, skipped, overtaken, stranded,
                            applied>>,
         RowsAlike,
         \A k \in Key : /\ notice'[k].revoked = notice[k].revoked
                        /\ notice'[k].paused = "unread" => notice[k].paused = "unread",
         overlapped => overlapped',
         cycle' # cycle /\ Overlaps(NoHandler) => overlapped',
         \A k \in Key : cycle'[k] = "open" => cycle[k] = "open" \/ HasAccess(k[1])
  PROVE  QuietMove
<1>1. StripeMove
  <2>1. StripeInv /\ UNCHANGED <<stripe, log, ended, offered>>
    BY ShapeFacts DEF stripeVars
  <2> QED
    BY <2>1, StripeStill DEF StripeInv, StripeType
<1>2. ASSUME cycle' # cycle, ~overlapped'
      PROVE  \A h \in Handler : handler[h].pc \notin {"commit", "override", "note"}
  <2>1. Handler \ {NoHandler} = Handler
    BY StripeAssumption
  <2> QED
    BY <1>2, <2>1 DEF Overlaps
<1> QED
  BY <1>1, <1>2 DEF QuietMove

LEMMA SummaryQuiet ==
  ASSUME Shape, Summarizes,
         UNCHANGED <<stripeVars, answered, record, row, notice, handler, budget, skipped,
                     overtaken, stranded, applied>>
  PROVE  QuietMove
<1>1. /\ cycle' = SummaryCycles
      /\ overlapped' = (overlapped \/ (cycle' # cycle /\ Overlaps(NoHandler)))
  BY DEF Summarizes
<1>2. ASSUME NEW k \in Key, cycle'[k] = "open"
      PROVE  cycle[k] = "open" \/ HasAccess(k[1])
  <2>1. k \in CycleKey /\ k # Managed
    BY ConstantTypes
  <2>2. \/ cycle[k] = "open"
        \/ HasAccess(latest) /\ k = <<latest, row[latest].period>>
    BY <1>1, <1>2, <2>1, SummaryFacts
  <2> QED
    BY <2>2
<1>3. RowsAlike
  BY DEF RowsAlike, Written
<1> HIDE DEF stripeVars
<1> QED
  BY <1>1, <1>2, <1>3, QuietCycles

LEMMA StripeQuiet ==
  ASSUME Shape, StripeMove, UNCHANGED serverVars
  PROVE  QuietMove
<1>1. UNCHANGED <<answered, record, row, latest, cycle, notice, handler, budget, skipped,
                  overlapped, overtaken, stranded, applied>>
  BY DEF serverVars, rowVars, historyVars
<1> QED
  BY <1>1 DEF QuietMove, RowsAlike, Written

LEMMA AdminQuiet ==
  ASSUME Shape, NEW a \in Admin, AdminStep(a)
  PROVE  QuietMove
<1> DEFINE me == request[a]
<1>1. me \in RequestState /\ SoundRequest(a) /\ cycle \in Cycles
  BY ShapeFacts DEF Shape, RequestShape
<1>2. ASSUME UNCHANGED <<stripeVars, answered, record, row, cycle, notice, handler, budget,
                         skipped, overlapped, overtaken, stranded, applied>>
      PROVE  QuietMove
  <2>1. RowsAlike
    BY <1>2 DEF RowsAlike, Written
  <2> HIDE DEF stripeVars
  <2> QED
    BY <1>2, <2>1, QuietCycles
<1>3. CASE \E rank \in Rank \cup {"none"}, wanted \in Profile \cup {"none"} :
             Validate(a, rank, wanted)
  <2>1. UNCHANGED <<stripeVars, answered, record, row, latest, accessVars, notice, handler,
                    budget, skipped, overtaken, stranded, applied>>
        /\ (Summarizes \/ UNCHANGED <<cycle, overlapped>>)
    BY <1>3 DEF Validate
  <2> HIDE DEF stripeVars
  <2> QED
    BY <1>2, <2>1, SummaryQuiet
<1>4. CASE WriteRank(a)
  <2>1. UNCHANGED <<stripeVars, answered, record, row, cycle, notice, handler, budget,
                    skipped, overlapped, overtaken, stranded, applied>>
    BY <1>4 DEF WriteRank, historyVars
  <2> QED
    BY <1>2, <2>1
<1>5. CASE ReadProfile(a) \/ ReadPromoted(a)
  <2>1. UNCHANGED <<stripeVars, answered, record, row, cycle, notice, handler, budget,
                    skipped, overlapped, overtaken, stranded, applied>>
    BY <1>5 DEF ReadProfile, ReadPromoted, vars, rowVars, historyVars
  <2> QED
    BY <1>2, <2>1
<1>6. CASE AskStripe(a) \/ StripeFails(a)
  <2>1. me.pc = "ask" /\ UNCHANGED <<ended, offered>> /\ UNCHANGED serverVars
    BY <1>6 DEF AskStripe, StripeFails
  <2>2. UNCHANGED <<stripe, log>> \/ SetCancel(me.sub, me.cancel)
    BY <1>6 DEF AskStripe, StripeFails
  <2>3. StripeInv /\ me.sub \in Subscription /\ me.cancel \in BOOLEAN /\ Written(me.sub)
    BY <1>1, <2>1, ShapeFacts, RequestFields DEF SoundRequest
  <2>4. Bought(me.sub)
    BY <2>3 DEF Shape, RowShape
  <2>5. CASE UNCHANGED <<stripe, log>>
    <3>1. StripeMove
      BY <2>1, <2>3, <2>5, StripeStill DEF StripeInv, StripeType
    <3> QED
      BY <2>1, <3>1, StripeQuiet
  <2>6. CASE SetCancel(me.sub, me.cancel)
    <3>1. StripeMove
      BY <2>1, <2>3, <2>4, <2>6, SetCancelMove
    <3> QED
      BY <2>1, <3>1, StripeQuiet
  <2> QED
    BY <2>2, <2>5, <2>6
<1>7. CASE CommitProfile(a)
  <2>1. /\ UNCHANGED <<stripeVars, answered, record, notice, handler, budget, skipped,
                       overtaken, stranded, applied>>
        /\ WriteCancel(me) /\ me.pc = "commit"
        /\ overlapped' = (overlapped \/ (cycle' # cycle /\ Overlaps(NoHandler)))
        /\ cycle' = cycle \/ cycle' = WithOpen(cycle, "closed")
    BY <1>7 DEF CommitProfile
  <2>2. RowsAlike
    BY <1>1, <2>1, CancelWritten DEF SoundRequest
  <2>3. \A k \in Key : cycle'[k] = "open" => cycle[k] = "open"
    <3>1. \A k \in CycleKey :
            WithOpen(cycle, "closed")[k] = IF cycle[k] = "open" THEN "closed" ELSE cycle[k]
      BY <1>1, WithOpenType DEF CycleStatus
    <3> QED
      BY <2>1, <3>1, ConstantTypes
  <2> HIDE DEF stripeVars
  <2> QED
    BY <2>1, <2>2, <2>3, QuietCycles
<1>8. CASE CommitPromoted(a)
  <2>1. /\ UNCHANGED <<stripeVars, answered, record, cycle, notice, handler, budget, skipped,
                       overlapped, overtaken, stranded, applied>>
        /\ WriteCancel(me) /\ me.pc = "commit"
    BY <1>8 DEF CommitPromoted, historyVars
  <2>2. RowsAlike
    BY <1>1, <2>1, CancelWritten DEF SoundRequest
  <2> HIDE DEF stripeVars
  <2> QED
    BY <2>1, <2>2, QuietCycles
<1>9. CASE Respond(a)
  <2>1. /\ UNCHANGED <<stripeVars, answered, record, row, notice, handler, budget, skipped,
                       overtaken, stranded, applied>>
        /\ Summarizes
    BY <1>9 DEF Respond
  <2> HIDE DEF stripeVars
  <2> QED
    BY <2>1, SummaryQuiet
<1> QED
  BY <1>3, <1>4, <1>5, <1>6, <1>7, <1>8, <1>9 DEF AdminStep

\* A step is quiet or a handler's.
LEMMA QuietOrHandler ==
  ASSUME Shape, [ManagedNext]_managedVars
  PROVE  \/ QuietMove
         \/ /\ Next
            /\ \E h \in Handler : \/ \E e \in EventNo : Deliver(h, e)
                                  \/ HandlerStep(h) \/ FetchFails(h) \/ Abort(h)
<1>1. CASE BillingStep
  <2>1. Next
    BY <1>1 DEF BillingStep
  <2>2. CASE StripeStep
    BY <2>2, ShapeFacts, StripeStepMove, StripeQuiet
  <2>3. CASE ReadSummary
    <3>1. /\ UNCHANGED <<stripeVars, answered, record, row, notice, handler, budget, skipped,
                         overtaken, stranded, applied>>
          /\ Summarizes
      BY <2>3 DEF ReadSummary
    <3> HIDE DEF stripeVars
    <3> QED
      BY <3>1, SummaryQuiet
  <2>4. ASSUME NEW s \in Subscription, OpenCheckout(s)
        PROVE  QuietMove
    <3>1. UNCHANGED <<stripe, log, ended>> /\ UNCHANGED serverVars
      BY <2>4 DEF OpenCheckout
    <3>2. offered' \in [Subscription -> {"none", "completed"} \cup Active]
      BY <2>4 DEF OpenCheckout, Shape, TypeOK, Active
    <3>3. StripeInv /\ ended \subseteq ended' /\ ended' \subseteq Key
      BY <3>1, ShapeFacts DEF StripeInv, StripeType
    <3>4. StripeMove
      BY <3>1, <3>2, <3>3, StripeStill
    <3> QED
      BY <3>1, <3>4, StripeQuiet
  <2>5. ASSUME NEW k \in Key, DismissNotice(k)
        PROVE  QuietMove
    <3>1. /\ UNCHANGED <<stripeVars, answered, record, row, cycle, handler, budget, skipped,
                         overlapped, overtaken, stranded, applied>>
          /\ notice' = [notice EXCEPT ![k].paused = "dismissed"]
      BY <2>5 DEF DismissNotice, rowVars, historyVars
    <3>2. \A j \in Key : /\ notice'[j].revoked = notice[j].revoked
                         /\ notice'[j].paused = "unread" => notice[j].paused = "unread"
      <4>1. notice \in [Key -> Notice]
        BY DEF Shape, TypeOK
      <4> QED
        BY <3>1, <4>1 DEF Notice
    <3>3. RowsAlike
      BY <3>1 DEF RowsAlike, Written
    <3> HIDE DEF stripeVars
    <3> QED
      BY <3>1, <3>2, <3>3, QuietCycles
  <2> QED
    BY <2>1, <2>2, <2>3, <2>4, <2>5 DEF Next
<1>2. ASSUME NEW s \in Subscription, PortalToggle(s)
      PROVE  QuietMove
  BY <1>2, ShapeFacts, ToggleMove, StripeQuiet
<1>3. CASE UNCHANGED managedVars
  <2>1. UNCHANGED <<stripeVars, answered, record, row, cycle, notice, handler, budget,
                    skipped, overlapped, overtaken, stranded, applied>>
    BY <1>3 DEF managedVars, vars, rowVars, historyVars
  <2>2. RowsAlike
    BY <2>1 DEF RowsAlike, Written
  <2> HIDE DEF stripeVars
  <2> QED
    BY <2>1, <2>2, QuietCycles
<1> QED
  BY <1>1, <1>2, <1>3, AdminQuiet DEF ManagedNext

-----------------------------------------------------------------------------
\* Access

Same(r, q) ==
  /\ r.status = q.status /\ r.period = q.period /\ r.invoice = q.invoice
  /\ r.invoiceStatus = q.invoiceStatus /\ r.revoked = q.revoked

\* As long as handlers do not overlap, what one commits was read from what is there.
Agree ==
  ~overlapped => \A h \in Handler : handler[h].pc = "commit" =>
    Same(handler[h].row, row[Recorded(h).sub]) /\ handler[h].cycle = cycle

\* ... and access is only revoked by a refund that sticks.
RevokedIsSticky ==
  ~overlapped => \A s \in Subscription : row[s].revoked => row[s].invoiceStatus = "refunded"

AccessIInv == Shape /\ Agree /\ OpenCycleHasAccess /\ RevokedIsSticky

LEMMA AccessInit ==
  ASSUME ManagedInit
  PROVE  AccessIInv
<1>1. Shape
  BY ShapeInit
<1>2. /\ handler = [h \in Handler |-> Idle] /\ latest \in Subscription
      /\ \/ /\ row = [s \in Subscription |-> NoRow]
            /\ cycle = NoCycles
         \/ /\ row = [s \in Subscription |-> IF s = latest THEN FirstRow ELSE NoRow]
            /\ cycle = [NoCycles EXCEPT ![<<latest, 1>>] = "open"]
  BY StripeAssumption DEF ManagedInit, Init
<1>3. Agree
  BY <1>2, ConstantTypes DEF Agree
<1>4. RevokedIsSticky
  BY <1>2 DEF RevokedIsSticky, NoRow, FirstRow
<1>5. OpenCycleHasAccess
  <2> SUFFICES ASSUME NEW k \in Key, cycle[k] = "open"
               PROVE  HasAccess(k[1])
    BY DEF OpenCycleHasAccess
  <2>1. k \in CycleKey
    BY ConstantTypes
  <2>2. NoCycles[k] = "none"
    BY <2>1 DEF NoCycles
  <2>3. k = <<latest, 1>> /\ row[latest] = FirstRow
    BY <1>2, <2>1, <2>2 DEF NoCycles
  <2> QED
    BY <2>3 DEF HasAccess, FirstRow, Active
<1> QED
  BY <1>1, <1>3, <1>4, <1>5 DEF AccessIInv

LEMMA QuietKeepsAccess ==
  ASSUME AccessIInv, QuietMove
  PROVE  Agree' /\ OpenCycleHasAccess' /\ RevokedIsSticky'
<1>1. Shape
  BY DEF AccessIInv
<1>2. /\ handler' = handler /\ RowsAlike /\ (overlapped => overlapped')
      /\ StripeMove
  BY DEF QuietMove
<1>3. \A h \in Handler : handler[h].event # 0 =>
        Recorded(h)' = Recorded(h) /\ Recorded(h).sub \in Subscription
  BY <1>1, <1>2, RecordedStays, ShapeFacts
<1>4. Agree'
  <2> SUFFICES ASSUME ~overlapped', NEW h \in Handler, handler'[h].pc = "commit"
               PROVE  Same(handler'[h].row, row'[Recorded(h)'.sub]) /\ handler'[h].cycle = cycle'
    BY DEF Agree
  <2>1. handler[h].pc = "commit" /\ handler'[h] = handler[h] /\ handler[h].event # 0
    BY <1>1, <1>2, ShapeFacts
  <2>2. Same(handler[h].row, row[Recorded(h).sub]) /\ handler[h].cycle = cycle
    BY <1>2, <2>1 DEF AccessIInv, Agree
  <2>3. cycle' = cycle
    BY <2>1 DEF QuietMove
  <2> QED
    BY <1>2, <1>3, <2>1, <2>2, <2>3 DEF Same, RowsAlike
<1>5. \A k \in Key : HasAccess(k[1])' <=> HasAccess(k[1])
  BY <1>2 DEF HasAccess, RowsAlike, Key
<1>6. OpenCycleHasAccess'
  BY <1>2, <1>5 DEF AccessIInv, OpenCycleHasAccess, QuietMove
<1>7. RevokedIsSticky'
  BY <1>2 DEF AccessIInv, RevokedIsSticky, RowsAlike
<1> QED
  BY <1>4, <1>6, <1>7

LEMMA ReadsKeepAccess ==
  ASSUME AccessIInv, NEW h \in Handler, ReadStep(h)
  PROVE  Agree' /\ OpenCycleHasAccess' /\ RevokedIsSticky'
<1>1. Shape
  BY DEF AccessIInv
<1>2. HandlerStepped(h) /\ handler' = [handler EXCEPT ![h] = handler'[h]]
  BY <1>1, ReadFacts
<1>3. UNCHANGED <<row, cycle, overlapped>> /\ UNCHANGED stripeVars
  BY <1>1, ReadFacts
<1>4. Agree'
  <2> SUFFICES ASSUME ~overlapped', NEW g \in Handler, handler'[g].pc = "commit"
               PROVE  Same(handler'[g].row, row'[Recorded(g)'.sub]) /\ handler'[g].cycle = cycle'
    BY DEF Agree
  <2>1. Recorded(g)' = Recorded(g)
    BY <1>1, <1>2, <1>3, SteppedTypes
  <2>2. CASE g = h
    BY <1>2, <1>3, <2>1, <2>2 DEF HandlerStepped, Same
  <2>3. CASE g # h
    <3>1. handler'[g] = handler[g]
      BY <1>2, <2>3 DEF HandlerStepped
    <3> QED
      BY <1>3, <2>1, <3>1 DEF AccessIInv, Agree
  <2> QED
    BY <2>2, <2>3
<1>5. OpenCycleHasAccess' /\ RevokedIsSticky'
  BY <1>3 DEF AccessIInv, OpenCycleHasAccess, RevokedIsSticky, HasAccess
<1> QED
  BY <1>4, <1>5

\* After a commit that did not overlap no handler has read anything yet.
LEMMA CommitAgrees ==
  ASSUME Shape, NEW h \in Handler, SyncCommit(h) \/ RefundCommit(h), ~overlapped'
  PROVE  /\ ~overlapped /\ \A g \in Handler : handler'[g].pc # "commit"
         /\ \A g \in Handler \ {h} : handler[g].pc \notin {"commit", "override", "note"}
<1>1. overlapped' = (overlapped \/ Overlaps(h))
  BY DEF SyncCommit, RefundCommit
<1>2. ~overlapped /\ \A g \in Handler \ {h} : handler[g].pc \notin {"commit", "override", "note"}
  BY <1>1 DEF Overlaps
<1>3. handler'[h].pc # "commit" /\ \A g \in Handler \ {h} : handler'[g] = handler[g]
  BY CommitSteps DEF HandlerStepped
<1> QED
  BY <1>2, <1>3

\* The row a sync writes after reading what is there.
LEMMA SyncedRow ==
  ASSUME AccessIInv, NEW h \in Handler, SyncCommit(h), SyncWrites(h), ~overlapped
  PROVE  LET s == Recorded(h).sub
             new == Synced(handler[h].row, handler[h].data, Recorded(h)) IN
         /\ s \in Subscription /\ handler[h].cycle = cycle
         /\ row'[s].status = handler[h].data.status /\ row'[s].period = handler[h].data.period
         /\ row'[s].revoked = new.revoked /\ new.status = handler[h].data.status
         /\ row'[s].revoked =>
              row[s].revoked /\ row'[s].invoiceStatus = "refunded"
         /\ row[s].revoked => row'[s].revoked
         /\ \A t \in Subscription \ {s} : row'[t] = row[t]
<1> DEFINE me == handler[h]
           s == Recorded(h).sub
           new == Synced(me.row, me.data, Recorded(h))
<1>1. Shape /\ Agree /\ RevokedIsSticky
  BY DEF AccessIInv
<1>2. me.pc = "commit" /\ Recorded(h).kind # "refund" /\ UNCHANGED stripeVars
  BY SyncCases
<1>3. /\ me.data \in Payload /\ me.row \in Row /\ Recorded(h) \in Event /\ row[s] \in Row
      /\ s \in Subscription
  BY <1>1, <1>2, CommitFacts
<1>4. /\ row'[s] = Merged(row[s], me.row, new) /\ new \in Row
      /\ new.status = me.data.status /\ new.period = me.data.period
      /\ \A t \in Subscription \ {s} : row'[t] = row[t]
  BY <1>1, <1>2, SyncWritten
<1>5. Same(me.row, row[s]) /\ me.cycle = cycle
  BY <1>1, <1>2 DEF Agree
<1>6. /\ new.revoked = StaysRevoked(me.row, me.data)
      /\ new.invoiceStatus = IF Sticky(me.row) \/ Recorded(h).paid = "none"
                             THEN me.row.invoiceStatus ELSE Recorded(h).paid
  BY <1>3, SyncedFields
<1> HIDE DEF new
<1>7. /\ row'[s].status = new.status /\ row'[s].period = new.period
      /\ row'[s].revoked = new.revoked /\ row'[s].invoiceStatus = new.invoiceStatus
  BY <1>3, <1>4, <1>5, MergedFields DEF Same
<1>8. row[s].revoked => Sticky(me.row)
  BY <1>1, <1>3, <1>5 DEF RevokedIsSticky, Same, Sticky
<1>9. new.revoked => row[s].revoked /\ new.invoiceStatus = "refunded"
  BY <1>5, <1>6, <1>8 DEF StaysRevoked, Sticky, Same
<1>10. row[s].revoked => new.revoked
  <2>1. ASSUME row[s].revoked
        PROVE  StaysRevoked(me.row, me.data)
    BY <1>8, <2>1 DEF StaysRevoked, Sticky
  <2> QED
    BY <1>6, <2>1
<1> QED
  BY <1>3, <1>4, <1>5, <1>7, <1>9, <1>10 DEF new

\* The row a refund writes.
LEMMA RefundedRow ==
  ASSUME AccessIInv, NEW h \in Handler, RefundCommit(h), ~overlapped
  PROVE  LET s == Recorded(h).sub IN
         /\ s \in Subscription /\ handler[h].cycle = cycle
         /\ row'[s].status = row[s].status /\ row'[s].period = row[s].period
         /\ row'[s].revoked /\ row'[s].invoiceStatus = "refunded"
         /\ \A t \in Subscription \ {s} : row'[t] = row[t]
<1> DEFINE me == handler[h]
           s == Recorded(h).sub
           new == Refunded(me.row)
<1>1. Shape /\ Agree
  BY DEF AccessIInv
<1>2. /\ me.pc = "commit" /\ s \in Subscription
      /\ row'[s] = Merged(row[s], me.row, new) /\ new \in Row
      /\ \A t \in Subscription \ {s} : row'[t] = row[t]
  BY <1>1, RefundWritten
<1>3. me.row \in Row /\ row[s] \in Row
  BY <1>1, <1>2, CommitFacts
<1>4. Same(me.row, row[s]) /\ me.cycle = cycle
  BY <1>1, <1>2 DEF Agree
<1>5. /\ new.status = me.row.status /\ new.period = me.row.period
      /\ new.revoked = TRUE /\ new.invoiceStatus = "refunded"
  BY <1>3, RefundedFields
<1> HIDE DEF new
<1>6. /\ row'[s].status = IF new.status # me.row.status THEN new.status ELSE row[s].status
      /\ row'[s].period = IF new.period # me.row.period THEN new.period ELSE row[s].period
      /\ row'[s].invoiceStatus = IF new.invoiceStatus # me.row.invoiceStatus
                                 THEN new.invoiceStatus ELSE row[s].invoiceStatus
      /\ row'[s].revoked = IF new.revoked # me.row.revoked THEN new.revoked ELSE row[s].revoked
  BY <1>2, <1>3, MergedFields
<1>7. row'[s].revoked
  BY <1>3, <1>4, <1>5, <1>6, RowFields DEF Same
<1> QED
  BY <1>2, <1>3, <1>4, <1>5, <1>6, <1>7 DEF Same

LEMMA CommitsKeepAccess ==
  ASSUME AccessIInv, NEW h \in Handler, SyncCommit(h) \/ RefundCommit(h)
  PROVE  Agree' /\ OpenCycleHasAccess' /\ RevokedIsSticky'
<1>1. Shape
  BY DEF AccessIInv
<1>2. Agree'
  BY <1>1, CommitAgrees DEF Agree
<1>3. SUFFICES ASSUME ~overlapped'
               PROVE  OpenCycleHasAccess' /\ RevokedIsSticky'
  BY <1>2 DEF OpenCycleHasAccess, RevokedIsSticky
<1>4. ~overlapped
  BY <1>1, <1>3, CommitAgrees
<1> DEFINE s == Recorded(h).sub
           me == handler[h]
<1>5. handler[h].pc = "commit" /\ me.cycle \in Cycles /\ cycle \in Cycles
      /\ s \in Subscription
  BY <1>1, CommitFacts, ShapeFacts DEF SyncCommit, RefundCommit
<1>6. OpenCycleHasAccess /\ RevokedIsSticky
  BY DEF AccessIInv
<1>7. CASE SyncCommit(h) /\ ~SyncWrites(h)
  <2>1. UNCHANGED <<row, cycle>>
    BY <1>7, SyncCases DEF rowVars
  <2> QED
    BY <1>4, <1>6, <2>1 DEF OpenCycleHasAccess, RevokedIsSticky, HasAccess
<1>8. CASE SyncCommit(h) /\ SyncWrites(h)
  <2> DEFINE new == Synced(me.row, me.data, Recorded(h))
             k == <<s, me.data.period>>
             allowed == new.status \in Active /\ ~new.revoked
  <2>1. /\ me.cycle = cycle
        /\ row'[s].status = me.data.status /\ row'[s].period = me.data.period
        /\ row'[s].revoked = new.revoked /\ new.status = me.data.status
        /\ row'[s].revoked => row[s].revoked /\ row'[s].invoiceStatus = "refunded"
        /\ \A t \in Subscription \ {s} : row'[t] = row[t]
    BY <1>4, <1>8, SyncedRow
  <2>2. RevokedIsSticky'
    BY <1>4, <1>6, <2>1 DEF RevokedIsSticky
  <2>3. cycle' = IF allowed THEN Opened(cycle, k) ELSE WithOpen(cycle, "closed")
    BY <1>8, <2>1 DEF SyncWrites
  <2>4. row'[s].status \in Active /\ ~row'[s].revoked <=> allowed
    BY <2>1
  <2>5. k \in CycleKey
    BY <1>1, <1>5, <1>8, CommitFacts, SyncCases DEF Known, CycleKey, Key
  <2> HIDE DEF new, allowed, k
  <2>6. CASE allowed
    <3>1. \A j \in CycleKey : cycle'[j] = "open" => j = k \/ cycle[j] = "open"
      <4>1. \A j \in CycleKey : Opened(cycle, k)[j] =
              IF cycle[k] = "none"
                THEN IF j = k THEN "open" ELSE IF cycle[j] = "open" THEN "closed" ELSE cycle[j]
              ELSE IF cycle[k] # "open" /\ j = k THEN "open" ELSE cycle[j]
        BY <1>5, <2>5, OpenedType
      <4> QED
        BY <2>3, <2>6, <4>1
    <3> SUFFICES ASSUME NEW j \in Key, cycle'[j] = "open"
                 PROVE  HasAccess(j[1])'
      BY <2>2 DEF OpenCycleHasAccess
    <3>2. j \in CycleKey /\ j[1] \in Subscription
      BY ConstantTypes DEF Key
    <3>3. CASE j[1] = s
      BY <2>4, <2>6, <3>3 DEF HasAccess
    <3>4. CASE j[1] # s
      <4>1. cycle[j] = "open"
        BY <3>1, <3>2, <3>4 DEF k
      <4>2. HasAccess(j[1])
        BY <1>4, <1>6, <4>1 DEF OpenCycleHasAccess
      <4> QED
        BY <2>1, <3>2, <3>4, <4>2 DEF HasAccess
    <3> QED
      BY <3>3, <3>4
  <2>7. CASE ~allowed
    <3>1. \A j \in CycleKey : cycle'[j] # "open"
      <4>1. \A j \in CycleKey :
              WithOpen(cycle, "closed")[j] = IF cycle[j] = "open" THEN "closed" ELSE cycle[j]
        BY <1>5, WithOpenType DEF CycleStatus
      <4> QED
        BY <2>3, <2>7, <4>1
    <3> QED
      BY <2>2, <3>1, ConstantTypes DEF OpenCycleHasAccess
  <2> QED
    BY <2>6, <2>7
<1>9. CASE RefundCommit(h)
  <2>1. /\ me.cycle = cycle /\ row'[s].invoiceStatus = "refunded"
        /\ \A t \in Subscription \ {s} : row'[t] = row[t]
    BY <1>4, <1>9, RefundedRow
  <2>2. RevokedIsSticky'
    BY <1>4, <1>6, <2>1 DEF RevokedIsSticky
  <2>3. cycle' = WithOpen(cycle, "revoked")
    BY <1>1, <1>9, <2>1, RefundWritten
  <2>4. \A j \in CycleKey : cycle'[j] # "open"
    <3>1. \A j \in CycleKey :
            WithOpen(cycle, "revoked")[j] = IF cycle[j] = "open" THEN "revoked" ELSE cycle[j]
      BY <1>5, WithOpenType DEF CycleStatus
    <3> QED
      BY <2>3, <3>1
  <2> QED
    BY <2>2, <2>4, ConstantTypes DEF OpenCycleHasAccess
<1> QED
  BY <1>7, <1>8, <1>9

LEMMA AccessStep ==
  ASSUME AccessIInv, [ManagedNext]_managedVars
  PROVE  AccessIInv'
<1>1. Shape /\ Shape'
  BY ShapeStep DEF AccessIInv
<1>2. Agree' /\ OpenCycleHasAccess' /\ RevokedIsSticky'
  <2>1. CASE QuietMove
    BY <2>1, QuietKeepsAccess
  <2>2. ASSUME NEW h \in Handler,
               \/ \E e \in EventNo : Deliver(h, e)
               \/ HandlerStep(h) \/ FetchFails(h) \/ Abort(h)
        PROVE  Agree' /\ OpenCycleHasAccess' /\ RevokedIsSticky'
    BY <2>2, ReadsKeepAccess, CommitsKeepAccess DEF HandlerStep, ReadStep
  <2> QED
    BY <1>1, <2>1, <2>2, QuietOrHandler
<1> QED
  BY <1>1, <1>2 DEF AccessIInv

LEMMA AccessInvariant == ManagedSpec => []AccessIInv
<1>1. ManagedInit => AccessIInv
  BY AccessInit
<1>2. AccessIInv /\ [ManagedNext]_managedVars => AccessIInv'
  BY AccessStep
<1> QED
  BY <1>1, <1>2, PTL DEF ManagedSpec

\* Unless handlers overlapped, a cycle is open only while its subscription gives access:
\* the sync that ends access closes it, the refund revokes it, in the same transaction.
THEOREM AccessAgrees == ManagedSpec => []AccessInv
<1>1. AccessIInv => AccessInv
  BY DEF AccessIInv, AccessInv, Shape
<1> QED
  BY <1>1, AccessInvariant, PTL

\* No step of a handler, of an administrator's request or of Stripe gives back the access
\* a refund revoked, unless handlers overlap.
THEOREM RefundsStick == ManagedSpec => RefundSticks
<1> DEFINE Kept == \A s \in Subscription : row[s].revoked => row'[s].revoked \/ overlapped
<1>1. ASSUME AccessIInv, [ManagedNext]_managedVars
      PROVE  Kept
  <2>1. Shape
    BY <1>1 DEF AccessIInv
  <2>2. CASE QuietMove
    BY <2>2 DEF QuietMove, RowsAlike
  <2>3. ASSUME NEW h \in Handler,
               \/ \E e \in EventNo : Deliver(h, e)
               \/ HandlerStep(h) \/ FetchFails(h) \/ Abort(h)
        PROVE  Kept
    <3>1. CASE SyncCommit(h)
      <4>1. CASE SyncWrites(h)
        BY <1>1, <3>1, <4>1, SyncedRow
      <4>2. CASE ~SyncWrites(h)
        BY <2>1, <3>1, <4>2, SyncCases DEF rowVars
      <4> QED
        BY <4>1, <4>2
    <3>2. CASE RefundCommit(h)
      BY <1>1, <3>2, RefundedRow
    <3>3. CASE ReadStep(h)
      BY <2>1, <3>3, ReadFacts
    <3> QED
      BY <2>3, <3>1, <3>2, <3>3 DEF HandlerStep, ReadStep
  <2> QED
    BY <1>1, <2>1, <2>2, <2>3, QuietOrHandler
<1>2. AccessIInv /\ [ManagedNext]_managedVars => [Kept]_vars
  BY <1>1
<1> QED
  BY <1>2, AccessInvariant, PTL DEF ManagedSpec, RefundSticks

-----------------------------------------------------------------------------
\* What steps do to overrides

\* The override that waits is moved to the end of a period; others are left alone.
Moved(s, p) ==
  /\ override' \in Seq(Override) /\ Len(override') = Len(override)
  /\ \A j \in 1 .. Len(override) :
       /\ override'[j].revoked = override[j].revoked
       /\ override'[j].start = IF j = PendingOverride THEN <<s, p>> ELSE override[j].start

\* A sync moves it, without access in the transaction of the row, with access in the next.
LEMMA SyncMoves ==
  ASSUME Shape, NEW h \in Handler, SyncCommit(h), SyncWrites(h)
  PROVE  LET s == Recorded(h).sub
             p == handler[h].data.period IN
         /\ s \in Subscription /\ p \in Period /\ Bought(s) /\ row'[s] # NoRow /\ latest' = s
         /\ UNCHANGED stripeVars /\ UNCHANGED superuser
         /\ \/ UNCHANGED override /\ handler'[h].pc = "override"
            \/ Moved(s, p)
<1> DEFINE me == handler[h]
           s == Recorded(h).sub
           new == Synced(me.row, me.data, Recorded(h))
           allowed == new.status \in Active /\ ~new.revoked
<1>1. /\ override' = IF allowed THEN override ELSE PendingMoved(s, new.period)
      /\ handler' = [handler EXCEPT ![h].pc = IF allowed THEN "override" ELSE "note",
                                    ![h].row = NoRow, ![h].cycle = NoCycles]
      /\ UNCHANGED stripeVars /\ UNCHANGED superuser
      /\ me.pc = "commit" /\ Recorded(h).kind # "refund" /\ latest' = s
  BY SyncCases DEF SyncWrites
<1>2. /\ new.period = me.data.period /\ new.period \in Period /\ s \in Subscription
      /\ row'[s] # NoRow
  BY <1>1, SyncWritten
<1>3. Bought(s) /\ handler \in [Handler -> HandlerState]
  BY <1>1, ShapeFacts, ConstantTypes DEF Shape, TypeOK
<1>4. allowed => handler'[h].pc = "override"
  BY <1>1, <1>3, HandlerFields DEF HandlerState
<1> HIDE DEF new, allowed
<1>5. ~allowed => Moved(s, new.period)
  BY <1>1, <1>2, ShapeFacts, PendingMovedFacts DEF Moved
<1> QED
  BY <1>1, <1>2, <1>3, <1>4, <1>5

\* Webhooks change overrides by moving the one that waits; nobody else does but requests.
LEMMA OverrideMoves ==
  ASSUME Shape, Next
  PROVE  /\ UNCHANGED superuser
         /\ \/ UNCHANGED override
            \/ \E h \in Handler : MoveOverride(h) \/ (SyncCommit(h) /\ SyncWrites(h))
<1>1. ASSUME NEW h \in Handler, SyncCommit(h)
      PROVE  UNCHANGED superuser /\ (UNCHANGED override \/ SyncWrites(h))
  BY <1>1, SyncCases DEF rowVars, accessVars, SyncWrites
<1>2. CASE StripeStep
  <2>1. UNCHANGED serverVars
    BY <1>2, StripeStepMove, ShapeFacts
  <2> QED
    BY <2>1 DEF serverVars, rowVars, accessVars
<1>3. ASSUME NEW h \in Handler, ReadStep(h)
      PROVE  UNCHANGED superuser /\ (UNCHANGED override \/ MoveOverride(h))
  BY <1>3, ReadFacts
<1>4. ASSUME NEW h \in Handler, RefundCommit(h)
      PROVE  UNCHANGED <<override, superuser>>
  BY <1>4 DEF RefundCommit, accessVars
<1>5. CASE \/ ReadSummary \/ \E s \in Subscription : OpenCheckout(s)
           \/ \E k \in Key : DismissNotice(k)
  BY <1>5 DEF ReadSummary, OpenCheckout, DismissNotice, serverVars, rowVars, accessVars
<1> QED
  BY <1>1, <1>2, <1>3, <1>4, <1>5 DEF Next, HandlerStep, ReadStep

\* ... to a subscription that was bought.
LEMMA MovedFor ==
  ASSUME Shape, Next
  PROVE  /\ UNCHANGED superuser
         /\ \/ UNCHANGED override
            \/ /\ \E s \in Subscription, p \in Period : Bought(s) /\ Moved(s, p)
               /\ UNCHANGED stripeVars
<1>1. ASSUME NEW h \in Handler, MoveOverride(h)
      PROVE  \/ UNCHANGED override
             \/ /\ \E s \in Subscription, p \in Period : Bought(s) /\ Moved(s, p)
                /\ UNCHANGED stripeVars
  <2> DEFINE s == Recorded(h).sub
             p == row[s].period
  <2>1. /\ s \in Subscription /\ Bought(s) /\ UNCHANGED stripeVars
        /\ UNCHANGED override \/ (p \in Period /\ override' = PendingMoved(s, p))
    BY <1>1, MoveFacts
  <2>2. p \in Period /\ override' = PendingMoved(s, p) => Moved(s, p)
    BY <2>1, ShapeFacts, PendingMovedFacts DEF Moved
  <2> HIDE DEF s, p
  <2> QED
    BY <2>1, <2>2
<1>2. ASSUME NEW h \in Handler, SyncCommit(h), SyncWrites(h)
      PROVE  \/ UNCHANGED override
             \/ /\ \E s \in Subscription, p \in Period : Bought(s) /\ Moved(s, p)
                /\ UNCHANGED stripeVars
  BY <1>2, SyncMoves
<1> QED
  BY <1>1, <1>2, OverrideMoves

\* When time does not run backwards, what has started has started.
LEMMA StartedStays ==
  ASSUME ended \subseteq ended', NEW start, Started(start)
  PROVE  Started(start)'
BY DEF Started

\* Nothing begins to wait while the overrides stay as they are.
LEMMA WaitingKept ==
  ASSUME UNCHANGED override, ended \subseteq ended'
  PROVE  Waiting' \subseteq Waiting
BY StartedStays DEF Waiting, Live

-----------------------------------------------------------------------------
\* Profiles

OneLive == ~doubled /\ ~crossed => \A i, j \in Live : i = j

\* What a request was allowed to do, it still is when it does it ...
RankSound(a) ==
  LET me == request[a] IN
  /\ me.pc = "rank" /\ me.rank = "superuser" => Live = {} /\ me.profile # "ambassador"
  /\ /\ me.profile = "ambassador"
     /\ me.pc \in {"rank", "profile"} \/ (me.pc \in {"ask", "commit"} /\ me.after = "profile")
     => ~superuser

\* ... and the overrides it has read are all there are.
ReadSound(a) ==
  LET me == request[a] IN
  me.pc \in {"ask", "commit"} /\ me.after = "profile" => Live \subseteq {me.active, me.pending}

Allowances ==
  /\ ~crossed => \A a \in Admin : RankSound(a)
  /\ ~crossed /\ ~doubled => \A a \in Admin : ReadSound(a)

ProfileParts == RanksExclude /\ StandardIsStandard /\ OneLive /\ Allowances
ProfileIInv == Shape /\ ProfileParts

LEMMA ProfileInit ==
  ASSUME ManagedInit
  PROVE  ProfileIInv
<1>1. /\ request = [a \in Admin |-> NoRequest] /\ override = <<>> /\ superuser = FALSE
      /\ profile = "none"
  BY DEF ManagedInit, Init
<1>2. Live = {}
  BY <1>1 DEF Live
<1>3. \A a \in Admin : RankSound(a) /\ ReadSound(a)
  BY <1>1, NoRequestType DEF RankSound, ReadSound
<1> QED
  BY <1>1, <1>2, <1>3, ShapeInit DEF ProfileIInv, ProfileParts, RanksExclude, StandardIsStandard,
     OneLive, Allowances

\* Overrides that only move stay live.
LEMMA LiveStays ==
  ASSUME override \in Seq(Override), override' \in Seq(Override), Len(override') = Len(override),
         \A j \in 1 .. Len(override) : override'[j].revoked = override[j].revoked
  PROVE  Live' = Live
<1>1. DOMAIN override = 1 .. Len(override) /\ DOMAIN override' = 1 .. Len(override)
  BY LenProperties
<1> QED
  BY <1>1 DEF Live

\* Handlers, Stripe and the user leave ranks and profiles alone.
LEMMA BillingKeepsLive ==
  ASSUME Shape, Next
  PROVE  superuser' = superuser /\ Live' = Live
<1>1. CASE UNCHANGED override
  BY <1>1, MovedFor DEF Live
<1>2. ASSUME NEW s, NEW p, Moved(s, p)
      PROVE  Live' = Live
  BY <1>2, ShapeFacts, LiveStays DEF Moved
<1> QED
  BY <1>1, <1>2, MovedFor

LEMMA OthersKeepProfile ==
  ASSUME ProfileIInv, UNCHANGED <<superuser, profile, request, doubled>>, Live' = Live,
         crossed => crossed'
  PROVE  ProfileParts'
<1>1. ProfileParts
  BY DEF ProfileIInv
<1>2. RanksExclude' /\ StandardIsStandard' /\ OneLive'
  BY <1>1 DEF ProfileParts, RanksExclude, StandardIsStandard, OneLive
<1>3. Allowances'
  BY <1>1 DEF ProfileParts, Allowances, RankSound, ReadSound
<1> QED
  BY <1>2, <1>3 DEF ProfileParts

\* Which step of a request changes what.
LEMMA AdminMoves ==
  ASSUME Shape, NEW a \in Admin, AdminStep(a)
  PROVE  /\ crossed => crossed'
         /\ doubled => doubled'
         /\ \/ UNCHANGED <<superuser, override, profile>>
            \/ WriteRank(a) /\ UNCHANGED <<override, profile, doubled>>
            \/ CommitProfile(a) /\ UNCHANGED superuser
         /\ request[a].pc = "idle" => UNCHANGED <<superuser, override>>
<1>1. CASE \E rank \in Rank \cup {"none"}, wanted \in Profile \cup {"none"} :
             Validate(a, rank, wanted)
  BY <1>1 DEF Validate, accessVars, requestHistory
<1>2. CASE WriteRank(a)
  BY <1>2 DEF WriteRank
<1>3. CASE ReadProfile(a) \/ ReadPromoted(a)
  BY <1>3 DEF ReadProfile, ReadPromoted, vars, rowVars, accessVars, requestHistory
<1>4. CASE AskStripe(a) \/ StripeFails(a)
  BY <1>4 DEF AskStripe, StripeFails, serverVars, rowVars, accessVars, requestHistory
<1>5. CASE CommitProfile(a)
  BY <1>5 DEF CommitProfile
<1>6. CASE CommitPromoted(a)
  <2>1. /\ UNCHANGED accessVars /\ UNCHANGED <<doubled, profile>>
        /\ crossed' = (crossed \/ Disturbs(a)) /\ request[a].pc = "commit"
    BY <1>6 DEF CommitPromoted
  <2> QED
    BY <2>1 DEF accessVars
<1>7. CASE Respond(a)
  BY <1>7 DEF Respond, accessVars, requestHistory
<1> QED
  BY <1>1, <1>2, <1>3, <1>4, <1>5, <1>6, <1>7 DEF AdminStep

\* When a request ranks or commits undisturbed, no other is under way.
LEMMA AloneWhenWriting ==
  ASSUME Shape, NEW a \in Admin, AdminStep(a), ~crossed'
  PROVE  /\ ~crossed
         /\ superuser' # superuser \/ override' # override =>
              \A b \in Admin \ {a} : ~Working(b)
<1>1. ~crossed
  BY AdminMoves
<1>2. CASE UNCHANGED <<superuser, override>>
  BY <1>1, <1>2
<1>3. CASE WriteRank(a) /\ UNCHANGED override
  <2>1. crossed' = (crossed \/ (superuser' # superuser /\ Disturbs(a)))
    BY <1>3 DEF WriteRank
  <2> QED
    BY <1>1, <1>3, <2>1 DEF Disturbs
<1>4. CASE CommitProfile(a)
  <2>1. crossed' = (crossed \/ Disturbs(a))
    BY <1>4 DEF CommitProfile
  <2> QED
    BY <1>1, <2>1 DEF Disturbs
<1> QED
  BY <1>2, <1>3, <1>4, AdminMoves

LEMMA AllowancesKept ==
  ASSUME ProfileIInv, NEW a \in Admin, AdminStep(a), ~crossed'
  PROVE  Allowances'
<1> DEFINE me == request[a]
           new == request'[a]
<1>1. /\ Shape /\ ~crossed /\ (doubled => doubled')
      /\ superuser' # superuser \/ override' # override => \A b \in Admin \ {a} : ~Working(b)
      /\ \/ UNCHANGED <<superuser, override, profile>>
         \/ WriteRank(a) /\ UNCHANGED <<override, profile, doubled>>
         \/ CommitProfile(a) /\ UNCHANGED superuser
      /\ me.pc = "idle" => UNCHANGED <<superuser, override>>
  BY AdminMoves, AloneWhenWriting DEF ProfileIInv
<1>2. /\ RequestStepped(a) /\ request \in [Admin -> RequestState] /\ me \in RequestState
      /\ new \in RequestState
  BY <1>1, AdminStepped DEF RequestStepped, Shape, ManagedTypeOK
<1>3. /\ \A b \in Admin : RankSound(b)
      /\ ~doubled => (\A b \in Admin : ReadSound(b)) /\ (\A i, j \in Live : i = j)
  BY <1>1 DEF ProfileIInv, ProfileParts, Allowances, OneLive
<1>4. override' = override => Live' = Live
  BY DEF Live
<1>5. ASSUME NEW b \in Admin \ {a}
      PROVE  RankSound(b)' /\ (~doubled' => ReadSound(b)')
  <2>1. request'[b] = request[b]
    BY <1>2 DEF RequestStepped
  <2>2. CASE Working(b)
    <3>1. superuser' = superuser /\ Live' = Live
      BY <1>1, <1>4, <2>2
    <3> QED
      BY <1>1, <1>3, <2>1, <3>1 DEF RankSound, ReadSound
  <2>3. CASE ~Working(b)
    BY <2>1, <2>3 DEF Working, RankSound, ReadSound
  <2> QED
    BY <2>2, <2>3
<1>6. me.pc \in {"profile", "ask"} => superuser' = superuser /\ override' = override
  BY <1>1 DEF WriteRank, CommitProfile
<1>7. \/ new.pc \notin {"ask", "commit"} \/ new.after # "profile"
      \/ /\ me.pc = "profile" /\ new.profile = me.profile
         /\ new.active = ActiveOverride /\ new.pending = PendingOverride
      \/ /\ me.pc = "ask" /\ me.after = "profile" /\ new.profile = me.profile
         /\ new.active = me.active /\ new.pending = me.pending
  <2>1. CASE new = [me EXCEPT !.pc = "commit"] /\ me.pc = "ask"
    <3>1. /\ new.after = me.after /\ new.profile = me.profile
          /\ new.active = me.active /\ new.pending = me.pending
      BY <1>2, <2>1 DEF RequestState
    <3> QED
      BY <2>1, <3>1
  <2> QED
    BY <1>2, <2>1 DEF RequestStepped
<1>8. RankSound(a)'
  <2>1. ASSUME new.pc = "rank", new.rank = "superuser"
        PROVE  Live' = {} /\ new.profile # "ambassador"
    <3>1. me.pc = "idle" /\ Allowed(new.rank, new.profile)
      BY <1>2, <2>1 DEF RequestStepped
    <3> QED
      BY <1>1, <1>4, <2>1, <3>1 DEF Allowed, AccessProfile
  <2>2. ASSUME new.profile = "ambassador", new.pc = "rank"
        PROVE  ~superuser'
    <3>1. me.pc = "idle" /\ Allowed(new.rank, new.profile)
      BY <1>2, <2>2 DEF RequestStepped
    <3> QED
      BY <1>1, <2>2, <3>1 DEF Allowed
  <2>3. ASSUME new.profile = "ambassador", new.pc = "profile"
        PROVE  ~superuser'
    <3>1. CASE me.pc = "idle" /\ Allowed("none", new.profile)
      BY <1>1, <2>3, <3>1 DEF Allowed
    <3>2. CASE me.pc = "rank" /\ new.profile = me.profile
      <4>1. ~superuser /\ me.rank # "superuser"
        BY <1>3, <2>3, <3>2 DEF RankSound
      <4> QED
        BY <1>1, <4>1 DEF WriteRank
    <3> QED
      BY <1>2, <2>3, <3>1, <3>2 DEF RequestStepped
  <2>4. ASSUME new.profile = "ambassador", new.pc \in {"ask", "commit"}, new.after = "profile"
        PROVE  ~superuser'
    BY <1>3, <1>6, <1>7, <2>4 DEF RankSound
  <2> QED
    BY <2>1, <2>2, <2>3, <2>4 DEF RankSound
<1>9. ASSUME ~doubled', new.pc \in {"ask", "commit"}, new.after = "profile"
      PROVE  Live' \subseteq {new.active, new.pending}
  <2>1. /\ Live' = Live /\ ~doubled
    BY <1>1, <1>4, <1>6, <1>7, <1>9
  <2>2. CASE /\ me.pc = "profile"
             /\ new.active = ActiveOverride /\ new.pending = PendingOverride
    <3>1. /\ Begun \cup Waiting = Live
          /\ Begun # {} => ActiveOverride \in Begun
          /\ Waiting # {} => PendingOverride \in Waiting
      BY <1>1, ShapeFacts, OverrideFacts
    <3>2. \A i, j \in Live : i = j
      BY <1>3, <2>1
    <3>3. ASSUME NEW i \in Live
          PROVE  i \in {ActiveOverride, PendingOverride}
      BY <3>1, <3>2, <3>3
    <3> QED
      BY <2>1, <2>2, <3>3
  <2>3. CASE /\ me.pc = "ask" /\ me.after = "profile"
             /\ new.active = me.active /\ new.pending = me.pending
    BY <1>3, <2>1, <2>3 DEF ReadSound
  <2> QED
    BY <1>7, <1>9, <2>2, <2>3
<1> QED
  BY <1>5, <1>8, <1>9 DEF Allowances, ReadSound

\* The commit of a profile, when nothing crossed it.
LEMMA CommitKeepsProfile ==
  ASSUME ProfileIInv, NEW a \in Admin, AdminStep(a), CommitProfile(a), UNCHANGED superuser,
         ~crossed, doubled => doubled'
  PROVE  /\ ~(superuser' /\ Live' # {})
         /\ profile' = "standard" /\ ~doubled' => Live' = {}
         /\ ~doubled' => \A i, j \in Live' : i = j
<1> DEFINE me == request[a]
           n == Len(override)
<1>1. /\ me.pc = "commit" /\ me.after = "profile" /\ profile' = me.profile
      /\ override' = IF me.profile = "ambassador" THEN Granted(me) ELSE Withdrawn(me)
      /\ doubled' = (doubled \/ (Live # {} /\ Len(override') > Len(override)))
  BY DEF CommitProfile
<1>2. /\ me \in RequestState /\ override \in Seq(Override) /\ n \in Nat
      /\ DOMAIN override = 1 .. n /\ Live \subseteq 1 .. n
      /\ (me.asked => me.read.period \in Period)
  BY <1>1, ShapeFacts, OverrideFacts DEF ProfileIInv, Shape, RequestShape, SoundRequest
<1>3. /\ ~(superuser /\ Live # {})
      /\ RankSound(a) /\ (~doubled => ReadSound(a) /\ \A i, j \in Live : i = j)
  BY DEF ProfileIInv, ProfileParts, Allowances, OneLive, RanksExclude
<1>4. CASE me.profile = "ambassador"
  <2>1. ~superuser'
    BY <1>1, <1>3, <1>4 DEF RankSound
  <2>2. override' = Granted(me) /\ profile' # "standard"
    BY <1>1, <1>4
  <2>3. /\ override' \in Seq(Override) /\ Len(override') \in {n, n + 1}
        /\ \A j \in 1 .. n : override'[j].revoked = override[j].revoked
    BY <1>2, <2>2, GrantedFacts
  <2>4. ASSUME ~doubled'
        PROVE  \A i, j \in Live' : i = j
    <3>1. CASE Len(override') = n
      <4>1. Live' = Live
        BY <1>2, <2>3, <3>1, LiveStays
      <4> QED
        BY <1>3, <2>4, <4>1
    <3>2. CASE Len(override') = n + 1
      <4>1. Live = {}
        <5>1. doubled' <=> doubled \/ (Live # {} /\ Len(override') > Len(override))
          BY <1>1, Zenon
        <5>2. Len(override') > Len(override)
          BY <1>2, <3>2
        <5> QED
          BY <2>4, <5>1, <5>2
      <4>2. DOMAIN override' = 1 .. (n + 1)
        BY <2>3, <3>2, LenProperties
      <4>3. \A i \in 1 .. n : override'[i].revoked
        BY <1>2, <2>3, <4>1 DEF Live
      <4>4. \A i \in Live' : i = n + 1
        BY <1>2, <4>2, <4>3 DEF Live
      <4> QED
        BY <4>4
    <3> QED
      BY <2>3, <3>1, <3>2
  <2> QED
    BY <2>1, <2>2, <2>4
<1>5. CASE me.profile # "ambassador"
  <2>1. override' = Withdrawn(me)
    BY <1>1, <1>5
  <2>2. /\ override' \in Seq(Override) /\ Len(override') = n
        /\ \A j \in 1 .. n : override'[j].revoked
                               = (override[j].revoked \/ j \in {me.active, me.pending})
    BY <1>2, <2>1, WithdrawnFacts
  <2>3. DOMAIN override' = 1 .. n
    BY <2>2, LenProperties
  <2>4. \A j \in Live' : j \in Live /\ j \notin {me.active, me.pending}
    BY <1>2, <2>2, <2>3 DEF Live
  <2>5. ~doubled' => Live' = {}
    BY <1>1, <1>3, <2>4 DEF ReadSound
  <2> QED
    BY <1>3, <2>4, <2>5
<1> QED
  BY <1>4, <1>5

LEMMA AdminKeepsProfile ==
  ASSUME ProfileIInv, NEW a \in Admin, AdminStep(a)
  PROVE  ProfileParts'
<1>1. CASE crossed'
  BY <1>1 DEF ProfileParts, RanksExclude, StandardIsStandard, OneLive, Allowances
<1>2. CASE ~crossed'
  <2>1. /\ Shape /\ ~crossed /\ (doubled => doubled')
        /\ \/ UNCHANGED <<superuser, override, profile>>
           \/ WriteRank(a) /\ UNCHANGED <<override, profile, doubled>>
           \/ CommitProfile(a) /\ UNCHANGED superuser
    BY <1>2, AdminMoves, AloneWhenWriting DEF ProfileIInv
  <2>2. ProfileParts /\ Allowances'
    BY <1>2, AllowancesKept DEF ProfileIInv
  <2>3. RanksExclude' /\ StandardIsStandard' /\ OneLive'
    <3>1. CASE UNCHANGED <<superuser, override, profile>>
      <4>1. Live' = Live
        BY <3>1 DEF Live
      <4> QED
        BY <2>1, <2>2, <3>1, <4>1 DEF ProfileParts, RanksExclude, StandardIsStandard, OneLive
    <3>2. CASE WriteRank(a) /\ UNCHANGED <<override, profile, doubled>>
      <4>1. Live' = Live
        BY <3>2 DEF Live
      <4>2. superuser' => Live = {}
        <5>1. RankSound(a)
          BY <2>1, <2>2 DEF ProfileParts, Allowances
        <5>2. request[a].pc = "rank" /\ superuser' = (request[a].rank = "superuser")
          BY <3>2 DEF WriteRank
        <5> QED
          BY <5>1, <5>2 DEF RankSound
      <4> QED
        BY <2>1, <2>2, <3>2, <4>1, <4>2 DEF ProfileParts, RanksExclude, StandardIsStandard, OneLive
    <3>3. CASE CommitProfile(a) /\ UNCHANGED superuser
      BY <2>1, <3>3, CommitKeepsProfile DEF RanksExclude, StandardIsStandard, OneLive
    <3> QED
      BY <2>1, <3>1, <3>2, <3>3
  <2> QED
    BY <2>2, <2>3 DEF ProfileParts
<1> QED
  BY <1>1, <1>2

LEMMA ProfileStep ==
  ASSUME ProfileIInv, [ManagedNext]_managedVars
  PROVE  ProfileIInv'
<1>1. Shape /\ Shape'
  BY ShapeStep DEF ProfileIInv
<1>2. CASE BillingStep
  <2>1. /\ Next /\ UNCHANGED <<request, doubled, profile>> /\ (crossed => crossed')
    BY <1>2 DEF BillingStep
  <2> QED
    BY <1>1, <2>1, BillingKeepsLive, OthersKeepProfile DEF ProfileIInv
<1>3. ASSUME NEW s \in Subscription, PortalToggle(s)
      PROVE  ProfileParts'
  <2>1. /\ UNCHANGED <<request, crossed, doubled, profile>>
        /\ UNCHANGED serverVars
    BY <1>3 DEF PortalToggle, Emit
  <2>2. UNCHANGED <<superuser, override>>
    BY <2>1 DEF serverVars, rowVars, accessVars
  <2>3. Live' = Live
    BY <2>2 DEF Live
  <2> QED
    BY <2>1, <2>2, <2>3, OthersKeepProfile
<1>4. CASE UNCHANGED managedVars
  <2>1. UNCHANGED <<superuser, override, request, crossed, doubled, profile>>
    BY <1>4 DEF managedVars, vars, rowVars, accessVars, requestVars, requestHistory
  <2>2. Live' = Live
    BY <2>1 DEF Live
  <2> QED
    BY <1>1, <2>1, <2>2, OthersKeepProfile DEF ProfileIInv
<1> QED
  BY <1>1, <1>2, <1>3, <1>4, AdminKeepsProfile DEF ManagedNext, ProfileIInv

\* Unless requests crossed, what administrators set holds: nobody is superuser and has an
\* override that has started or will, and after "standard" no override is left.
THEOREM ProfilesHold == ManagedSpec => []ProfileHolds
<1>1. ManagedInit => ProfileIInv
  BY ProfileInit
<1>2. ProfileIInv /\ [ManagedNext]_managedVars => ProfileIInv'
  BY ProfileStep
<1>3. ProfileIInv => ProfileHolds
  BY DEF ProfileIInv, ProfileParts, ProfileHolds, Shape
<1> QED
  BY <1>1, <1>2, <1>3, PTL DEF ManagedSpec

-----------------------------------------------------------------------------
\* Notices

\* A handler that has written its row is yet to write the notices.
Tells(h) == handler[h].pc \in {"override", "note"}

\* They are those of a refund, or of a sync.
Revoking(s) == \E h \in Handler : /\ handler[h].pc = "note" /\ Recorded(h).kind = "refund"
                                  /\ Recorded(h).sub = s
Pausing(s) == \E h \in Handler : Tells(h) /\ Recorded(h).kind # "refund" /\ Recorded(h).sub = s

\* A revocation is announced, or about to be ...
RevokedTold ==
  budget.aborts = MaxAborts => \A s \in Subscription : row[s].revoked =>
    (\E p \in Period : notice[<<s, p>>].revoked) \/ Revoking(s)

\* ... and a sync has written the status that its notice will be about.
NotesTrue ==
  \A h \in Handler : Tells(h) /\ Recorded(h).kind # "refund" =>
    row[Recorded(h).sub].status = handler[h].data.status

PausedTrue ==
  ~overlapped /\ skipped = {} =>
    /\ NotesTrue
    /\ \A k \in Key : notice[k].paused = "unread" => row[k[1]].status = "paused" \/ Pausing(k[1])

NoticesIInv == AccessIInv /\ RevokedTold /\ PausedTrue

LEMMA NoticesInit ==
  ASSUME ManagedInit
  PROVE  NoticesIInv
<1>1. /\ notice = [k \in Key |-> [revoked |-> FALSE, paused |-> "none"]]
      /\ handler = [h \in Handler |-> Idle]
      /\ \A s \in Subscription : row[s] = NoRow \/ row[s] = FirstRow
  BY DEF ManagedInit, Init
<1>2. RevokedTold
  BY <1>1 DEF RevokedTold, NoRow, FirstRow
<1>3. PausedTrue
  BY <1>1, ConstantTypes DEF PausedTrue, NotesTrue, Tells
<1> QED
  BY <1>2, <1>3, AccessInit DEF NoticesIInv

\* Steps that tell nobody anything, and change nothing that was told.
LEMMA TellingStays ==
  ASSUME NoticesIInv,
         \A s \in Subscription : row'[s].status = row[s].status /\ row'[s].revoked = row[s].revoked,
         \A k \in Key : /\ notice'[k].revoked = notice[k].revoked
                        /\ notice'[k].paused = "unread" => notice[k].paused = "unread",
         \A g \in Handler :
           /\ Tells(g)' <=> Tells(g)
           /\ Tells(g) => /\ handler'[g].data = handler[g].data /\ Recorded(g)' = Recorded(g)
                          /\ handler[g].pc = "note" => handler'[g].pc = "note",
         budget'.aborts = MaxAborts => budget.aborts = MaxAborts,
         overlapped => overlapped', skipped \subseteq skipped'
  PROVE  RevokedTold' /\ PausedTrue'
<1>1. \A s \in Subscription : /\ Revoking(s) => Revoking(s)'
                              /\ Pausing(s) => Pausing(s)'
  BY DEF Revoking, Pausing, Tells
<1>2. RevokedTold'
  BY <1>1 DEF NoticesIInv, RevokedTold, Key
<1>3. ASSUME ~overlapped', skipped' = {}
      PROVE  /\ NotesTrue'
             /\ \A k \in Key : notice'[k].paused = "unread" =>
                  row'[k[1]].status = "paused" \/ Pausing(k[1])'
  <2>1. /\ NotesTrue
        /\ \A k \in Key : notice[k].paused = "unread" =>
             row[k[1]].status = "paused" \/ Pausing(k[1])
    BY <1>3 DEF NoticesIInv, PausedTrue
  <2>2. NotesTrue'
    <3> SUFFICES ASSUME NEW g \in Handler, Tells(g)', Recorded(g)'.kind # "refund"
                 PROVE  row'[Recorded(g)'.sub].status = handler'[g].data.status
      BY DEF NotesTrue
    <3>1. Tells(g) /\ handler'[g].data = handler[g].data /\ Recorded(g)' = Recorded(g)
      OBVIOUS
    <3>2. handler[g].event # 0 /\ Recorded(g).sub \in Subscription
      BY <3>1, ShapeFacts DEF NoticesIInv, AccessIInv, Tells
    <3> QED
      BY <2>1, <3>1, <3>2 DEF NotesTrue
  <2> QED
    BY <1>1, <2>1, <2>2 DEF Key
<1> QED
  BY <1>2, <1>3 DEF PausedTrue

LEMMA QuietKeepsNotices ==
  ASSUME NoticesIInv, QuietMove
  PROVE  RevokedTold' /\ PausedTrue'
<1>1. Shape
  BY DEF NoticesIInv, AccessIInv
<1>2. /\ UNCHANGED <<handler, budget, skipped>> /\ RowsAlike /\ (overlapped => overlapped')
      /\ StripeMove
      /\ \A k \in Key : /\ notice'[k].revoked = notice[k].revoked
                        /\ notice'[k].paused = "unread" => notice[k].paused = "unread"
  BY DEF QuietMove
<1>3. \A g \in Handler : Tells(g) => Recorded(g)' = Recorded(g)
  BY <1>1, <1>2, RecordedStays, ShapeFacts DEF Tells
<1>4. \A g \in Handler : Tells(g)' <=> Tells(g)
  BY <1>2 DEF Tells
<1> QED
  BY <1>2, <1>3, <1>4, TellingStays DEF RowsAlike

LEMMA ReadsKeepNotices ==
  ASSUME NoticesIInv, NEW h \in Handler,
         \/ \E e \in EventNo : Deliver(h, e)
         \/ Register(h) \/ Fetch(h) \/ Load(h) \/ FetchFails(h) \/ Finish(h)
  PROVE  RevokedTold' /\ PausedTrue'
<1>1. Shape
  BY DEF NoticesIInv, AccessIInv
<1>2. /\ UNCHANGED <<stripeVars, rowVars, overlapped, overtaken, applied>>
      /\ HandlerStepped(h) /\ handler' = [handler EXCEPT ![h] = handler'[h]]
  BY <1>1, ReadsKeepShape, ReadSteps
<1>3. handler[h].pc \notin {"override", "note", "commit"}
  BY DEF Deliver, Register, Fetch, Load, FetchFails, Finish
<1>4. \A g \in Handler : /\ Tells(g)' <=> Tells(g)
                         /\ Tells(g) => handler'[g] = handler[g]
  BY <1>2, <1>3 DEF HandlerStepped, Tells
<1>5. \A g \in Handler : Tells(g) => Recorded(g)' = Recorded(g)
  BY <1>1, <1>2, <1>4, SteppedTypes DEF Tells
<1>6. UNCHANGED notice
  BY DEF Deliver, Register, Fetch, Load, FetchFails, Finish
<1>7. skipped \subseteq skipped'
  BY DEF Deliver, Register, Fetch, Load, FetchFails, Finish, historyVars
<1>8. budget'.aborts = budget.aborts
  <2>1. budget \in [aborts : 0 .. MaxAborts, fetches : 0 .. MaxFetchFails]
    BY <1>1 DEF Shape, TypeOK
  <2>2. UNCHANGED budget \/ budget' = [budget EXCEPT !.fetches = @ - 1]
    BY DEF Deliver, Register, Fetch, Load, FetchFails, Finish
  <2> QED
    BY <2>1, <2>2
<1>9. UNCHANGED <<row, overlapped>>
  BY <1>2 DEF rowVars
<1> QED
  BY <1>4, <1>5, <1>6, <1>7, <1>8, <1>9, TellingStays

LEMMA MoveKeepsNotices ==
  ASSUME NoticesIInv, NEW h \in Handler, MoveOverride(h)
  PROVE  RevokedTold' /\ PausedTrue'
<1>1. Shape
  BY DEF NoticesIInv, AccessIInv
<1>2. /\ HandlerStepped(h) /\ handler[h].pc = "override" /\ handler'[h].pc = "note"
      /\ handler'[h].data = handler[h].data
      /\ UNCHANGED <<stripeVars, row, notice, budget, skipped, overlapped>>
  BY <1>1, MoveSteps, MoveFacts
<1>3. \A g \in Handler : /\ Tells(g)' <=> Tells(g)
                         /\ Tells(g) => /\ handler'[g].data = handler[g].data
                                        /\ handler[g].pc = "note" => handler'[g].pc = "note"
  BY <1>2 DEF HandlerStepped, Tells
<1>4. \A g \in Handler : Tells(g) => Recorded(g)' = Recorded(g)
  <2>1. handler' = [handler EXCEPT ![h] = handler'[h]]
    BY <1>1, MoveSteps
  <2> QED
    BY <1>1, <1>2, <1>3, <2>1, SteppedTypes DEF Tells
<1> QED
  BY <1>2, <1>3, <1>4, TellingStays

\* A handler that is cut short is out of what the notices promise.
LEMMA AbortKeepsNotices ==
  ASSUME NoticesIInv, NEW h \in Handler, Abort(h)
  PROVE  RevokedTold' /\ PausedTrue'
<1>1. budget \in [aborts : 0 .. MaxAborts, fetches : 0 .. MaxFetchFails] /\ MaxAborts \in Nat
  BY StripeAssumption DEF NoticesIInv, AccessIInv, Shape, TypeOK
<1>2. budget' = [budget EXCEPT !.aborts = @ - 1] /\ skipped' # {}
  BY DEF Abort
<1>3. budget'.aborts # MaxAborts
  BY <1>1, <1>2
<1> QED
  BY <1>2, <1>3 DEF RevokedTold, PausedTrue

LEMMA NoteKeepsNotices ==
  ASSUME NoticesIInv, NEW h \in Handler, Note(h)
  PROVE  RevokedTold' /\ PausedTrue'
<1> DEFINE s == Recorded(h).sub
           p == handler[h].data.period
<1>1. Shape
  BY DEF NoticesIInv, AccessIInv
<1>2. /\ UNCHANGED <<stripeVars, rowVars, overlapped, overtaken, applied>>
      /\ HandlerStepped(h) /\ handler' = [handler EXCEPT ![h] = handler'[h]]
  BY <1>1, ReadsKeepShape, ReadSteps
<1>3. /\ handler[h].pc = "note" /\ handler[h].event # 0 /\ UNCHANGED <<budget, skipped>>
      /\ notice \in [Key -> Notice]
  BY <1>1, ShapeFacts DEF Note, historyVars, Shape, TypeOK
<1>4. handler'[h].pc = "finish"
  BY <1>1 DEF Note, Shape, TypeOK
<1>5. \A g \in Handler \ {h} : handler'[g] = handler[g]
                               /\ (Tells(g) => Recorded(g)' = Recorded(g))
  BY <1>1, <1>2, SteppedTypes DEF HandlerStepped, Tells
<1>6. UNCHANGED <<row, overlapped>>
  BY <1>2 DEF rowVars
<1>7. NotesTrue => NotesTrue'
  BY <1>4, <1>5, <1>6 DEF NotesTrue, Tells
<1>8. s \in Subscription /\ Recorded(h) \in Event
  BY <1>1, <1>3, ShapeFacts
<1>9. CASE Recorded(h).kind = "refund"
  <2> DEFINE q == Recorded(h).invoice
             k == <<s, q>>
  <2>1. q \in Period /\ k \in Key
    BY <1>1, <1>3, <1>8, <1>9, ShapeFacts DEF Shape, EventShape, Recorded, Key
  <2>2. notice' = [notice EXCEPT ![k].revoked = TRUE]
    BY <1>9 DEF Note
  <2> HIDE DEF k, q
  <2>3. /\ notice'[k].revoked
        /\ \A j \in Key : /\ notice[j].revoked => notice'[j].revoked
                          /\ notice'[j].paused = notice[j].paused
    BY <1>3, <2>1, <2>2 DEF Notice
  <2>4. \A t \in Subscription : /\ Revoking(t) => Revoking(t)' \/ t = s
                                /\ Pausing(t) => Pausing(t)'
    BY <1>5, <1>9 DEF Revoking, Pausing, Tells
  <2>5. RevokedTold'
    <3> SUFFICES ASSUME budget.aborts = MaxAborts, NEW t \in Subscription, row[t].revoked
                 PROVE  (\E r \in Period : notice'[<<t, r>>].revoked) \/ Revoking(t)'
      BY <1>3, <1>6 DEF RevokedTold
    <3>1. (\E r \in Period : notice[<<t, r>>].revoked) \/ Revoking(t)
      BY DEF NoticesIInv, RevokedTold
    <3>2. CASE \E r \in Period : notice[<<t, r>>].revoked
      BY <2>3, <3>2 DEF Key
    <3>3. CASE t = s
      BY <2>1, <2>3, <3>3 DEF k
    <3> QED
      BY <2>4, <3>1, <3>2, <3>3
  <2>6. PausedTrue'
    BY <1>3, <1>6, <1>7, <2>3, <2>4 DEF NoticesIInv, PausedTrue, Key
  <2> QED
    BY <2>5, <2>6
<1>10. CASE Recorded(h).kind # "refund"
  <2>1. Known(handler[h].data) /\ <<s, p>> \in Key
    BY <1>1, <1>3, <1>8, <1>10 DEF Shape, HandlerShape, SoundHandler, Known, Key
  <2> DEFINE k == <<s, p>>
  <2>2. /\ \A j \in Key : notice'[j].revoked = notice[j].revoked
        /\ \A j \in Key : j[1] # s => notice'[j].paused = notice[j].paused
        /\ handler[h].data.status # "paused" =>
             \A j \in Key : j[1] = s => notice'[j].paused # "unread"
    <3>1. CASE handler[h].data.status = "paused"
      <4>1. notice' = [notice EXCEPT ![k].paused = IF @ = "none" THEN "unread" ELSE @]
        BY <1>10, <3>1 DEF Note, Paused
      <4>2. k \in Key /\ k[1] = s
        BY <2>1
      <4> HIDE DEF k
      <4> QED
        BY <1>3, <3>1, <4>1, <4>2 DEF Notice
    <3>2. CASE handler[h].data.status # "paused"
      <4>1. notice' = Dismissed(s)
        BY <1>10, <3>2 DEF Note
      <4>2. \A j \in Key : notice[j] \in Notice
        BY <1>3
      <4>3. \A j \in Key : notice'[j] = IF j[1] = s /\ notice[j].paused = "unread"
                                        THEN [notice[j] EXCEPT !.paused = "dismissed"]
                                        ELSE notice[j]
        BY <4>1 DEF Dismissed
      <4> QED
        BY <4>2, <4>3 DEF Notice
    <3> QED
      BY <3>1, <3>2
  <2>3. \A t \in Subscription : /\ Revoking(t) => Revoking(t)'
                                /\ Pausing(t) => Pausing(t)' \/ t = s
    BY <1>3, <1>5, <1>10 DEF Revoking, Pausing, Tells
  <2>4. RevokedTold'
    BY <1>3, <1>6, <2>2, <2>3 DEF NoticesIInv, RevokedTold, Key
  <2>5. ASSUME ~overlapped, skipped = {}, NEW j \in Key, notice'[j].paused = "unread"
        PROVE  row[j[1]].status = "paused" \/ Pausing(j[1])'
    <3>1. /\ NotesTrue /\ j[1] \in Subscription
          /\ notice[j].paused = "unread" => row[j[1]].status = "paused" \/ Pausing(j[1])
      BY <2>5 DEF NoticesIInv, PausedTrue, Key
    <3>2. CASE j[1] = s
      BY <1>3, <1>10, <2>2, <2>5, <3>1, <3>2 DEF NotesTrue, Tells
    <3>3. CASE j[1] # s
      BY <2>2, <2>3, <2>5, <3>1, <3>3
    <3> QED
      BY <3>2, <3>3
  <2>6. PausedTrue'
    BY <1>3, <1>6, <1>7, <2>5 DEF NoticesIInv, PausedTrue
  <2> QED
    BY <2>4, <2>6
<1> QED
  BY <1>9, <1>10

\* What the commit of a sync does to the handler, and whether it revokes.
LEMMA SyncNotices ==
  ASSUME NoticesIInv, NEW h \in Handler, SyncCommit(h)
  PROVE  /\ \A t \in Subscription : row'[t].revoked => row[t].revoked
         /\ \A t \in Subscription \ {Recorded(h).sub} : row'[t].status = row[t].status
         /\ Tells(h)' /\ ~overlapped =>
              row'[Recorded(h).sub].status = handler'[h].data.status
         /\ ~Tells(h)' => UNCHANGED row
<1> DEFINE me == handler[h]
           s == Recorded(h).sub
           new == Synced(me.row, me.data, Recorded(h))
           k == <<s, me.data.period>>
<1>1. Shape /\ AccessIInv
  BY DEF NoticesIInv, AccessIInv
<1>2. /\ SyncWrites(h) \/ UNCHANGED <<rowVars, overtaken, stranded, applied>>
      /\ me.pc = "commit" /\ Recorded(h).kind # "refund" /\ UNCHANGED stripeVars
  BY SyncCases
<1>3. /\ me.data \in Payload /\ me.row \in Row /\ Recorded(h) \in Event
      /\ s \in Subscription /\ row[s] \in Row /\ Known(me.data)
  BY <1>1, <1>2, CommitFacts
<1>4. HandlerStepped(h) /\ (Tells(h)' => handler'[h].data = me.data)
  BY <1>1, CommitSteps DEF HandlerStepped, Tells
<1>5. CASE SyncWrites(h)
  <2>1. /\ row'[s] = Merged(row[s], me.row, new) /\ new \in Row
        /\ \A t \in Subscription \ {s} : row'[t] = row[t]
    BY <1>1, <1>2, <1>5, SyncWritten
  <2>2. new.revoked = StaysRevoked(me.row, me.data)
    BY <1>3, SyncedFields
  <2> HIDE DEF new
  <2>3. row'[s].revoked = IF new.revoked # me.row.revoked THEN new.revoked ELSE row[s].revoked
    BY <1>3, <2>1, MergedFields
  <2>4. new.revoked => me.row.revoked
    BY <2>2 DEF StaysRevoked
  <2>5. row'[s].revoked => row[s].revoked
    BY <2>3, <2>4
  <2>6. Tells(h)'
    BY <1>1, <1>5 DEF SyncWrites, Shape, TypeOK, Tells
  <2>7. ~overlapped => row'[s].status = me.data.status
    BY <1>1, <1>5, SyncedRow
  <2> QED
    BY <1>4, <2>1, <2>5, <2>6, <2>7
<1>6. CASE ~SyncWrites(h)
  <2>1. UNCHANGED row
    BY <1>2, <1>6 DEF rowVars
  <2>2. CASE InsertCollides(h)
    <3>1. handler' = [handler EXCEPT ![h] = Idle]
      BY <2>2 DEF SyncCommit
    <3>2. ~Tells(h)'
      BY <1>1, <3>1, ConstantTypes DEF Shape, TypeOK, Tells
    <3> QED
      BY <2>1, <3>2
  <2>3. CASE ~InsertCollides(h)
    <3>1. CycleCollides(h, k)
      BY <1>6, <2>3 DEF SyncCommit, SyncWrites, WriteRow
    <3>2. ~overlapped => me.cycle = cycle
      BY <1>1, <1>2 DEF AccessIInv, Agree
    <3>3. overlapped
      BY <3>1, <3>2 DEF CycleCollides
    <3> QED
      BY <2>1, <3>3, <1>1, <1>4, <2>3
  <2> QED
    BY <2>2, <2>3
<1> QED
  BY <1>5, <1>6

LEMMA CommitsKeepNotices ==
  ASSUME NoticesIInv, NEW h \in Handler, SyncCommit(h) \/ RefundCommit(h)
  PROVE  RevokedTold' /\ PausedTrue'
<1> DEFINE s == Recorded(h).sub
<1>1. Shape /\ AccessIInv
  BY DEF NoticesIInv, AccessIInv
<1>2. /\ HandlerStepped(h) /\ handler' = [handler EXCEPT ![h] = handler'[h]]
      /\ handler[h].pc = "commit" /\ UNCHANGED stripeVars
      /\ UNCHANGED <<notice, budget, skipped>>
      /\ overlapped' = (overlapped \/ Overlaps(h))
  BY <1>1, CommitSteps DEF SyncCommit, RefundCommit
<1>3. s \in Subscription
  BY <1>1, <1>2, CommitFacts
<1>4. \A g \in Handler \ {h} : handler'[g] = handler[g]
  BY <1>2 DEF HandlerStepped
<1>5. \A g \in Handler : Tells(g)' => Recorded(g)' = Recorded(g)
  BY <1>1, <1>2, SteppedTypes DEF Tells
<1>6. \A t \in Subscription : Revoking(t) => Revoking(t)'
  BY <1>2, <1>4, <1>5 DEF Revoking, Tells
<1>7. \A t \in Subscription : Pausing(t) => Pausing(t)'
  BY <1>2, <1>4, <1>5 DEF Pausing, Tells
<1>8. ~overlapped' => ~overlapped /\ \A g \in Handler \ {h} : ~Tells(g)'
  BY <1>2, <1>4 DEF Overlaps, Tells
<1>9. CASE SyncCommit(h)
  <2>1. /\ \A t \in Subscription : row'[t].revoked => row[t].revoked
        /\ \A t \in Subscription \ {s} : row'[t].status = row[t].status
        /\ Tells(h)' /\ ~overlapped => row'[s].status = handler'[h].data.status
        /\ ~Tells(h)' => UNCHANGED row
    BY <1>9, SyncNotices
  <2>2. RevokedTold'
    BY <1>2, <1>6, <2>1 DEF NoticesIInv, RevokedTold
  <2>3. ASSUME ~overlapped'
        PROVE  NotesTrue'
    BY <1>5, <1>8, <2>1, <2>3 DEF NotesTrue
  <2>4. ASSUME ~overlapped', skipped = {}, NEW k \in Key, notice[k].paused = "unread"
        PROVE  row'[k[1]].status = "paused" \/ Pausing(k[1])'
    <3>1. k[1] \in Subscription /\ (row[k[1]].status = "paused" \/ Pausing(k[1]))
      BY <1>8, <2>4 DEF NoticesIInv, PausedTrue, Key
    <3>2. CASE k[1] = s /\ Tells(h)'
      <4>1. Recorded(h)' = Recorded(h) /\ Recorded(h).kind # "refund"
        BY <1>5, <1>9, <3>2 DEF SyncCommit
      <4> QED
        BY <3>2, <4>1 DEF Pausing
    <3>3. CASE k[1] # s \/ ~Tells(h)'
      <4>1. row'[k[1]].status = row[k[1]].status
        BY <2>1, <3>1, <3>3
      <4> QED
        BY <1>7, <3>1, <4>1
    <3> QED
      BY <3>2, <3>3
  <2>5. PausedTrue'
    BY <1>2, <2>3, <2>4 DEF PausedTrue
  <2> QED
    BY <2>2, <2>5
<1>10. CASE RefundCommit(h)
  <2>1. /\ Recorded(h).kind = "refund" /\ handler'[h].pc = "note"
        /\ \A t \in Subscription \ {s} : row'[t] = row[t]
    <3>1. /\ handler' = [handler EXCEPT ![h].pc = "note", ![h].row = NoRow,
                                         ![h].cycle = NoCycles]
          /\ handler \in [Handler -> HandlerState]
      BY <1>1, <1>10 DEF RefundCommit, Shape, TypeOK
    <3>2. handler'[h].pc = "note"
      BY <3>1 DEF HandlerState
    <3> QED
      BY <1>1, <1>10, <3>2, RefundWritten
  <2>2. \A t \in Subscription : t = s => Revoking(t)'
    BY <1>5, <2>1 DEF Revoking, Tells
  <2>3. RevokedTold'
    <3> SUFFICES ASSUME budget.aborts = MaxAborts, NEW t \in Subscription, row'[t].revoked
                 PROVE  (\E r \in Period : notice[<<t, r>>].revoked) \/ Revoking(t)'
      BY <1>2 DEF RevokedTold
    <3>1. CASE t = s
      BY <2>2, <3>1
    <3>2. CASE t # s
      <4>1. row[t].revoked
        BY <2>1, <3>2
      <4> QED
        BY <1>6, <4>1 DEF NoticesIInv, RevokedTold
    <3> QED
      BY <3>1, <3>2
  <2>4. ASSUME ~overlapped'
        PROVE  \A t \in Subscription : row'[t].status = row[t].status
    BY <1>1, <1>8, <1>10, <2>4, RefundedRow
  <2>5. ASSUME ~overlapped'
        PROVE  NotesTrue'
    BY <1>5, <1>8, <2>1, <2>5 DEF NotesTrue
  <2>6. PausedTrue'
    <3>1. ASSUME ~overlapped', skipped = {}, NEW k \in Key, notice[k].paused = "unread"
          PROVE  row'[k[1]].status = "paused" \/ Pausing(k[1])'
      BY <1>7, <1>8, <2>4, <3>1 DEF NoticesIInv, PausedTrue, Key
    <3> QED
      BY <1>2, <2>5, <3>1 DEF PausedTrue
  <2> QED
    BY <2>3, <2>6
<1> QED
  BY <1>9, <1>10

LEMMA NoticesStep ==
  ASSUME NoticesIInv, [ManagedNext]_managedVars
  PROVE  NoticesIInv'
<1>1. Shape /\ AccessIInv'
  BY AccessStep DEF NoticesIInv, AccessIInv
<1>2. CASE QuietMove
  BY <1>1, <1>2, QuietKeepsNotices DEF NoticesIInv
<1>3. ASSUME NEW h \in Handler,
             \/ \E e \in EventNo : Deliver(h, e)
             \/ HandlerStep(h) \/ FetchFails(h) \/ Abort(h)
      PROVE  RevokedTold' /\ PausedTrue'
  BY <1>3, ReadsKeepNotices, MoveKeepsNotices, AbortKeepsNotices, NoteKeepsNotices,
     CommitsKeepNotices DEF HandlerStep
<1> QED
  BY <1>1, <1>2, <1>3, QuietOrHandler DEF NoticesIInv

\* When every webhook is answered, a revocation has been announced, unless a handler was
\* cut short, and a pause is announced only while it lasts, unless handlers overlapped,
\* too, or an unfinished attempt hid an event.
THEOREM NoticesTrue == ManagedSpec => []NoticesAreTrue
<1>1. ManagedInit => NoticesIInv
  BY NoticesInit
<1>2. NoticesIInv /\ [ManagedNext]_managedVars => NoticesIInv'
  BY NoticesStep
<1>3. ASSUME NoticesIInv
      PROVE  NoticesAreTrue
  <2>1. Quiescent => \A s \in Subscription : ~Revoking(s) /\ ~Pausing(s)
    BY DEF Quiescent, AllIdle, Revoking, Pausing, Tells
  <2>2. RevokedIsNoticed
    BY <1>3, <2>1 DEF NoticesIInv, RevokedTold, RevokedIsNoticed
  <2>3. PausedNoticeIsTrue
    BY <1>3, <2>1 DEF NoticesIInv, PausedTrue, PausedNoticeIsTrue, Key
  <2> QED
    BY <2>2, <2>3 DEF NoticesAreTrue
<1> QED
  BY <1>1, <1>2, <1>3, PTL DEF ManagedSpec

-----------------------------------------------------------------------------
\* Versions

\* The event "asOf" says that the subscription came into this state.
IsVersion(s, data) ==
  /\ data.asOf \in 1 .. Len(log)
  /\ log[data.asOf].kind = "updated" /\ log[data.asOf].sub = s /\ log[data.asOf].data = data

\* Stripe's version is that of the last event; whoever sends an invoice has sent one.
Versions ==
  /\ \A s \in Subscription : stripe[s].asOf # 0 => IsVersion(s, stripe[s])
  /\ \A e \in 1 .. Len(log) :
       /\ log[e].kind = "updated" => log[e].data.asOf = e /\ e <= stripe[log[e].sub].asOf
       /\ log[e].kind = "invoice" => stripe[log[e].sub].asOf # 0

\* A handler that has its data; one whose row is written.
WithData(h) == handler[h].pc \in {"load", "commit", "override", "note"}
HasApplied(h) == handler[h].pc \in {"override", "note", "finish"}

\* What handlers work with is a version, the one of their event if it carries one.
HandlerVersions ==
  \A h \in Handler : WithData(h) /\ Recorded(h).kind # "refund" =>
    /\ IsVersion(Recorded(h).sub, handler[h].data)
    /\ Recorded(h).kind = "updated" => handler[h].data.asOf = handler[h].event

\* The row is in the state it was last synced to, if there was a sync.
RowVersion(s) ==
  IF applied[s] = 0
    THEN stripe[s].asOf = 0 => row[s].status = stripe[s].status /\ row[s].period = stripe[s].period
    ELSE log[applied[s]].data.status = row[s].status /\ log[applied[s]].data.period = row[s].period

\* What was answered, or is about to be, has been applied.
EventsApplied ==
  \A e \in 1 .. Len(log) : log[e].kind = "updated" =>
    /\ e \in answered \ skipped => e <= applied[log[e].sub]
    /\ \A h \in Handler : HasApplied(h) /\ handler[h].event = e => e <= applied[log[e].sub]

AppliedInv ==
  /\ \A s \in Subscription : applied[s] <= stripe[s].asOf
  /\ ~overlapped => \A s \in Subscription : RowVersion(s)
  /\ \A e \in EventNo : record[e] = "processed" => e \in answered
  /\ ~overlapped /\ ~overtaken => EventsApplied

RowIInv == AccessIInv /\ Versions /\ HandlerVersions /\ AppliedInv

LEMMA VersionTypes ==
  ASSUME Shape
  PROVE  /\ Len(log) \in Nat /\ Len(log) <= MaxEvents /\ MaxEvents \in Nat
         /\ \A e \in 1 .. Len(log) : log[e] \in Event /\ log[e].sub \in Subscription
                                     /\ log[e].kind \in {"updated", "invoice", "refund"}
                                     /\ log[e].data \in Payload
         /\ \A data \in Payload : data.asOf \in Nat
         /\ \A s \in Subscription : stripe[s].asOf \in Nat /\ applied[s] \in Nat
<1>1. StripeInv /\ Len(log) \in Nat /\ log \in Seq(Event) /\ Len(log) <= MaxEvents
      /\ MaxEvents \in Nat
  BY ShapeFacts, StripeAssumption DEF Shape, TypeOK
<1>2. \A e \in 1 .. Len(log) : log[e] \in Event
  BY <1>1, ElementOfSeq
<1>3. \A data \in Payload : data.asOf \in Nat
  BY <1>1 DEF Payload
<1>4. \A s \in Subscription : stripe[s] \in Payload /\ applied[s] \in Nat
  BY <1>1 DEF Shape, TypeOK
<1> QED
  BY <1>1, <1>2, <1>3, <1>4 DEF Event

LEMMA VersionsInit ==
  ASSUME ManagedInit
  PROVE  RowIInv
<1>1. /\ log = <<>> /\ record = [e \in EventNo |-> "none"]
      /\ handler = [h \in Handler |-> Idle] /\ applied = [s \in Subscription |-> 0]
      /\ \/ /\ stripe = [s \in Subscription |-> NoPayload]
            /\ row = [s \in Subscription |-> NoRow]
         \/ /\ stripe = [s \in Subscription |-> IF s = latest THEN First ELSE NoPayload]
            /\ row = [s \in Subscription |-> IF s = latest THEN FirstRow ELSE NoRow]
  BY DEF ManagedInit, Init
<1>2. Len(log) = 0
  BY <1>1
<1>3. \A s \in Subscription : /\ stripe[s].asOf = 0 /\ row[s].status = stripe[s].status
                              /\ row[s].period = stripe[s].period
  BY <1>1 DEF NoPayload, First, NoRow, FirstRow
<1>4. Versions
  BY <1>2, <1>3 DEF Versions
<1>5. HandlerVersions
  BY <1>1, ConstantTypes DEF HandlerVersions, WithData
<1>6. AppliedInv
  BY <1>1, <1>2, <1>3 DEF AppliedInv, RowVersion, EventsApplied
<1> QED
  BY <1>4, <1>5, <1>6, AccessInit DEF RowIInv

\* Versions stay what they are while Stripe goes on.
LEMMA StripeVersions ==
  ASSUME Shape, Versions, StripeMove
  PROVE  /\ Versions'
         /\ \A s, data : IsVersion(s, data) => IsVersion(s, data)'
         /\ \A s \in Subscription : /\ stripe[s].asOf <= stripe'[s].asOf
                                    /\ stripe'[s].asOf = 0 => stripe'[s] = stripe[s]
<1>1. /\ Len(log) \in Nat /\ Len(log') \in Nat /\ Len(log) <= Len(log')
      /\ \A e \in 1 .. Len(log) : log'[e] = log[e]
      /\ StripeInv' /\ stripe' \in [Subscription -> Payload] /\ log' \in Seq(Event)
  BY ShapeFacts, StripeKept DEF StripeMove, StripeInv, StripeType
<1>2. \A s, data : IsVersion(s, data) => IsVersion(s, data)'
  BY <1>1 DEF IsVersion
<1>3. \A s \in Subscription : stripe'[s].asOf \in Nat /\ stripe[s].asOf \in Nat
  BY <1>1, VersionTypes
<1>4. ASSUME NEW s \in Subscription
      PROVE  \/ stripe'[s] = stripe[s]
             \/ /\ stripe'[s].asOf \in Len(log) + 1 .. Len(log')
                /\ log'[stripe'[s].asOf] = Updated(s, stripe'[s])
  BY DEF StripeMove
<1>5. ASSUME NEW s \in Subscription, stripe'[s].asOf # 0
      PROVE  IsVersion(s, stripe[s])'
  <2>1. CASE stripe'[s] = stripe[s]
    <3>1. IsVersion(s, stripe[s])
      BY <1>5, <2>1 DEF Versions
    <3> QED
      BY <1>1, <2>1, <3>1 DEF IsVersion
  <2>2. CASE /\ stripe'[s].asOf \in Len(log) + 1 .. Len(log')
             /\ log'[stripe'[s].asOf] = Updated(s, stripe'[s])
    BY <1>1, <2>2 DEF IsVersion, Updated
  <2> QED
    BY <1>4, <2>1, <2>2
<1>6. ASSUME NEW s \in Subscription
      PROVE  /\ stripe[s].asOf <= stripe'[s].asOf
             /\ stripe'[s].asOf = 0 => stripe'[s] = stripe[s]
  <2>1. stripe[s].asOf <= Len(log)
    BY <1>1, <1>3 DEF Versions, IsVersion
  <2> QED
    BY <1>1, <1>3, <1>4, <2>1
<1>7. ASSUME NEW e \in 1 .. Len(log')
      PROVE  /\ log'[e].kind = "updated" =>
                  log'[e].data.asOf = e /\ e <= stripe'[log'[e].sub].asOf
             /\ log'[e].kind = "invoice" => stripe'[log'[e].sub].asOf # 0
  <2>1. CASE e \in 1 .. Len(log)
    <3>1. log'[e] = log[e] /\ log[e].sub \in Subscription
      BY <1>1, <2>1, VersionTypes
    <3>2. stripe[log[e].sub].asOf <= stripe'[log[e].sub].asOf
      BY <1>6, <3>1
    <3>3. /\ log[e].kind = "updated" =>
               log[e].data.asOf = e /\ e <= stripe[log[e].sub].asOf
          /\ log[e].kind = "invoice" => stripe[log[e].sub].asOf # 0
      BY <2>1 DEF Versions
    <3> QED
      BY <1>3, <2>1, <3>1, <3>2, <3>3
  <2>2. CASE e \in Len(log) + 1 .. Len(log')
    <3>1. CASE \E s \in Subscription :
                 log'[e] = Updated(s, stripe'[s]) /\ stripe'[s].asOf = e /\ Known(stripe'[s])
      BY <2>2, <3>1, <1>1 DEF Updated
    <3>2. CASE log'[e].kind = "invoice" /\ stripe'[log'[e].sub].asOf # 0
      BY <3>2
    <3>3. CASE \E s \in Subscription, p \in Period : log'[e] = RefundEvent(s, p)
      BY <3>3 DEF RefundEvent
    <3> QED
      BY <2>2, <3>1, <3>2, <3>3 DEF StripeMove
  <2> QED
    BY <1>1, <2>1, <2>2
<1> QED
  BY <1>2, <1>5, <1>6, <1>7 DEF Versions

LEMMA QuietKeepsVersions ==
  ASSUME RowIInv, QuietMove
  PROVE  Versions' /\ HandlerVersions' /\ AppliedInv'
<1>1. Shape /\ Versions /\ HandlerVersions /\ AppliedInv
  BY DEF RowIInv, AccessIInv
<1>2. /\ UNCHANGED <<answered, record, handler, skipped, overtaken, stranded, applied>>
      /\ StripeMove /\ RowsAlike /\ (overlapped => overlapped')
  BY DEF QuietMove
<1>3. /\ Versions'
      /\ \A s, data : IsVersion(s, data) => IsVersion(s, data)'
      /\ \A s \in Subscription : /\ stripe[s].asOf <= stripe'[s].asOf
                                 /\ stripe'[s].asOf = 0 => stripe'[s] = stripe[s]
  BY <1>1, <1>2, StripeVersions
<1>4. HandlerVersions'
  <2> SUFFICES ASSUME NEW h \in Handler, WithData(h), Recorded(h)'.kind # "refund"
               PROVE  /\ IsVersion(Recorded(h).sub, handler[h].data)'
                      /\ Recorded(h)'.kind = "updated" => handler[h].data.asOf = handler[h].event
    BY <1>2 DEF HandlerVersions, WithData
  <2>1. Recorded(h)' = Recorded(h)
    BY <1>1, <1>2, RecordedStays, ShapeFacts DEF WithData
  <2>2. /\ IsVersion(Recorded(h).sub, handler[h].data)
        /\ Recorded(h).kind = "updated" => handler[h].data.asOf = handler[h].event
    BY <1>1, <2>1 DEF HandlerVersions
  <2> QED
    BY <1>2, <1>3, <2>1, <2>2 DEF IsVersion
<1>5. /\ Len(log) \in Nat /\ Len(log') \in Nat /\ Len(log) <= Len(log')
      /\ \A e \in 1 .. Len(log) : log'[e] = log[e] /\ log[e].sub \in Subscription
  BY <1>1, <1>2, ShapeFacts, StripeKept, VersionTypes DEF StripeMove
<1>6. \A s \in Subscription :
        stripe[s].asOf \in Nat /\ stripe'[s].asOf \in Nat /\ applied[s] \in Nat
  <2>1. stripe' \in [Subscription -> Payload]
    BY <1>2 DEF StripeMove, StripeType
  <2> QED
    BY <1>1, <2>1, VersionTypes
<1>7. \A s \in Subscription : applied[s] <= stripe'[s].asOf
  BY <1>1, <1>3, <1>6 DEF AppliedInv
<1>8. ASSUME ~overlapped', NEW s \in Subscription
      PROVE  RowVersion(s)'
  <2>1. RowVersion(s) /\ applied[s] <= stripe[s].asOf
    BY <1>1, <1>2, <1>8 DEF AppliedInv
  <2>2. row'[s].status = row[s].status /\ row'[s].period = row[s].period
    BY <1>2 DEF RowsAlike
  <2>3. stripe[s].asOf <= Len(log)
    BY <1>1, <1>5, <1>6 DEF Versions, IsVersion
  <2>4. CASE applied[s] = 0
    BY <1>2, <1>3, <2>1, <2>2, <2>4 DEF RowVersion
  <2>5. CASE applied[s] # 0
    <3>1. applied[s] \in 1 .. Len(log)
      BY <1>5, <1>6, <2>1, <2>3, <2>5
    <3>2. log'[applied[s]] = log[applied[s]]
      BY <1>5, <3>1
    <3> QED
      BY <1>2, <2>1, <2>2, <2>5, <3>2 DEF RowVersion
  <2> QED
    BY <2>4, <2>5
<1>9. ASSUME ~overlapped', ~overtaken
      PROVE  EventsApplied'
  <2>1. EventsApplied
    BY <1>1, <1>2, <1>9 DEF AppliedInv
  <2>2. /\ answered \subseteq 1 .. Len(log)
        /\ \A h \in Handler : handler[h].event \in 0 .. Len(log)
    BY <1>1 DEF Shape, TypeOK
  <2> QED
    BY <1>2, <1>5, <2>1, <2>2 DEF EventsApplied, HasApplied
<1>10. AppliedInv'
  BY <1>1, <1>2, <1>7, <1>8, <1>9 DEF AppliedInv
<1> QED
  BY <1>3, <1>4, <1>10

\* A handler takes what it works with from its event or from Stripe.
LEMMA SteppedVersions ==
  ASSUME RowIInv, NEW h \in Handler, HandlerStepped(h), UNCHANGED stripeVars,
         handler' = [handler EXCEPT ![h] = handler'[h]]
  PROVE  Versions' /\ HandlerVersions'
<1> DEFINE me == handler[h]
           new == handler'[h]
<1>1. Shape /\ Versions /\ HandlerVersions
  BY DEF RowIInv, AccessIInv
<1>2. UNCHANGED <<stripe, log>>
  BY DEF stripeVars
<1>3. Versions' /\ \A s, data : IsVersion(s, data)' <=> IsVersion(s, data)
  BY <1>1, <1>2 DEF Versions, IsVersion
<1>4. \A g \in Handler : handler'[g].pc \notin {"idle", "register"} =>
        handler[g].event = handler'[g].event /\ Recorded(g)' = Recorded(g)
  BY <1>1, SteppedTypes
<1>5. ASSUME WithData(h)', Recorded(h).kind # "refund"
      PROVE  /\ IsVersion(Recorded(h).sub, new.data)
             /\ Recorded(h).kind = "updated" => new.data.asOf = new.event
  <2>1. /\ me.event # 0 /\ new.event = me.event
        /\ me.event \in 1 .. Len(log) /\ Recorded(h) = log[me.event]
        /\ Recorded(h).sub \in Subscription
        /\ Recorded(h).kind \in {"updated", "invoice"}
    <3>1. me.event # 0 /\ new.event = me.event
      BY <1>5 DEF HandlerStepped, WithData
    <3>2. me.event \in 1 .. Len(log)
      BY <1>1, <3>1, ShapeFacts
    <3> QED
      BY <1>1, <1>5, <3>1, <3>2, VersionTypes DEF Recorded
  <2>2. CASE me.pc = "register" /\ Recorded(h).kind = "updated" /\ new.data = Recorded(h).data
    BY <1>1, <2>1, <2>2 DEF Versions, IsVersion
  <2>3. CASE Recorded(h).kind = "invoice" /\ new.data = stripe[Recorded(h).sub]
    BY <1>1, <2>1, <2>3 DEF Versions
  <2>4. CASE WithData(h) /\ new.data = me.data
    BY <1>1, <1>5, <2>1, <2>4 DEF HandlerVersions
  <2> QED
    BY <1>5, <2>1, <2>2, <2>3, <2>4 DEF HandlerStepped, WithData
<1>6. HandlerVersions'
  <2> SUFFICES ASSUME NEW g \in Handler, WithData(g)', Recorded(g)'.kind # "refund"
               PROVE  /\ IsVersion(Recorded(g).sub, handler[g].data)'
                      /\ Recorded(g)'.kind = "updated" => handler'[g].data.asOf = handler'[g].event
    BY DEF HandlerVersions
  <2>1. Recorded(g)' = Recorded(g)
    BY <1>4 DEF WithData
  <2>2. /\ IsVersion(Recorded(g).sub, handler'[g].data)
        /\ Recorded(g).kind = "updated" => handler'[g].data.asOf = handler'[g].event
    <3>1. CASE g = h
      BY <1>5, <2>1, <3>1
    <3>2. CASE g # h
      <4>1. handler'[g] = handler[g]
        BY <3>2 DEF HandlerStepped
      <4> QED
        BY <1>1, <2>1, <4>1 DEF HandlerVersions, WithData
    <3> QED
      BY <3>1, <3>2
  <2> QED
    BY <1>2, <2>1, <2>2 DEF IsVersion
<1> QED
  BY <1>3, <1>6

LEMMA ReadsKeepVersions ==
  ASSUME RowIInv, NEW h \in Handler, ReadStep(h)
  PROVE  Versions' /\ HandlerVersions' /\ AppliedInv'
<1> DEFINE me == handler[h]
           new == handler'[h]
<1>1. Shape /\ AppliedInv
  BY DEF RowIInv, AccessIInv
<1>2. /\ UNCHANGED stripeVars /\ UNCHANGED <<row, overlapped, overtaken, applied>>
      /\ HandlerStepped(h) /\ handler' = [handler EXCEPT ![h] = handler'[h]]
  BY <1>1, ReadFacts
<1>3. Versions' /\ HandlerVersions'
  BY <1>2, SteppedVersions
<1>4. UNCHANGED <<stripe, log, row, overlapped, overtaken, applied>>
  BY <1>2 DEF stripeVars
<1>5. /\ record \in [EventNo -> {"none", "pending", "processed", "failed"}]
      /\ me.event \in 0 .. Len(log)
  BY <1>1 DEF Shape, TypeOK
<1>6. \A e \in EventNo : record'[e] = "processed" => e \in answered'
  <2>1. \A e \in EventNo : record[e] = "processed" => e \in answered
    BY <1>1 DEF AppliedInv
  <2>2. CASE Finish(h)
    BY <1>5, <2>1, <2>2 DEF Finish
  <2>3. CASE ~Finish(h)
    <3>1. answered \subseteq answered'
      BY <2>3 DEF ReadStep, Deliver, Register, Fetch, Load, FetchFails, MoveOverride, Note, Abort
    <3>2. \/ UNCHANGED record
          \/ record' = [record EXCEPT ![me.event] = "pending"]
          \/ record' = [record EXCEPT ![me.event] = "failed"]
      BY <2>3 DEF ReadStep, Deliver, Register, Fetch, Load, FetchFails, MoveOverride, Note, Abort
    <3>3. \A e \in EventNo : record'[e] = "processed" => record[e] = "processed"
      BY <1>5, <3>2
    <3> QED
      BY <2>1, <3>1, <3>3
  <2> QED
    BY <2>2, <2>3
<1>7. ASSUME NEW e \in EventNo, e \in answered' \ skipped'
      PROVE  \/ e \in answered \ skipped
             \/ me.pc = "finish" /\ me.event = e
  <2>1. skipped \subseteq skipped'
    BY DEF ReadStep, Deliver, Register, Fetch, Load, FetchFails, MoveOverride, Note, Finish, Abort,
           historyVars
  <2>2. CASE Finish(h)
    BY <1>7, <2>1, <2>2 DEF Finish
  <2>3. ASSUME NEW d \in EventNo, Deliver(h, d)
        PROVE  e \in answered \ skipped
    <3>1. CASE e \in answered
      BY <1>7, <2>1, <3>1
    <3>2. CASE e \notin answered
      <4>1. e = d /\ Done(d) /\ (record[d] = "pending" => d \in skipped')
        BY <1>7, <2>3, <3>2 DEF Deliver
      <4>2. record[d] = "processed"
        BY <1>7, <4>1 DEF Done
      <4> QED
        BY <1>1, <3>2, <4>1, <4>2 DEF AppliedInv
    <3> QED
      BY <3>1, <3>2
  <2>4. CASE \/ Register(h) \/ Fetch(h) \/ Load(h) \/ FetchFails(h) \/ MoveOverride(h)
             \/ Note(h) \/ Abort(h)
    <3>1. UNCHANGED answered
      BY <2>4 DEF Register, Fetch, Load, FetchFails, MoveOverride, Note, Abort
    <3> QED
      BY <1>7, <2>1, <3>1
  <2> QED
    BY <2>2, <2>3, <2>4 DEF ReadStep
<1>8. ASSUME HasApplied(h)'
      PROVE  /\ new.event = me.event /\ me.event \in 1 .. Len(log)
             /\ HasApplied(h) \/ Recorded(h).kind = "refund"
  <2>1. me.pc # "commit"
    <3>1. Abort(h) => new = Idle
      BY <1>1 DEF Abort, Shape, TypeOK
    <3> QED
      BY <1>8, <3>1, ConstantTypes DEF ReadStep, Deliver, Register, Fetch, Load, FetchFails,
         MoveOverride, Note, Finish, HasApplied
  <2>2. new.event = me.event /\ me.event # 0
    BY <1>2, <1>8 DEF HandlerStepped, HasApplied
  <2> QED
    BY <1>1, <1>2, <1>8, <2>1, <2>2, ShapeFacts DEF HandlerStepped, HasApplied
<1>9. ASSUME ~overlapped', ~overtaken'
      PROVE  EventsApplied'
  <2> SUFFICES ASSUME NEW e \in 1 .. Len(log), log[e].kind = "updated"
               PROVE  /\ e \in answered' \ skipped' => e <= applied[log[e].sub]
                      /\ \A g \in Handler : HasApplied(g)' /\ handler'[g].event = e =>
                           e <= applied[log[e].sub]
    BY <1>4 DEF EventsApplied
  <2>1. EventsApplied
    BY <1>1, <1>4, <1>9 DEF AppliedInv
  <2>2. e \in EventNo
    BY <1>1, VersionTypes DEF EventNo
  <2>3. e \in answered' \ skipped' => e <= applied[log[e].sub]
    BY <1>7, <2>1, <2>2 DEF EventsApplied, HasApplied
  <2>4. ASSUME NEW g \in Handler, HasApplied(g)', handler'[g].event = e
        PROVE  e <= applied[log[e].sub]
    <3>1. CASE g = h
      <4>1. me.event = e /\ (HasApplied(h) \/ log[e].kind = "refund")
        BY <1>8, <2>4, <3>1 DEF Recorded
      <4> QED
        BY <2>1, <4>1 DEF EventsApplied
    <3>2. CASE g # h
      <4>1. handler'[g] = handler[g]
        BY <1>2, <3>2 DEF HandlerStepped
      <4> QED
        BY <2>1, <2>4, <4>1 DEF EventsApplied, HasApplied
    <3> QED
      BY <3>1, <3>2
  <2> QED
    BY <2>3, <2>4
<1>10. AppliedInv'
  <2>1. (~overlapped' => \A s \in Subscription : RowVersion(s)')
    BY <1>1, <1>4 DEF AppliedInv, RowVersion
  <2>2. \A s \in Subscription : applied'[s] <= stripe'[s].asOf
    BY <1>1, <1>4 DEF AppliedInv
  <2> QED
    BY <1>6, <1>9, <2>1, <2>2 DEF AppliedInv
<1> QED
  BY <1>3, <1>10

LEMMA CommitsKeepVersions ==
  ASSUME RowIInv, NEW h \in Handler, SyncCommit(h) \/ RefundCommit(h)
  PROVE  Versions' /\ HandlerVersions' /\ AppliedInv'
<1> DEFINE me == handler[h]
           s == Recorded(h).sub
<1>1. Shape /\ AccessIInv /\ AppliedInv /\ Versions /\ HandlerVersions
  BY DEF RowIInv, AccessIInv
<1>2. /\ HandlerStepped(h) /\ handler' = [handler EXCEPT ![h] = handler'[h]]
      /\ handler'[h].pc \in {"idle", "override", "note"} /\ me.pc = "commit"
      /\ UNCHANGED stripeVars /\ UNCHANGED <<answered, record, skipped>>
      /\ overlapped' = (overlapped \/ Overlaps(h))
  BY <1>1, CommitSteps DEF SyncCommit, RefundCommit
<1>3. Versions' /\ HandlerVersions'
  BY <1>2, SteppedVersions
<1>4. UNCHANGED <<stripe, log>>
  BY <1>2 DEF stripeVars
<1>5. /\ s \in Subscription /\ me.event \in 1 .. Len(log) /\ me.data \in Payload
      /\ Recorded(h) = log[me.event]
  BY <1>1, <1>2, CommitFacts DEF Recorded
<1>6. \A g \in Handler \ {h} : handler'[g] = handler[g]
  BY <1>2 DEF HandlerStepped
<1>7. HasApplied(h)' => handler'[h].event = me.event
  BY <1>2 DEF HandlerStepped, HasApplied
<1>8. /\ \A e \in EventNo : record'[e] = "processed" => e \in answered'
      /\ \A t \in Subscription : applied[t] <= stripe[t].asOf
      /\ (~overlapped' => ~overlapped)
  BY <1>1, <1>2 DEF AppliedInv
<1>9. CASE SyncCommit(h) /\ SyncWrites(h)
  <2>1. /\ applied' = [applied EXCEPT ![s] = me.data.asOf]
        /\ overtaken' = (overtaken \/ me.data.asOf < applied[s])
        /\ Recorded(h).kind # "refund" /\ applied \in [Subscription -> 0 .. MaxEvents]
    BY <1>1, <1>9, SyncCases DEF SyncWrites, Shape, TypeOK
  <2>2. /\ applied'[s] = me.data.asOf
        /\ \A t \in Subscription \ {s} : applied'[t] = applied[t]
    BY <1>5, <2>1
  <2>3. /\ IsVersion(s, me.data)
        /\ Recorded(h).kind = "updated" => me.data.asOf = me.event
    BY <1>1, <1>2, <2>1 DEF HandlerVersions, WithData
  <2>4. me.data.asOf <= stripe[s].asOf
    BY <1>1, <2>3 DEF Versions, IsVersion
  <2>5. \A t \in Subscription : applied'[t] <= stripe'[t].asOf
    BY <1>4, <1>8, <2>2, <2>4
  <2>6. ASSUME ~overlapped', NEW t \in Subscription
        PROVE  RowVersion(t)'
    <3>1. CASE t = s
      <4>1. row'[s].status = me.data.status /\ row'[s].period = me.data.period
        BY <1>1, <1>8, <1>9, <2>6, SyncedRow
      <4>2. me.data.asOf # 0 /\ log[me.data.asOf].data = me.data
        BY <2>3 DEF IsVersion
      <4> QED
        BY <1>4, <2>2, <3>1, <4>1, <4>2 DEF RowVersion
    <3>2. CASE t # s
      <4>1. RowVersion(t) /\ row'[t] = row[t]
        BY <1>1, <1>8, <1>9, <2>6, <3>2, SyncedRow DEF AppliedInv
      <4> QED
        BY <1>4, <2>2, <3>2, <4>1 DEF RowVersion
    <3> QED
      BY <3>1, <3>2
  <2>7. ASSUME ~overlapped', ~overtaken'
        PROVE  EventsApplied'
    <3>1. EventsApplied /\ ~(me.data.asOf < applied[s])
      BY <1>1, <1>8, <2>1, <2>7 DEF AppliedInv
    <3>2. \A t \in Subscription : applied[t] <= applied'[t] /\ applied[t] \in Nat
                                  /\ applied'[t] \in Nat
      BY <1>1, <1>5, <2>2, <3>1, VersionTypes
    <3> SUFFICES ASSUME NEW e \in 1 .. Len(log), log[e].kind = "updated"
                 PROVE  /\ e \in answered \ skipped => e <= applied'[log[e].sub]
                        /\ \A g \in Handler : HasApplied(g)' /\ handler'[g].event = e =>
                             e <= applied'[log[e].sub]
      BY <1>2, <1>4 DEF EventsApplied
    <3>3. log[e].sub \in Subscription
      BY <1>1, VersionTypes
    <3>4. e \in answered \ skipped => e <= applied'[log[e].sub]
      BY <3>1, <3>2, <3>3 DEF EventsApplied
    <3>5. ASSUME NEW g \in Handler, HasApplied(g)', handler'[g].event = e
          PROVE  e <= applied'[log[e].sub]
      <4>1. CASE g = h
        <5>1. e = me.event /\ Recorded(h) = log[e]
          BY <1>2, <1>5, <1>7, <3>5, <4>1
        <5>2. me.data.asOf = e /\ log[e].sub = s
          BY <2>3, <5>1
        <5> QED
          BY <2>2, <5>2
      <4>2. CASE g # h
        <5>1. handler'[g] = handler[g]
          BY <1>6, <4>2
        <5>2. e <= applied[log[e].sub]
          BY <3>1, <3>5, <5>1 DEF EventsApplied, HasApplied
        <5> QED
          BY <3>2, <3>3, <5>2
      <4> QED
        BY <4>1, <4>2
    <3> QED
      BY <3>4, <3>5
  <2>8. AppliedInv'
    BY <1>8, <2>5, <2>6, <2>7 DEF AppliedInv
  <2> QED
    BY <1>3, <2>8
<1>10. CASE SyncCommit(h) /\ ~SyncWrites(h)
  <2>1. UNCHANGED <<row, overtaken, applied>>
    BY <1>10, SyncCases DEF rowVars
  <2>2. (~overlapped' => \A t \in Subscription : RowVersion(t)')
    BY <1>1, <1>4, <1>8, <2>1 DEF AppliedInv, RowVersion
  <2>3. handler'[h].pc # "idle" => overlapped
    <3>1. CASE InsertCollides(h)
      <4>1. handler' = [handler EXCEPT ![h] = Idle]
        BY <1>10, <3>1 DEF SyncCommit
      <4> QED
        BY <1>1, <4>1, ConstantTypes DEF Shape, TypeOK
    <3>2. CASE ~InsertCollides(h)
      <4>1. CycleCollides(h, <<s, me.data.period>>)
        BY <1>10, <3>2 DEF SyncCommit, SyncWrites, WriteRow
      <4>2. ~overlapped => me.cycle = cycle
        BY <1>1, <1>2 DEF AccessIInv, Agree
      <4> QED
        BY <4>1, <4>2 DEF CycleCollides
    <3> QED
      BY <3>1, <3>2
  <2>4. ASSUME ~overlapped', ~overtaken'
        PROVE  EventsApplied'
    <3>1. EventsApplied /\ handler'[h].pc = "idle"
      BY <1>1, <1>2, <1>8, <2>1, <2>3, <2>4 DEF AppliedInv
    <3> QED
      BY <1>2, <1>4, <1>6, <2>1, <3>1 DEF EventsApplied, HasApplied
  <2>5. \A t \in Subscription : applied'[t] <= stripe'[t].asOf
    BY <1>4, <1>8, <2>1
  <2>6. AppliedInv'
    BY <1>8, <2>2, <2>4, <2>5 DEF AppliedInv
  <2> QED
    BY <1>3, <2>6
<1>11. CASE RefundCommit(h)
  <2>1. /\ UNCHANGED <<overtaken, applied>> /\ Recorded(h).kind = "refund"
    BY <1>11 DEF RefundCommit
  <2>2. ASSUME ~overlapped', NEW t \in Subscription
        PROVE  RowVersion(t)'
    <3>1. row'[t].status = row[t].status /\ row'[t].period = row[t].period
      BY <1>1, <1>8, <1>11, <2>2, RefundedRow
    <3>2. RowVersion(t)
      BY <1>1, <1>8, <2>2 DEF AppliedInv
    <3> QED
      BY <1>4, <2>1, <3>1, <3>2 DEF RowVersion
  <2>3. ASSUME ~overlapped', ~overtaken'
        PROVE  EventsApplied'
    <3>1. EventsApplied
      BY <1>1, <1>8, <2>1, <2>3 DEF AppliedInv
    <3> SUFFICES ASSUME NEW e \in 1 .. Len(log), log[e].kind = "updated", NEW g \in Handler,
                        HasApplied(g)', handler'[g].event = e
                 PROVE  e <= applied[log[e].sub]
      BY <1>2, <1>4, <2>1, <3>1 DEF EventsApplied
    <3>2. g # h
      BY <1>2, <1>5, <1>7, <2>1
    <3> QED
      BY <1>6, <3>1, <3>2 DEF EventsApplied, HasApplied
  <2>4. \A t \in Subscription : applied'[t] <= stripe'[t].asOf
    BY <1>4, <1>8, <2>1
  <2>5. AppliedInv'
    BY <1>8, <2>2, <2>3, <2>4 DEF AppliedInv
  <2> QED
    BY <1>3, <2>5
<1> QED
  BY <1>9, <1>10, <1>11

LEMMA RowStep ==
  ASSUME RowIInv, [ManagedNext]_managedVars
  PROVE  RowIInv'
<1>1. Shape /\ AccessIInv'
  BY AccessStep DEF RowIInv, AccessIInv
<1>2. CASE QuietMove
  BY <1>1, <1>2, QuietKeepsVersions DEF RowIInv
<1>3. ASSUME NEW h \in Handler,
             \/ \E e \in EventNo : Deliver(h, e)
             \/ HandlerStep(h) \/ FetchFails(h) \/ Abort(h)
      PROVE  Versions' /\ HandlerVersions' /\ AppliedInv'
  BY <1>1, <1>3, ReadsKeepVersions, CommitsKeepVersions DEF HandlerStep, ReadStep
<1> QED
  BY <1>1, <1>2, <1>3, QuietOrHandler DEF RowIInv

\* When every webhook is answered, the row is in the state Stripe is in, unless an attempt
\* was cut short, handlers overlapped or old data came last.
THEOREM RowFollows == ManagedSpec => []RowFollowsStripe
<1>1. ManagedInit => RowIInv
  BY VersionsInit
<1>2. RowIInv /\ [ManagedNext]_managedVars => RowIInv'
  BY RowStep
<1>3. ASSUME RowIInv
      PROVE  RowFollowsStripe
  <2> SUFFICES ASSUME answered = 1 .. Len(log), skipped = {}, ~overlapped, ~overtaken,
                      NEW s \in Subscription
               PROVE  row[s].status = stripe[s].status /\ row[s].period = stripe[s].period
    BY DEF RowFollowsStripe, Quiescent
  <2>1. /\ Shape /\ applied[s] <= stripe[s].asOf /\ RowVersion(s) /\ EventsApplied
        /\ stripe[s].asOf \in Nat /\ applied[s] \in Nat
    BY <1>3, VersionTypes DEF RowIInv, AccessIInv, AppliedInv
  <2>2. CASE stripe[s].asOf = 0
    BY <2>1, <2>2 DEF RowVersion
  <2>3. CASE stripe[s].asOf # 0
    <3> DEFINE e == stripe[s].asOf
    <3>1. IsVersion(s, stripe[s])
      BY <1>3, <2>3 DEF RowIInv, Versions
    <3>2. e \in 1 .. Len(log) /\ log[e].kind = "updated" /\ log[e].sub = s
          /\ log[e].data = stripe[s]
      BY <3>1 DEF IsVersion
    <3>3. e <= applied[s]
      BY <2>1, <3>2 DEF EventsApplied
    <3>4. applied[s] = e
      BY <2>1, <3>3
    <3> QED
      BY <2>1, <2>3, <3>2, <3>4 DEF RowVersion
  <2> QED
    BY <2>2, <2>3
<1> QED
  BY <1>1, <1>2, <1>3, PTL DEF ManagedSpec
-----------------------------------------------------------------------------
\* The override that waits

\* There is one at most, as the code finds the one there is before it creates another ...
OnePending == \A i, j \in Waiting : i = j

\* ... and what a request has read of the period is what the row says.
AskedPeriod ==
  ~crossed => \A a \in Admin : request[a].pc \in {"ask", "commit"} /\ request[a].asked =>
    request[a].read.period = row[request[a].sub].period

\* When the override that waits is to follow its row; whoever is about to move one has
\* written the row.
Following == ~(crossed \/ overlapped \/ stranded) /\ \A h \in Handler : handler[h].pc # "override"
OverrideWritten ==
  ~overlapped => \A h \in Handler : handler[h].pc = "override" => Written(Recorded(h).sub)

\* What has been written is followed as before.
FollowsOn == Following' => Following /\ \A s \in Subscription : row'[s].period = row[s].period

PendingIInv == AccessIInv /\ OnePending /\ AskedPeriod /\ OverrideWritten /\ PendingFollows

LEMMA FollowsWaiting ==
  PendingFollows <=>
    (Following => \A i \in Waiting : override[i].start[2] = row[override[i].start[1]].period)
BY DEF PendingFollows, Following, Waiting

LEMMA PendingInit ==
  ASSUME ManagedInit
  PROVE  PendingIInv
<1>1. override = <<>> /\ request = [a \in Admin |-> NoRequest]
  BY DEF ManagedInit, Init
<1>2. Live = {}
  BY <1>1 DEF Live
<1>3. OnePending /\ PendingFollows
  BY <1>2 DEF OnePending, PendingFollows, Waiting
<1>4. AskedPeriod
  BY <1>1, NoRequestType DEF AskedPeriod
<1>5. OverrideWritten
  BY ConstantTypes DEF OverrideWritten, ManagedInit, Init
<1> QED
  BY <1>3, <1>4, <1>5, AccessInit DEF PendingIInv

\* Which subscription a waiting override is for.
LEMMA WaitingStart ==
  ASSUME Shape, NEW i \in Waiting
  PROVE  /\ i \in 1 .. Len(override) /\ override[i] \in Override
         /\ override[i].start \in Key /\ override[i].start[1] \in Subscription
<1>1. override \in Seq(Override) /\ i \in 1 .. Len(override)
  BY ShapeFacts, OverrideFacts DEF Waiting
<1>2. override[i] \in Override
  BY <1>1, ElementOfSeq
<1>3. override[i].start # Managed
  BY DEF Waiting, Started
<1> QED
  BY <1>1, <1>2, <1>3 DEF Override, CycleKey, Key

\* Overrides that are left alone wait for the same, if the periods of rows stay.
LEMMA StillPending ==
  ASSUME PendingIInv, UNCHANGED override, ended \subseteq ended', FollowsOn
  PROVE  OnePending' /\ PendingFollows'
<1>1. Waiting' \subseteq Waiting
  BY WaitingKept
<1>2. OnePending'
  BY <1>1 DEF PendingIInv, OnePending
<1>3. ASSUME Following', NEW i \in Waiting'
      PROVE  override'[i].start[2] = row'[override'[i].start[1]].period
  <2>1. i \in Waiting /\ override[i].start[1] \in Subscription
    BY <1>1, <1>3, WaitingStart DEF PendingIInv, AccessIInv
  <2>2. override[i].start[2] = row[override[i].start[1]].period
    BY <1>3, <2>1, FollowsWaiting DEF PendingIInv, FollowsOn
  <2> QED
    BY <1>3, <2>1, <2>2 DEF FollowsOn
<1>4. PendingFollows'
  BY <1>3 DEF PendingFollows, Following, Waiting
<1> QED
  BY <1>2, <1>4

\* The one that waits moves with a row that is written with the new period.
LEMMA MovedPending ==
  ASSUME PendingIInv, NEW s \in Subscription, NEW p \in Period, ended \subseteq ended',
         Moved(s, p), Following' => row'[s].period = p
  PROVE  OnePending' /\ PendingFollows'
<1>0. /\ override' \in Seq(Override) /\ Len(override') = Len(override)
      /\ \A j \in 1 .. Len(override) :
           /\ override'[j].revoked = override[j].revoked
           /\ override'[j].start = IF j = PendingOverride THEN <<s, p>> ELSE override[j].start
  BY DEF Moved
<1>1. /\ DOMAIN override = 1 .. Len(override) /\ DOMAIN override' = 1 .. Len(override)
      /\ IF Waiting = {} THEN PendingOverride = 0 ELSE PendingOverride \in Waiting
  BY <1>0, ShapeFacts, OverrideFacts, LenProperties DEF PendingIInv, AccessIInv
<1>2. ASSUME NEW i \in Waiting'
      PROVE  i = PendingOverride /\ override'[i].start = <<s, p>>
  <2>1. /\ i \in 1 .. Len(override) /\ ~override'[i].revoked
        /\ \A start : start = override'[i].start => ~Started(start)'
    BY <1>0, <1>1, <1>2 DEF Waiting, Live
  <2>2. i = PendingOverride
    <3>1. CASE i # PendingOverride
      <4>1. override'[i].start = override[i].start /\ ~override[i].revoked
        BY <1>0, <2>1, <3>1
      <4>2. ~Started(override[i].start)
        BY <2>1, <4>1, StartedStays
      <4>3. i \in Waiting
        BY <1>1, <2>1, <4>1, <4>2 DEF Waiting, Live
      <4> QED
        BY <1>1, <4>3 DEF PendingIInv, OnePending
    <3> QED
      BY <3>1
  <2> QED
    BY <1>0, <2>1, <2>2
<1>3. OnePending'
  BY <1>2 DEF OnePending
<1>4. ASSUME Following', NEW i \in Waiting'
      PROVE  override'[i].start[2] = row'[override'[i].start[1]].period
  BY <1>2, <1>4
<1>5. PendingFollows'
  BY <1>4 DEF PendingFollows, Following, Waiting
<1> QED
  BY <1>3, <1>5

\* Handlers write the row first.
LEMMA OverrideWrittenStep ==
  ASSUME AccessIInv, OverrideWritten, [ManagedNext]_managedVars
  PROVE  OverrideWritten'
<1>1. Shape
  BY DEF AccessIInv
<1>2. CASE QuietMove
  <2>1. /\ UNCHANGED handler /\ RowsAlike /\ (overlapped => overlapped') /\ StripeMove
    BY <1>2 DEF QuietMove
  <2>2. \A h \in Handler : handler[h].pc = "override" =>
          Recorded(h)' = Recorded(h) /\ Recorded(h).sub \in Subscription
    BY <1>1, <2>1, RecordedStays, ShapeFacts
  <2> QED
    BY <2>1, <2>2 DEF OverrideWritten, RowsAlike, Written
<1>3. ASSUME NEW h \in Handler, HandlerStepped(h), UNCHANGED stripeVars, RowsStay,
             handler' = [handler EXCEPT ![h] = handler'[h]], overlapped => overlapped',
             handler'[h].pc = "override" /\ ~overlapped' => Written(Recorded(h).sub)'
      PROVE  OverrideWritten'
  <2> SUFFICES ASSUME ~overlapped', NEW g \in Handler, handler'[g].pc = "override"
               PROVE  Written(Recorded(g).sub)'
    BY DEF OverrideWritten
  <2>1. CASE g = h
    BY <1>3, <2>1
  <2>2. CASE g # h
    <3>1. handler'[g] = handler[g] /\ Recorded(g)' = Recorded(g)
      BY <1>1, <1>3, <2>2, SteppedTypes DEF HandlerStepped
    <3>2. Written(Recorded(g).sub) /\ Recorded(g).sub \in Subscription
      BY <1>1, <1>3, <3>1, ShapeFacts DEF OverrideWritten
    <3> QED
      BY <1>3, <3>1, <3>2 DEF RowsStay, Written
  <2> QED
    BY <2>1, <2>2
<1>4. ASSUME NEW h \in Handler, ReadStep(h)
      PROVE  OverrideWritten'
  <2>1. /\ HandlerStepped(h) /\ UNCHANGED stripeVars /\ RowsStay /\ UNCHANGED overlapped
        /\ handler' = [handler EXCEPT ![h] = handler'[h]]
    BY <1>1, <1>4, ReadFacts
  <2>2. handler[h].pc # "commit" \/ handler'[h].pc = "idle"
    <3>1. Abort(h) => handler'[h] = Idle
      BY <1>1 DEF Abort, Shape, TypeOK
    <3> QED
      BY <1>4, <3>1, ConstantTypes DEF ReadStep, Deliver, Register, Fetch, Load, FetchFails,
         MoveOverride, Note, Finish
  <2>3. handler'[h].pc # "override"
    BY <2>1, <2>2 DEF HandlerStepped
  <2> QED
    BY <1>3, <2>1, <2>3
<1>5. ASSUME NEW h \in Handler, SyncCommit(h) \/ RefundCommit(h)
      PROVE  OverrideWritten'
  <2>1. /\ HandlerStepped(h) /\ RowsStay /\ handler[h].pc = "commit"
        /\ handler' = [handler EXCEPT ![h] = handler'[h]]
        /\ UNCHANGED stripeVars /\ (overlapped => overlapped')
    BY <1>1, <1>5, CommitSteps, CommitsKeepShape DEF SyncCommit, RefundCommit
  <2>2. ASSUME handler'[h].pc = "override", ~overlapped'
        PROVE  Written(Recorded(h).sub)'
    <3>1. Recorded(h)' = Recorded(h) /\ Recorded(h).kind # "refund"
      BY <1>1, <2>1, <2>2, SteppedTypes DEF HandlerStepped
    <3>2. SyncCommit(h)
      BY <1>5, <3>1 DEF RefundCommit
    <3>3. CASE SyncWrites(h)
      BY <1>1, <3>1, <3>2, <3>3, SyncMoves DEF Written
    <3>4. CASE ~SyncWrites(h)
      <4>1. handler[h].cycle = cycle
        BY <2>1, <2>2 DEF AccessIInv, Agree
      <4>2. ~CycleCollides(h, <<Recorded(h).sub, handler[h].data.period>>)
        BY <4>1 DEF CycleCollides
      <4>3. InsertCollides(h)
        BY <3>2, <3>4, <4>2 DEF SyncCommit, SyncWrites, WriteRow
      <4>4. handler' = [handler EXCEPT ![h] = Idle]
        BY <3>2, <4>3 DEF SyncCommit
      <4> QED
        BY <1>1, <2>2, <4>4, ConstantTypes DEF Shape, TypeOK
    <3> QED
      BY <3>3, <3>4
  <2> QED
    BY <1>3, <2>1, <2>2
<1> QED
  BY <1>1, <1>2, <1>4, <1>5, QuietOrHandler DEF HandlerStep, ReadStep

\* What a step of a handler does to the override that waits, and to what it waits for.
LEMMA HandlerFollows ==
  ASSUME AccessIInv, OverrideWritten, crossed => crossed', NEW h \in Handler,
         ReadStep(h) \/ SyncCommit(h) \/ RefundCommit(h)
  PROVE  /\ ended \subseteq ended' /\ (overlapped => overlapped')
         /\ \/ UNCHANGED override /\ FollowsOn
            \/ \E s \in Subscription, p \in Period :
                 Moved(s, p) /\ (Following' => row'[s].period = p)
<1>1. Shape /\ handler \in [Handler -> HandlerState]
  BY DEF AccessIInv, Shape, TypeOK
<1>2. CASE MoveOverride(h)
  <2> DEFINE s == Recorded(h).sub
             p == row[s].period
  <2>1. /\ s \in Subscription /\ UNCHANGED stripeVars /\ UNCHANGED <<row, overlapped>>
        /\ \/ p \in Period /\ override' = PendingMoved(s, p)
           \/ ~Written(s) /\ UNCHANGED override
    BY <1>1, <1>2, MoveFacts
  <2>2. ended \subseteq ended' /\ (overlapped => overlapped') /\ row'[s].period = p
    BY <2>1 DEF stripeVars
  <2>3. ~Written(s) => overlapped'
    BY <1>2, <2>1 DEF OverrideWritten, MoveOverride
  <2>4. overlapped' => FollowsOn
    BY DEF FollowsOn, Following
  <2>5. p \in Period /\ override' = PendingMoved(s, p) => Moved(s, p)
    BY <1>1, <2>1, ShapeFacts, PendingMovedFacts DEF Moved
  <2> HIDE DEF s, p
  <2> QED
    BY <2>1, <2>2, <2>3, <2>4, <2>5
<1>3. CASE ReadStep(h) /\ ~MoveOverride(h)
  <2>1. /\ HandlerStepped(h) /\ UNCHANGED stripeVars /\ UNCHANGED <<row, overlapped, override>>
    BY <1>1, <1>3, ReadFacts
  <2>2. (stranded => stranded') /\ (handler[h].pc = "override" => stranded')
    <3>1. CASE Abort(h)
      BY <3>1 DEF Abort
    <3>2. CASE ~Abort(h)
      <4>1. /\ UNCHANGED stranded /\ handler[h].pc # "override"
        BY <1>3, <3>2 DEF ReadStep, Deliver, Register, Fetch, Load, FetchFails, Note, Finish,
                          historyVars
      <4> QED
        BY <4>1
    <3> QED
      BY <3>1, <3>2
  <2>3. FollowsOn
    BY <2>1, <2>2 DEF FollowsOn, Following, HandlerStepped
  <2> QED
    BY <2>1, <2>3 DEF stripeVars
<1>4. CASE SyncCommit(h) \/ RefundCommit(h)
  <2>1. /\ HandlerStepped(h) /\ handler[h].pc = "commit" /\ UNCHANGED stripeVars
        /\ (overlapped => overlapped')
    BY <1>1, <1>4, CommitSteps DEF SyncCommit, RefundCommit
  <2>2. ended \subseteq ended'
    BY <2>1 DEF stripeVars
  <2>3. ASSUME UNCHANGED stranded,
               ~overlapped' => \A s \in Subscription : row'[s].period = row[s].period
        PROVE  FollowsOn
    BY <2>1, <2>3 DEF FollowsOn, Following, HandlerStepped
  <2>4. CASE SyncCommit(h) /\ SyncWrites(h)
    <3> DEFINE s == Recorded(h).sub
               p == handler[h].data.period
    <3>1. /\ s \in Subscription /\ p \in Period
          /\ (UNCHANGED override /\ handler'[h].pc = "override") \/ Moved(s, p)
      BY <1>1, <2>4, SyncMoves
    <3>2. ~overlapped' => row'[s].period = p
      BY <2>1, <2>4, SyncedRow
    <3>3. Following' => ~overlapped' /\ handler'[h].pc # "override"
      BY DEF Following
    <3> HIDE DEF s, p
    <3> QED
      BY <2>1, <2>2, <3>1, <3>2, <3>3 DEF FollowsOn
  <2>5. CASE SyncCommit(h) /\ ~SyncWrites(h)
    <3>1. UNCHANGED <<row, override, stranded>>
      BY <2>5, SyncCases DEF rowVars, accessVars
    <3> QED
      BY <2>1, <2>2, <2>3, <3>1
  <2>6. CASE RefundCommit(h)
    <3>1. UNCHANGED <<override, stranded>>
      BY <2>6 DEF RefundCommit, accessVars
    <3>2. ~overlapped' => \A s \in Subscription : row'[s].period = row[s].period
      BY <2>1, <2>6, RefundedRow
    <3> QED
      BY <2>1, <2>2, <2>3, <3>1, <3>2
  <2> QED
    BY <1>4, <2>4, <2>5, <2>6
<1> QED
  BY <1>2, <1>3, <1>4

\* What a step of Stripe, a handler or the user does to overrides and the periods of rows.
LEMMA BillingMoves ==
  ASSUME AccessIInv, OverrideWritten, BillingStep
  PROVE  /\ ended \subseteq ended' /\ (~overlapped' => ~overlapped) /\ (~crossed' => ~crossed)
         /\ UNCHANGED request
         /\ ~crossed' => \A a \in Admin : Working(a) => UNCHANGED <<row, override>>
         /\ \/ UNCHANGED override /\ FollowsOn
            \/ \E s \in Subscription, p \in Period :
                 Moved(s, p) /\ (Following' => row'[s].period = p)
<1>1. /\ Shape /\ Next /\ UNCHANGED request
      /\ crossed' = (crossed \/ (/\ row' # row \/ override' # override
                                 /\ \E a \in Admin : Working(a)))
  BY DEF AccessIInv, BillingStep
<1>2. /\ crossed => crossed'
      /\ ~crossed' => \A a \in Admin : Working(a) => UNCHANGED <<row, override>>
  BY <1>1
<1>3. CASE QuietMove
  <2>1. /\ ended \subseteq ended' /\ (overlapped => overlapped') /\ UNCHANGED <<handler, stranded>>
        /\ \A s \in Subscription : row'[s].period = row[s].period
    BY <1>3 DEF QuietMove, StripeMove, RowsAlike
  <2>2. FollowsOn
    BY <1>2, <2>1 DEF FollowsOn, Following
  <2>3. ASSUME NEW h \in Handler, MoveOverride(h) \/ (SyncCommit(h) /\ SyncWrites(h))
        PROVE  FALSE
    <3>1. CASE MoveOverride(h)
      BY <1>1, <2>1, <3>1, MoveSteps
    <3>2. CASE SyncCommit(h) /\ SyncWrites(h)
      <4>1. /\ handler[h].pc = "commit" /\ handler \in [Handler -> HandlerState]
            /\ \E pc \in {"override", "note"} :
                 handler' = [handler EXCEPT ![h].pc = pc, ![h].row = NoRow, ![h].cycle = NoCycles]
        BY <1>1, <3>2, SyncCases DEF SyncWrites, Shape, TypeOK
      <4>2. handler'[h].pc # "commit"
        BY <4>1, HandlerFields
      <4> QED
        BY <2>1, <4>1, <4>2
    <3> QED
      BY <2>3, <3>1, <3>2
  <2>4. UNCHANGED override
    BY <1>1, <2>3, OverrideMoves
  <2> QED
    BY <1>1, <1>2, <2>1, <2>2, <2>4
<1>4. ASSUME NEW h \in Handler, ReadStep(h) \/ SyncCommit(h) \/ RefundCommit(h)
      PROVE  /\ ended \subseteq ended' /\ (overlapped => overlapped')
             /\ \/ UNCHANGED override /\ FollowsOn
                \/ \E s \in Subscription, p \in Period :
                     Moved(s, p) /\ (Following' => row'[s].period = p)
  BY <1>2, <1>4, HandlerFollows
<1>5. QuietMove \/ \E h \in Handler : ReadStep(h) \/ SyncCommit(h) \/ RefundCommit(h)
  BY <1>1, QuietOrHandler DEF ManagedNext, HandlerStep, ReadStep
<1> QED
  BY <1>1, <1>2, <1>3, <1>4, <1>5

LEMMA BillingKeepsPending ==
  ASSUME PendingIInv, BillingStep
  PROVE  OnePending' /\ AskedPeriod' /\ PendingFollows'
<1>1. AccessIInv /\ Shape /\ AskedPeriod /\ OverrideWritten
  BY DEF PendingIInv, AccessIInv
<1>2. /\ ended \subseteq ended' /\ (~overlapped' => ~overlapped) /\ (~crossed' => ~crossed)
      /\ UNCHANGED request
      /\ ~crossed' => \A a \in Admin : Working(a) => UNCHANGED <<row, override>>
  BY <1>1, BillingMoves
<1>3. AskedPeriod'
  BY <1>1, <1>2 DEF AskedPeriod, Working
<1>4. OnePending' /\ PendingFollows'
  <2>1. CASE UNCHANGED override /\ FollowsOn
    BY <1>2, <2>1, StillPending
  <2>2. ASSUME NEW s \in Subscription, NEW p \in Period,
               Moved(s, p), Following' => row'[s].period = p
        PROVE  OnePending' /\ PendingFollows'
    BY <1>2, <2>2, MovedPending
  <2> QED
    BY <1>1, <2>1, <2>2, BillingMoves
<1> QED
  BY <1>3, <1>4

\* What a request does to overrides and the periods of rows.
LEMMA AdminQuietly ==
  ASSUME Shape, NEW a \in Admin, AdminStep(a)
  PROVE  /\ ended \subseteq ended' /\ (~overlapped' => ~overlapped) /\ (~crossed' => ~crossed)
         /\ \A s \in Subscription : row'[s].period = row[s].period
         /\ FollowsOn
         /\ \A b \in Admin \ {a} : request'[b] = request[b]
         /\ UNCHANGED override \/ CommitProfile(a)
<1>1. QuietMove
  BY AdminQuiet
<1>2. request \in [Admin -> RequestState] /\ RequestStepped(a)
  BY AdminStepped DEF Shape, ManagedTypeOK
<1>3. \A b \in Admin \ {a} : request'[b] = request[b]
  BY <1>2 DEF RequestStepped
<1>4. /\ ended \subseteq ended' /\ (~overlapped' => ~overlapped) /\ (~crossed' => ~crossed)
      /\ \A s \in Subscription : row'[s].period = row[s].period
      /\ UNCHANGED <<handler, stranded>>
      /\ UNCHANGED override \/ CommitProfile(a)
  BY <1>1, AdminMoves DEF QuietMove, StripeMove, RowsAlike, WriteRank
<1>5. FollowsOn
  BY <1>4 DEF FollowsOn, Following
<1> QED
  BY <1>3, <1>4, <1>5

\* What the commit of a profile makes of the overrides.
LEMMA CommitOverrides ==
  ASSUME Shape, NEW a \in Admin, CommitProfile(a)
  PROVE  LET me == request[a]
             n == Len(override) IN
         /\ me \in RequestState /\ me.pc = "commit" /\ me.after = "profile" /\ n \in Nat
         /\ me.asked => /\ Written(me.sub) /\ Bought(me.sub) /\ me.sub \in Subscription
                        /\ me.read.period \in Period
         /\ override' \in Seq(Override) /\ DOMAIN override = 1 .. n /\ DOMAIN override' = 1 .. Len(override')
         /\ me.profile = "ambassador" => override' = Granted(me)
         /\ me.profile # "ambassador" => override' = Withdrawn(me)
         /\ crossed' = (crossed \/ Disturbs(a))
         /\ WriteCancel(me) /\ UNCHANGED stripeVars
<1> DEFINE me == request[a]
<1>1. /\ me.pc = "commit" /\ me.after = "profile"
      /\ override' = IF me.profile = "ambassador" THEN Granted(me) ELSE Withdrawn(me)
      /\ crossed' = (crossed \/ Disturbs(a)) /\ WriteCancel(me) /\ UNCHANGED stripeVars
  BY DEF CommitProfile
<1>2. /\ me \in RequestState /\ override \in Seq(Override)
      /\ (me.asked => Written(me.sub) /\ me.read.period \in Period)
  BY <1>1, ShapeFacts DEF Shape, RequestShape, SoundRequest
<1>3. me.sub \in Subscription /\ (me.asked => Bought(me.sub))
  BY <1>2, RequestFields DEF Shape, RowShape
<1>4. override' \in Seq(Override)
  <2>1. Granted(me) \in Seq(Override)
    BY <1>2, GrantedFacts
  <2>2. Withdrawn(me) \in Seq(Override)
    BY <1>2, WithdrawnFacts
  <2> QED
    BY <1>1, <2>1, <2>2
<1>5. /\ Len(override) \in Nat /\ DOMAIN override = 1 .. Len(override)
      /\ DOMAIN override' = 1 .. Len(override')
  BY <1>2, <1>4, LenProperties
<1> QED
  BY <1>1, <1>2, <1>3, <1>4, <1>5

LEMMA CommitKeepsPending ==
  ASSUME PendingIInv, NEW a \in Admin, AdminStep(a), CommitProfile(a)
  PROVE  OnePending' /\ PendingFollows'
<1> DEFINE me == request[a]
           n == Len(override)
<1>1. Shape /\ OnePending /\ AskedPeriod /\ PendingFollows /\ AccessIInv
  BY DEF PendingIInv, AccessIInv
<1>2. /\ ended \subseteq ended' /\ FollowsOn
      /\ \A s \in Subscription : row'[s].period = row[s].period
  BY <1>1, AdminQuietly
<1>3. /\ me \in RequestState /\ me.pc = "commit" /\ n \in Nat
      /\ me.asked => me.read.period \in Period
      /\ me.sub \in Subscription
      /\ override \in Seq(Override) /\ override' \in Seq(Override)
      /\ DOMAIN override = 1 .. n /\ DOMAIN override' = 1 .. Len(override')
      /\ me.profile = "ambassador" => override' = Granted(me)
      /\ me.profile # "ambassador" => override' = Withdrawn(me)
  BY <1>1, ShapeFacts, CommitOverrides, RequestFields
<1>4. /\ IF Waiting = {} THEN PendingOverride = 0 ELSE PendingOverride \in Waiting
      /\ Waiting \subseteq 1 .. n
  BY <1>1, ShapeFacts, OverrideFacts DEF Waiting
<1>5. \* Who waits afterwards waited before, for the same, or for what was asked.
      ASSUME NEW i \in Waiting'
      PROVE  \/ i \in Waiting /\ override'[i].start = override[i].start
             \/ /\ me.asked /\ override'[i].start = <<me.sub, me.read.period>>
                /\ i = PendingOverride \/ (PendingOverride = 0 /\ i = n + 1)
                /\ me.profile = "ambassador"
  <2>1. /\ i \in 1 .. Len(override') /\ ~override'[i].revoked
        /\ \A start : start = override'[i].start => ~Started(start)'
    BY <1>3, <1>5 DEF Waiting, Live
  <2>2. \A start : start = override'[i].start => ~Started(start)
    BY <1>2, <2>1, StartedStays
  <2>3. ASSUME i \in 1 .. n, override'[i].start = override[i].start, ~override[i].revoked
        PROVE  i \in Waiting
    BY <1>3, <2>2, <2>3 DEF Waiting, Live
  <2>4. CASE me.profile # "ambassador"
    <3>0. override' = Withdrawn(me)
      BY <1>3, <2>4
    <3>1. /\ Len(override') = n
          /\ \A j \in 1 .. n : /\ override'[j].start = override[j].start
                               /\ override'[j].revoked
                                    = (override[j].revoked \/ j \in {me.active, me.pending})
      BY <1>3, <3>0, WithdrawnFacts
    <3>2. i \in 1 .. n /\ override'[i].start = override[i].start
      BY <2>1, <3>1
    <3>3. override'[i].revoked <=> (override[i].revoked \/ i \in {me.active, me.pending})
      BY <3>1, <3>2, Zenon
    <3> QED
      BY <2>1, <2>3, <3>2, <3>3
  <2>5. CASE me.profile = "ambassador"
    <3>1. /\ Len(override') \in {n, n + 1}
          /\ \A j \in 1 .. n : override'[j].revoked = override[j].revoked
          /\ Len(override') # n =>
               /\ me.asked => /\ PendingOverride = 0
                              /\ override'[n + 1].start = <<me.sub, me.read.period>>
               /\ ~me.asked => override'[n + 1].start = Managed
          /\ \A j \in 1 .. n : override'[j].start
               = IF me.asked /\ j = PendingOverride THEN <<me.sub, me.read.period>>
                 ELSE override[j].start
      BY <1>3, <2>5, GrantedFacts
    <3>2. CASE i \in 1 .. n
      <4>1. CASE me.asked /\ i = PendingOverride
        BY <2>5, <3>1, <3>2, <4>1
      <4>2. CASE ~(me.asked /\ i = PendingOverride)
        BY <2>1, <2>3, <3>1, <3>2, <4>2
      <4> QED
        BY <4>1, <4>2
    <3>3. CASE i \notin 1 .. n
      <4>1. i = n + 1 /\ Len(override') # n
        <5>1. i \in 1 .. Len(override') /\ n \in Nat /\ Len(override') \in {n, n + 1}
          BY <1>3, <2>1, <3>1
        <5> HIDE DEF n
        <5> QED
          BY <3>3, <5>1
      <4>2. override'[i].start # Managed
        BY <2>2 DEF Started
      <4>3. me.asked
        BY <3>1, <4>1, <4>2
      <4> QED
        BY <2>5, <3>1, <4>1, <4>3
    <3> QED
      BY <3>2, <3>3
  <2> QED
    BY <2>4, <2>5
<1>6. OnePending'
  <2> SUFFICES ASSUME NEW i \in Waiting', NEW j \in Waiting'
               PROVE  i = j
    BY DEF OnePending
  <2>1. \A k \in Waiting : k = PendingOverride /\ PendingOverride # 0
    <3>1. \A k, l \in Waiting : k = l
      BY <1>1 DEF OnePending
    <3>2. 0 \notin 1 .. n
      BY <1>3
    <3> QED
      BY <1>4, <3>1, <3>2
  <2>2. i = PendingOverride \/ (PendingOverride = 0 /\ i = n + 1)
    BY <1>5, <2>1
  <2>3. j = PendingOverride \/ (PendingOverride = 0 /\ j = n + 1)
    BY <1>5, <2>1
  <2>4. \A k \in Waiting' : k # 0
    BY <1>3 DEF Waiting, Live
  <2> QED
    BY <2>2, <2>3, <2>4
<1>7. ASSUME Following', NEW i \in Waiting'
      PROVE  override'[i].start[2] = row'[override'[i].start[1]].period
  <2>0. Following /\ ~crossed
    BY <1>2, <1>7 DEF FollowsOn, Following
  <2>1. CASE i \in Waiting /\ override'[i].start = override[i].start
    <3>1. override[i].start[2] = row[override[i].start[1]].period
      BY <1>1, <2>0, <2>1, FollowsWaiting
    <3>2. override[i].start[1] \in Subscription
      BY <1>1, <2>1, WaitingStart
    <3> QED
      BY <1>2, <2>1, <3>1, <3>2
  <2>2. CASE me.asked /\ override'[i].start = <<me.sub, me.read.period>>
    <3>1. me.read.period = row[me.sub].period
      BY <1>1, <1>3, <2>0, <2>2 DEF AskedPeriod
    <3> QED
      BY <1>2, <1>3, <2>2, <3>1
  <2> QED
    BY <1>5, <2>1, <2>2
<1>8. PendingFollows'
  BY <1>7 DEF PendingFollows, Following, Waiting
<1> QED
  BY <1>6, <1>8

LEMMA AdminKeepsPending ==
  ASSUME PendingIInv, NEW a \in Admin, AdminStep(a)
  PROVE  OnePending' /\ AskedPeriod' /\ PendingFollows'
<1> DEFINE me == request[a]
           new == request'[a]
<1>1. Shape /\ AskedPeriod
  BY DEF PendingIInv, AccessIInv
<1>2. /\ ended \subseteq ended' /\ FollowsOn /\ (~crossed' => ~crossed)
      /\ \A s \in Subscription : row'[s].period = row[s].period
      /\ \A b \in Admin \ {a} : request'[b] = request[b]
      /\ UNCHANGED override \/ CommitProfile(a)
  BY <1>1, AdminQuietly
<1>3. OnePending' /\ PendingFollows'
  BY <1>2, StillPending, CommitKeepsPending
<1>4. RequestStepped(a) /\ me \in RequestState /\ new \in RequestState
      /\ \A b \in Admin : request[b] \in RequestState
  BY <1>1, AdminStepped, ShapeFacts DEF RequestStepped
<1>5. ASSUME ~crossed', NEW b \in Admin, request'[b].pc \in {"ask", "commit"}, request'[b].asked
      PROVE  request'[b].read.period = row'[request'[b].sub].period
  <2>1. CASE b # a
    <3>1. request'[b] = request[b] /\ request[b].sub \in Subscription
      BY <1>2, <1>4, <2>1, RequestFields
    <3> QED
      BY <1>1, <1>2, <1>5, <3>1 DEF AskedPeriod
  <2>2. CASE b = a /\ new.sub = latest /\ new.read = row[latest]
    <3>1. latest \in Subscription
      BY <1>1 DEF Shape, TypeOK
    <3> QED
      BY <1>2, <2>2, <3>1
  <2>3. CASE b = a /\ me.pc = "ask" /\ new = [me EXCEPT !.pc = "commit"] /\ me.asked
    <3>1. new.read = me.read /\ new.sub = me.sub /\ me.sub \in Subscription
      BY <1>4, <2>3, RequestFields DEF RequestState
    <3>2. me.read.period = row[me.sub].period
      BY <1>1, <1>2, <1>5, <2>3 DEF AskedPeriod
    <3> QED
      BY <1>2, <2>3, <3>1, <3>2
  <2> QED
    BY <1>4, <1>5, <2>1, <2>2, <2>3 DEF RequestStepped
<1>6. AskedPeriod'
  BY <1>5 DEF AskedPeriod
<1> QED
  BY <1>3, <1>6

LEMMA PendingStep ==
  ASSUME PendingIInv, [ManagedNext]_managedVars
  PROVE  PendingIInv'
<1>1. AccessIInv' /\ OverrideWritten' /\ Shape /\ AskedPeriod
  BY AccessStep, OverrideWrittenStep DEF PendingIInv, AccessIInv
<1>2. ASSUME UNCHANGED <<override, row, request, crossed, overlapped, stranded, handler>>,
             ended \subseteq ended'
      PROVE  OnePending' /\ AskedPeriod' /\ PendingFollows'
  <2>1. FollowsOn
    BY <1>2 DEF FollowsOn, Following
  <2> QED
    BY <1>1, <1>2, <2>1, StillPending DEF AskedPeriod
<1>3. ASSUME NEW s \in Subscription, PortalToggle(s)
      PROVE  OnePending' /\ AskedPeriod' /\ PendingFollows'
  <2>1. UNCHANGED serverVars /\ UNCHANGED <<ended, request, crossed>>
    BY <1>3 DEF PortalToggle, Emit
  <2> QED
    BY <1>2, <2>1 DEF serverVars, rowVars, accessVars, historyVars
<1>4. ASSUME UNCHANGED managedVars
      PROVE  OnePending' /\ AskedPeriod' /\ PendingFollows'
  <2>1. UNCHANGED <<override, row, request, crossed, overlapped, stranded, handler, ended>>
    BY <1>4 DEF managedVars, vars, stripeVars, rowVars, accessVars, historyVars,
                requestVars, requestHistory
  <2> QED
    BY <1>2, <2>1
<1>5. OnePending' /\ AskedPeriod' /\ PendingFollows'
  BY <1>3, <1>4, BillingKeepsPending, AdminKeepsPending DEF ManagedNext
<1> QED
  BY <1>1, <1>5 DEF PendingIInv

LEMMA PendingInvariant == ManagedSpec => []PendingIInv
<1>1. ManagedInit => PendingIInv
  BY PendingInit
<1>2. PendingIInv /\ [ManagedNext]_managedVars => PendingIInv'
  BY PendingStep
<1> QED
  BY <1>1, <1>2, PTL DEF ManagedSpec

-----------------------------------------------------------------------------
\* What Stripe has been told

Undisturbed == lost = 0 /\ OneBought /\ ~(crossed \/ promoted \/ toggled \/ misread)

\* Stripe is to end a subscription.
Ending(s) == stripe[s].cancel /\ stripe[s].status # "canceled"
For(s) == {i \in Live : override[i].start[1] = s}

\* A request has told Stripe, and has yet to write it down ...
Telling(a) == request[a].pc = "commit" /\ request[a].asked

\* ... as the only one.
Alone(a) == \A b \in Admin : Telling(b) => b = a

OverridesBought ==
  \A i \in DOMAIN override : override[i].start # Managed => Bought(override[i].start[1])

\* A checkout session is for a subscription that was not bought yet.
OfferedUnbought == \A s \in Subscription : offered[s] \in Active => ~Bought(s)

LatestWrites == \A s \in Subscription : Written(s) => Written(latest)

\* Without a superuser no request is about one.
NotRanked ==
  ~promoted => ~superuser /\ \A a \in Admin : request[a].pc \in {"ask", "commit"} =>
                               request[a].after = "profile"

\* Stripe is told to end the subscription of an ambassador.
FlagAsked ==
  \A a \in Admin : request[a].pc \in {"ask", "commit"} /\ request[a].after = "profile" =>
    (request[a].cancel <=> request[a].profile = "ambassador")

Accord ==
  (\A a \in Admin : ~Telling(a)) =>
    \A s \in Subscription : stripe[s].status # "canceled" => (Ending(s) <=> For(s) # {})

\* Stripe has done what it was told by the request that is about to commit ...
Told(a) ==
  Telling(a) /\ Alone(a) /\ stripe[request[a].sub].status # "canceled" =>
    (stripe[request[a].sub].cancel <=> request[a].cancel)

\* ... one for "standard" that asks nothing of Stripe has nothing to ask ...
NothingToAsk(a) ==
  LET me == request[a] IN
  me.pc = "commit" /\ me.profile = "standard" /\ ~me.asked /\ Alone(a) =>
    \A s \in Subscription : ~Ending(s)

\* ... and one that asks revokes what there is for the subscription.
ReadsAll(a) ==
  LET me == request[a] IN
  /\ me.pc \in {"ask", "commit"} /\ me.profile = "standard" /\ me.asked /\ Alone(a)
  /\ stripe[me.sub].status # "canceled"
  => For(me.sub) \subseteq {me.active, me.pending}

CancelParts ==
  Undisturbed => /\ Accord
                 /\ \A a \in Admin : Told(a) /\ NothingToAsk(a) /\ ReadsAll(a)

Grounds == OverridesBought /\ OfferedUnbought /\ LatestWrites /\ NotRanked /\ FlagAsked
HandoverIInv == PendingIInv /\ Grounds /\ CancelParts

LEMMA HandoverInit ==
  ASSUME ManagedInit
  PROVE  HandoverIInv
<1>1. /\ request = [a \in Admin |-> NoRequest] /\ override = <<>> /\ superuser = FALSE
      /\ offered = [s \in Subscription |-> "none"] /\ latest \in Subscription
      /\ \/ row = [s \in Subscription |-> NoRow] /\ stripe = [s \in Subscription |-> NoPayload]
         \/ /\ row = [s \in Subscription |-> IF s = latest THEN FirstRow ELSE NoRow]
            /\ stripe = [s \in Subscription |-> IF s = latest THEN First ELSE NoPayload]
  BY StripeAssumption DEF ManagedInit, Init
<1>2. \A s : For(s) = {}
  BY <1>1 DEF For, Live
<1>3. \A s \in Subscription : stripe[s].cancel = FALSE
  BY <1>1 DEF NoPayload, First
<1>4. \A a \in Admin : request[a].pc = "idle"
  BY <1>1, NoRequestType
<1>5. Accord
  BY <1>2, <1>3 DEF Accord, Ending
<1>6. \A a \in Admin : Told(a) /\ NothingToAsk(a) /\ ReadsAll(a)
  BY <1>4 DEF Told, Telling, NothingToAsk, ReadsAll
<1>7. OverridesBought /\ NotRanked /\ FlagAsked
  BY <1>1, <1>4 DEF OverridesBought, NotRanked, FlagAsked
<1>8. OfferedUnbought
  BY <1>1 DEF OfferedUnbought, Active
<1>9. LatestWrites
  BY <1>1, ConstantTypes DEF LatestWrites, Written
<1> QED
  BY <1>5, <1>6, <1>7, <1>8, <1>9, PendingInit DEF HandoverIInv, Grounds, CancelParts

\* What goes on at Stripe, but for the portal and requests, leaves the flag alone: a
\* subscription that is bought was none before, one that is canceled remains so.
FlagsStay ==
  \A s \in Subscription :
    /\ stripe'[s].status # "canceled" =>
         stripe[s].status # "canceled" /\ stripe'[s].cancel = stripe[s].cancel
    /\ Bought(s) => Bought(s)'

LEMMA StripeKeepsFlags ==
  ASSUME Shape, OfferedUnbought, StripeStep
  PROVE  FlagsStay /\ OfferedUnbought'
<1>1. /\ StripeInv /\ stripe \in [Subscription -> Payload]
      /\ \A s \in Subscription : ~Bought(s) => stripe[s] = NoPayload
      /\ offered \in [Subscription -> {"none", "completed"} \cup Active]
      /\ "none" \notin Active /\ "completed" \notin Active
  BY ShapeFacts DEF StripeInv, StripeType, StripeShape, Active
<1>2. \A s \in Subscription : Bought(s) => Bought(s)'
  BY <1>1, StripeStepMove, StripeKept
<1>3. ASSUME NEW s \in Subscription, NEW data, stripe' = [stripe EXCEPT ![s] = data],
             data.status # "canceled" =>
               stripe[s].status # "canceled" /\ data.cancel = stripe[s].cancel,
             \/ Bought(s) /\ UNCHANGED offered
             \/ offered' = [offered EXCEPT ![s] = "completed"]
      PROVE  FlagsStay /\ OfferedUnbought'
  <2>1. stripe'[s] = data /\ \A t \in Subscription \ {s} : stripe'[t] = stripe[t]
    BY <1>1, <1>3
  <2>2. FlagsStay
    BY <1>2, <1>3, <2>1 DEF FlagsStay
  <2>3. ASSUME NEW t \in Subscription, offered'[t] \in Active
        PROVE  ~Bought(t)'
    <3>1. t # s /\ offered[t] \in Active
      BY <1>1, <1>3, <2>3 DEF OfferedUnbought
    <3> QED
      BY <2>1, <3>1 DEF OfferedUnbought, Bought
  <2> QED
    BY <2>2, <2>3 DEF OfferedUnbought
<1>4. ASSUME UNCHANGED <<stripe, offered>>
      PROVE  FlagsStay /\ OfferedUnbought'
  BY <1>2, <1>4 DEF FlagsStay, OfferedUnbought, Bought
<1>5. ASSUME NEW s \in Subscription, NEW new, NEW more, Bought(s), Emit(s, new, more),
             \A data : data = [new EXCEPT !.asOf = Len(log) + 1] /\ data.status # "canceled" =>
                         stripe[s].status # "canceled" /\ data.cancel = stripe[s].cancel
      PROVE  FlagsStay /\ OfferedUnbought'
  <2> DEFINE data == [new EXCEPT !.asOf = Len(log) + 1]
  <2>1. stripe' = [stripe EXCEPT ![s] = data] /\ UNCHANGED offered
    BY <1>5 DEF Emit, Changes
  <2>2. data.status # "canceled" =>
          stripe[s].status # "canceled" /\ data.cancel = stripe[s].cancel
    BY <1>5
  <2> HIDE DEF data
  <2> QED
    BY <1>3, <1>5, <2>1, <2>2
<1>6. ASSUME NEW s \in Subscription, Renew(s)
      PROVE  FlagsStay /\ OfferedUnbought'
  <2>1. PICK status \in {"active", "past_due"}, paid \in {"paid", "open"} :
          Emit(s, [stripe[s] EXCEPT !.status = status, !.period = stripe[s].period + 1],
               <<InvoiceEvent(s, stripe[s].period + 1, paid)>>)
    BY <1>6 DEF Renew
  <2>2. stripe[s].status \in {"trialing", "active", "past_due"}
    BY <1>6 DEF Renew, Active
  <2> QED
    BY <1>1, <1>5, <2>1, <2>2 DEF Payload, Bought
<1>7. ASSUME NEW s \in Subscription, Reschedule(s)
      PROVE  FlagsStay /\ OfferedUnbought'
  <2>1. Emit(s, [stripe[s] EXCEPT !.period = @ + 1], <<>>) /\ stripe[s].status \in {"trialing", "active"}
    BY <1>7 DEF Reschedule, Active
  <2> QED
    BY <1>1, <1>5, <2>1 DEF Payload, Bought
<1>8. ASSUME NEW s \in Subscription, Pause(s)
      PROVE  FlagsStay /\ OfferedUnbought'
  <2>1. Emit(s, [stripe[s] EXCEPT !.status = "paused"], <<>>) /\ stripe[s].status = "trialing"
    BY <1>8 DEF Pause
  <2> QED
    BY <1>1, <1>5, <2>1 DEF Payload, Bought
<1>9. ASSUME NEW s \in Subscription, Resume(s)
      PROVE  FlagsStay /\ OfferedUnbought'
  <2>1. /\ Emit(s, [stripe[s] EXCEPT !.status = "active", !.period = @ + 1], <<>>)
        /\ stripe[s].status = "paused"
    BY <1>9 DEF Resume
  <2> QED
    BY <1>1, <1>5, <2>1 DEF Payload, Bought
<1>10. ASSUME NEW s \in Subscription, Cancel(s)
       PROVE  FlagsStay /\ OfferedUnbought'
  <2>1. Emit(s, [stripe[s] EXCEPT !.status = "canceled"], <<>>) /\ Bought(s)
    BY <1>10 DEF Cancel, Bought
  <2> QED
    BY <1>1, <1>5, <2>1 DEF Payload
<1>11. ASSUME NEW s \in Subscription, Buy(s)
       PROVE  FlagsStay /\ OfferedUnbought'
  <2> DEFINE data == [[NoPayload EXCEPT !.status = offered[s], !.period = 1]
                        EXCEPT !.asOf = Len(log) + 1]
  <2>1. /\ stripe' = [stripe EXCEPT ![s] = data] /\ offered[s] \in Active
        /\ offered' = [offered EXCEPT ![s] = "completed"]
    BY <1>11 DEF Buy, Changes
  <2>2. data.cancel = FALSE /\ NoPayload.cancel = FALSE /\ NoPayload.status # "canceled"
    BY DEF NoPayload
  <2> HIDE DEF data
  <2>3. stripe[s] = NoPayload
    BY <1>1, <2>1 DEF OfferedUnbought
  <2> QED
    BY <1>3, <2>1, <2>2, <2>3
<1>12. ASSUME NEW s \in Subscription, Refund(s)
       PROVE  FlagsStay /\ OfferedUnbought'
  BY <1>4, <1>12 DEF Refund
<1>13. ASSUME NEW k \in Key, PeriodEnds(k)
       PROVE  FlagsStay /\ OfferedUnbought'
  BY <1>4, <1>13 DEF PeriodEnds
<1> QED
  BY <1>6, <1>7, <1>8, <1>9, <1>10, <1>11, <1>12, <1>13 DEF StripeStep

LEMMA BillingKeepsFlags ==
  ASSUME Shape, OfferedUnbought, Next
  PROVE  FlagsStay /\ OfferedUnbought'
<1>1. CASE UNCHANGED <<stripe, offered>>
  BY <1>1 DEF FlagsStay, OfferedUnbought, Bought
<1>2. ASSUME NEW s \in Subscription, OpenCheckout(s)
      PROVE  FlagsStay /\ OfferedUnbought'
  <2>1. /\ UNCHANGED stripe /\ stripe[s].status = "none"
        /\ \A t \in Subscription \ {s} : offered'[t] = offered[t]
    BY <1>2 DEF OpenCheckout, Shape, TypeOK
  <2> QED
    BY <2>1 DEF FlagsStay, OfferedUnbought, Bought
<1>3. ASSUME NEW h \in Handler,
             \/ \E e \in EventNo : Deliver(h, e)
             \/ HandlerStep(h) \/ FetchFails(h) \/ Abort(h)
      PROVE  UNCHANGED stripeVars
  BY <1>3, ReadFacts DEF HandlerStep, ReadStep, SyncCommit, RefundCommit
<1>4. CASE ReadSummary \/ \E k \in Key : DismissNotice(k)
  BY <1>1, <1>4 DEF ReadSummary, DismissNotice, stripeVars
<1> QED
  BY <1>1, <1>2, <1>3, <1>4, StripeKeepsFlags DEF Next, stripeVars

\* The row written last is written.
LEMMA LatestMoves ==
  ASSUME Shape, Next
  PROVE  UNCHANGED <<row, latest>> \/ Written(latest)'
<1>1. CASE StripeStep
  <2>1. UNCHANGED serverVars
    BY <1>1, StripeStepMove, ShapeFacts
  <2> QED
    BY <2>1 DEF serverVars, rowVars
<1>2. ASSUME NEW h \in Handler, ReadStep(h)
      PROVE  UNCHANGED <<row, latest>>
  BY <1>2, ReadFacts
<1>3. ASSUME NEW h \in Handler, SyncCommit(h)
      PROVE  UNCHANGED <<row, latest>> \/ Written(latest)'
  <2>1. SyncWrites(h) \/ UNCHANGED <<row, latest>>
    BY <1>3, SyncCases DEF rowVars
  <2>2. SyncWrites(h) => Written(latest)'
    BY <1>3, SyncMoves DEF Written
  <2> QED
    BY <2>1, <2>2
<1>4. ASSUME NEW h \in Handler, RefundCommit(h)
      PROVE  Written(latest)'
  <2>1. /\ handler[h].pc = "commit" /\ handler[h].row # NoRow
        /\ \A t \in Subscription : Written(t) => Written(t)'
        /\ latest' = Recorded(h).sub /\ Recorded(h).sub \in Subscription
    BY <1>4, RefundWritten
  <2>2. Written(Recorded(h).sub)
    BY <2>1, CommitFacts
  <2> QED
    BY <2>1, <2>2 DEF Written
<1>5. CASE \/ ReadSummary \/ \E s \in Subscription : OpenCheckout(s)
           \/ \E k \in Key : DismissNotice(k)
  BY <1>5 DEF ReadSummary, OpenCheckout, DismissNotice, serverVars, rowVars
<1> QED
  BY <1>1, <1>2, <1>3, <1>4, <1>5 DEF Next, HandlerStep, ReadStep

LEMMA StartFor ==
  ASSUME Shape, NEW i \in DOMAIN override, override[i].start # Managed
  PROVE  override[i].start[1] \in Subscription
<1>1. override \in Seq(Override) /\ i \in 1 .. Len(override)
  BY ShapeFacts, LenProperties
<1>2. override[i] \in Override
  BY <1>1, ElementOfSeq
<1> QED
  BY <1>2 DEF Override, CycleKey, Key

LEMMA BillingKeepsGrounds ==
  ASSUME HandoverIInv, BillingStep
  PROVE  Grounds' /\ FlagsStay
<1>1. /\ Shape /\ Grounds /\ Next /\ UNCHANGED <<request, promoted>>
  BY DEF HandoverIInv, PendingIInv, AccessIInv, BillingStep
<1>2. FlagsStay /\ OfferedUnbought'
  BY <1>1, BillingKeepsFlags DEF Grounds
<1>3. LatestWrites'
  BY <1>1, LatestMoves DEF Grounds, LatestWrites, Written
<1>4. NotRanked' /\ FlagAsked'
  BY <1>1, BillingKeepsLive DEF Grounds, NotRanked, FlagAsked
<1>5. OverridesBought'
  <2>1. CASE UNCHANGED override
    BY <1>1, <1>2, <2>1, StartFor DEF Grounds, OverridesBought, FlagsStay
  <2>2. ASSUME NEW s \in Subscription, NEW p \in Period, Bought(s), Moved(s, p),
               UNCHANGED stripeVars, NEW i \in DOMAIN override', override'[i].start # Managed
        PROVE  stripe'[override'[i].start[1]].status # "none"
    <3>1. /\ override' \in Seq(Override) /\ Len(override') = Len(override)
          /\ \A j \in 1 .. Len(override) : override'[j].start
               = IF j = PendingOverride THEN <<s, p>> ELSE override[j].start
      BY <2>2 DEF Moved
    <3>2. i \in 1 .. Len(override) /\ DOMAIN override = 1 .. Len(override)
      BY <1>1, <2>2, <3>1, LenProperties, ShapeFacts
    <3>3. Bought(override'[i].start[1])
      BY <1>1, <2>2, <3>1, <3>2 DEF Grounds, OverridesBought
    <3> QED
      BY <2>2, <3>3 DEF Bought, stripeVars
  <2> QED
    BY <1>1, <2>1, <2>2, MovedFor DEF OverridesBought, Bought
<1> QED
  BY <1>2, <1>3, <1>4, <1>5 DEF Grounds

\* Stripe sets the flag of one subscription.
LEMMA SetCancelFlags ==
  ASSUME Shape, NEW s \in Subscription, NEW cancel \in BOOLEAN, SetCancel(s, cancel)
  PROVE  \A t \in Subscription :
           /\ stripe'[t].status = stripe[t].status
           /\ stripe'[t].cancel = IF t = s THEN cancel ELSE stripe[t].cancel
<1>1. stripe \in [Subscription -> Payload]
  BY ShapeFacts DEF StripeInv, StripeType
<1>2. CASE UNCHANGED stripe /\ stripe[s].cancel = cancel
  BY <1>2
<1>3. CASE Changes(s, [stripe[s] EXCEPT !.cancel = cancel], <<>>)
  <2> DEFINE new == [[stripe[s] EXCEPT !.cancel = cancel] EXCEPT !.asOf = Len(log) + 1]
  <2>1. stripe' = [stripe EXCEPT ![s] = new]
    BY <1>3 DEF Changes
  <2>2. new.status = stripe[s].status /\ new.cancel = cancel
    BY <1>1 DEF Payload
  <2> HIDE DEF new
  <2> QED
    BY <1>1, <2>1, <2>2
<1> QED
  BY <1>2, <1>3 DEF SetCancel

\* What a request's step is, by what it has done so far; the histories only grow.
LEMMA AdminHistory ==
  ASSUME Shape, NEW a \in Admin, AdminStep(a)
  PROVE  /\ (promoted => promoted') /\ (crossed => crossed') /\ (misread => misread')
         /\ lost \in Nat /\ lost' \in {lost, lost + 1}
         /\ UNCHANGED <<toggled, offered>>
         /\ UNCHANGED stripe \/ AskStripe(a) \/ StripeFails(a)
         /\ UNCHANGED superuser \/ promoted' = (promoted \/ superuser')
<1>1. lost \in Nat
  BY ManagedAssumption DEF Shape, ManagedTypeOK
<1>2. CASE \E rank \in Rank \cup {"none"}, wanted \in Profile \cup {"none"} :
             Validate(a, rank, wanted)
  BY <1>1, <1>2 DEF Validate, stripeVars, accessVars, requestHistory
<1>3. CASE WriteRank(a)
  BY <1>1, <1>3 DEF WriteRank, stripeVars
<1>4. CASE ReadProfile(a)
  BY <1>1, <1>4 DEF ReadProfile, vars, stripeVars, rowVars, accessVars
<1>5. CASE AskStripe(a)
  BY <1>1, <1>5 DEF AskStripe, serverVars, rowVars, accessVars, requestHistory
<1>6. CASE StripeFails(a)
  BY <1>1, <1>6 DEF StripeFails, serverVars, rowVars, accessVars, requestHistory
<1>7. CASE CommitProfile(a)
  BY <1>1, <1>7 DEF CommitProfile, stripeVars
<1>8. CASE ReadPromoted(a)
  BY <1>1, <1>8 DEF ReadPromoted, vars, stripeVars, rowVars, accessVars, requestHistory
<1>9. CASE CommitPromoted(a)
  BY <1>1, <1>9 DEF CommitPromoted, stripeVars, accessVars
<1>10. CASE Respond(a)
  BY <1>1, <1>10 DEF Respond, stripeVars, accessVars, requestHistory
<1> QED
  BY <1>2, <1>3, <1>4, <1>5, <1>6, <1>7, <1>8, <1>9, <1>10 DEF AdminStep

\* A request tells Stripe about what it has read; what Stripe makes of it.
LEMMA AdminFlags ==
  ASSUME Shape, NEW a \in Admin, AdminStep(a)
  PROVE  \A s \in Subscription : stripe'[s].status = stripe[s].status
<1> DEFINE me == request[a]
<1>1. me.sub \in Subscription /\ me.cancel \in BOOLEAN
  BY ShapeFacts, RequestFields DEF Shape
<1>2. ASSUME SetCancel(me.sub, me.cancel)
      PROVE  \A s \in Subscription : stripe'[s].status = stripe[s].status
  BY <1>1, <1>2, SetCancelFlags
<1> QED
  BY <1>2, AdminHistory DEF AskStripe, StripeFails

LEMMA PromotedAsks ==
  ASSUME Shape, NEW a \in Admin, AdminStep(a), request[a].pc = "promote", ~superuser
  PROVE  request'[a].pc = "respond"
<1>1. ReadPromoted(a)
  BY DEF AdminStep, Validate, Working, WriteRank, ReadProfile, AskStripe, StripeFails,
         CommitProfile, CommitPromoted, Respond
<1>2. request \in [Admin -> RequestState]
  BY DEF Shape, ManagedTypeOK
<1> QED
  BY <1>1, <1>2 DEF ReadPromoted, RequestState

LEMMA AdminWrites ==
  ASSUME Shape, LatestWrites, NEW a \in Admin, AdminStep(a)
  PROVE  LatestWrites'
<1> DEFINE me == request[a]
<1>1. SoundRequest(a) /\ me \in RequestState
  BY ShapeFacts DEF Shape, RequestShape
<1>2. CASE UNCHANGED <<row, latest>>
  BY <1>2 DEF LatestWrites, Written
<1>3. ASSUME WriteCancel(me), me.pc = "commit"
      PROVE  LatestWrites'
  <2>1. /\ \A s \in Subscription : Written(s)' <=> Written(s)
        /\ me.asked => latest' = me.sub /\ Written(me.sub) /\ me.sub \in Subscription
    BY <1>1, <1>3, CancelWritten, RequestFields DEF SoundRequest, RowsAlike, WriteCancel
  <2>2. CASE me.asked
    BY <2>1, <2>2 DEF LatestWrites, Written
  <2>3. CASE ~me.asked
    BY <1>2, <1>3, <2>3 DEF WriteCancel
  <2> QED
    BY <2>2, <2>3
<1>4. CASE CommitProfile(a)
  BY <1>3, <1>4 DEF CommitProfile
<1>5. CASE CommitPromoted(a)
  BY <1>3, <1>5 DEF CommitPromoted
<1>6. CASE \/ \E rank \in Rank \cup {"none"}, wanted \in Profile \cup {"none"} :
                Validate(a, rank, wanted)
           \/ WriteRank(a) \/ ReadProfile(a) \/ AskStripe(a) \/ StripeFails(a)
           \/ ReadPromoted(a) \/ Respond(a)
  BY <1>2, <1>6 DEF Validate, WriteRank, ReadProfile, AskStripe, StripeFails, ReadPromoted,
                    Respond, vars, serverVars, rowVars
<1> QED
  BY <1>4, <1>5, <1>6 DEF AdminStep

\* The overrides a request leaves are for subscriptions that were bought.
LEMMA CommitKeepsBought ==
  ASSUME Shape, OverridesBought, NEW a \in Admin, CommitProfile(a),
         NEW i \in DOMAIN override', override'[i].start # Managed
  PROVE  Bought(override'[i].start[1])
<1> DEFINE me == request[a]
           n == Len(override)
<1>1. /\ me \in RequestState /\ n \in Nat
      /\ me.asked => Bought(me.sub) /\ me.read.period \in Period
      /\ DOMAIN override = 1 .. n /\ DOMAIN override' = 1 .. Len(override')
      /\ override \in Seq(Override)
      /\ me.profile = "ambassador" => override' = Granted(me)
      /\ me.profile # "ambassador" => override' = Withdrawn(me)
  BY CommitOverrides, ShapeFacts
<1>2. ASSUME i \in 1 .. n, override'[i].start = override[i].start
      PROVE  Bought(override'[i].start[1])
  BY <1>1, <1>2 DEF OverridesBought
<1>3. ASSUME me.asked, override'[i].start = <<me.sub, me.read.period>>
      PROVE  Bought(override'[i].start[1])
  BY <1>1, <1>3
<1>4. CASE me.profile # "ambassador"
  <2>1. override' = Withdrawn(me)
    BY <1>1, <1>4
  <2>2. Len(override') = n /\ \A j \in 1 .. n : override'[j].start = override[j].start
    BY <1>1, <2>1, WithdrawnFacts
  <2> QED
    BY <1>1, <1>2, <2>2
<1>5. CASE me.profile = "ambassador"
  <2>1. /\ Len(override') \in {n, n + 1}
        /\ Len(override') # n =>
             /\ me.asked => override'[n + 1].start = <<me.sub, me.read.period>>
             /\ ~me.asked => override'[n + 1].start = Managed
        /\ \A j \in 1 .. n : override'[j].start
             = IF me.asked /\ j = PendingOverride THEN <<me.sub, me.read.period>>
               ELSE override[j].start
    BY <1>1, <1>5, GrantedFacts
  <2>2. CASE i \in 1 .. n
    BY <1>2, <1>3, <2>1, <2>2
  <2>3. CASE i \notin 1 .. n
    <3>1. i = n + 1 /\ Len(override') # n
      <4>1. i \in 1 .. Len(override') /\ n \in Nat /\ Len(override') \in {n, n + 1}
        BY <1>1, <2>1
      <4> HIDE DEF n
      <4> QED
        BY <2>3, <4>1
    <3> QED
      BY <1>3, <2>1, <3>1
  <2> QED
    BY <2>2, <2>3
<1> QED
  BY <1>4, <1>5

LEMMA AdminKeepsGrounds ==
  ASSUME HandoverIInv, NEW a \in Admin, AdminStep(a)
  PROVE  Grounds'
<1> DEFINE me == request[a]
           new == request'[a]
<1>1. Shape /\ Grounds
  BY DEF HandoverIInv, PendingIInv, AccessIInv
<1>2. \A s \in Subscription : stripe'[s].status = stripe[s].status
  BY <1>1, AdminFlags
<1>3. OverridesBought'
  <2>1. CASE UNCHANGED override
    <3>1. \A i \in DOMAIN override : override[i].start # Managed =>
            stripe'[override[i].start[1]].status # "none"
      BY <1>1, <1>2, StartFor DEF Grounds, OverridesBought, Bought
    <3> QED
      BY <2>1, <3>1 DEF OverridesBought, Bought
  <2>2. CASE CommitProfile(a)
    <3>1. UNCHANGED stripe
      BY <1>1, <2>2, CommitOverrides DEF stripeVars
    <3>2. \A i \in DOMAIN override' : override'[i].start # Managed => Bought(override'[i].start[1])
      BY <1>1, <2>2, CommitKeepsBought DEF Grounds
    <3> QED
      BY <3>1, <3>2 DEF OverridesBought, Bought
  <2> QED
    BY <1>1, <2>1, <2>2, AdminQuietly
<1>4. OfferedUnbought'
  BY <1>1, <1>2, AdminUnchanged DEF Grounds, OfferedUnbought, Bought
<1>5. LatestWrites'
  BY <1>1, AdminWrites DEF Grounds
<1>6. /\ RequestStepped(a) /\ me \in RequestState /\ new \in RequestState
      /\ \A b \in Admin \ {a} : request'[b] = request[b]
  BY <1>1, AdminStepped, AdminQuietly, ShapeFacts DEF RequestStepped
<1>7. \* What the request does next.
      ASSUME new.pc \in {"ask", "commit"}
      PROVE  \/ /\ me.pc = "profile" /\ new.after = "profile"
                /\ new.cancel = (new.profile = "ambassador")
             \/ me.pc = "promote" /\ new.after = "rank" /\ new.pc = "ask"
             \/ /\ me.pc = "ask" /\ new.after = me.after /\ new.cancel = me.cancel
                /\ new.profile = me.profile
  <2>1. CASE me.pc = "ask" /\ new = [me EXCEPT !.pc = "commit"]
    BY <1>6, <2>1 DEF RequestState
  <2> QED
    BY <1>6, <1>7, <2>1 DEF RequestStepped
<1>8. NotRanked'
  <2> SUFFICES ASSUME ~promoted'
               PROVE  /\ ~superuser'
                      /\ \A b \in Admin : request'[b].pc \in {"ask", "commit"} =>
                                            request'[b].after = "profile"
    BY DEF NotRanked
  <2>1. ~promoted /\ (UNCHANGED superuser \/ promoted' = (promoted \/ superuser'))
    BY <1>1, AdminHistory
  <2>2. ~superuser /\ \A b \in Admin : request[b].pc \in {"ask", "commit"} =>
                                         request[b].after = "profile"
    BY <1>1, <2>1 DEF Grounds, NotRanked
  <2>3. ~superuser'
    BY <2>1, <2>2
  <2>4. new.pc \in {"ask", "commit"} => new.after = "profile"
    BY <1>1, <1>7, <2>2, PromotedAsks
  <2> QED
    BY <1>6, <2>2, <2>3, <2>4
<1>9. FlagAsked'
  <2>1. new.pc \in {"ask", "commit"} /\ new.after = "profile" =>
          (new.cancel <=> new.profile = "ambassador")
    BY <1>1, <1>7 DEF Grounds, FlagAsked
  <2> QED
    BY <1>1, <1>6, <2>1 DEF Grounds, FlagAsked
<1> QED
  BY <1>3, <1>4, <1>5, <1>8, <1>9 DEF Grounds

\* What has been told and read stays so while Stripe leaves the flags alone and nobody
\* changes the overrides.
LEMMA PartsStay ==
  ASSUME Shape, CancelParts, Undisturbed,
         \A s \in Subscription : stripe'[s].status # "canceled" =>
           stripe[s].status # "canceled" /\ stripe'[s].cancel = stripe[s].cancel,
         \A s \in Subscription : For(s)' = For(s),
         \A b \in Admin : \/ request'[b] = request[b]
                          \/ ~Telling(b) /\ ~Telling(b)'
  PROVE  /\ Accord'
         /\ \A b \in Admin : \/ request'[b] = request[b]
                             \/ request'[b].pc \notin {"ask", "commit"}
              => Told(b)' /\ NothingToAsk(b)' /\ ReadsAll(b)'
<1>1. Accord /\ \A b \in Admin : Told(b) /\ NothingToAsk(b) /\ ReadsAll(b)
  BY DEF CancelParts
<1>2. \A b \in Admin : Telling(b)' <=> Telling(b)
  BY DEF Telling
<1>3. \A b \in Admin : Alone(b)' <=> Alone(b)
  BY <1>2 DEF Alone
<1>4. \A s \in Subscription : For(s)' = For(s)
  OBVIOUS
<1>5. \A s \in Subscription : /\ Ending(s)' => Ending(s)
                              /\ stripe'[s].status # "canceled" => (Ending(s)' <=> Ending(s))
  BY DEF Ending
<1>6. Accord'
  BY <1>1, <1>2, <1>4, <1>5 DEF Accord
<1>7. \A b \in Admin : request[b].sub \in Subscription
  BY ShapeFacts, RequestFields DEF Shape
<1>8. ASSUME NEW b \in Admin, request'[b] = request[b]
      PROVE  Told(b)' /\ NothingToAsk(b)' /\ ReadsAll(b)'
  <2>1. Told(b)'
    BY <1>1, <1>2, <1>3, <1>7, <1>8 DEF Told
  <2>2. NothingToAsk(b)'
    BY <1>1, <1>3, <1>5, <1>8 DEF NothingToAsk
  <2>3. ReadsAll(b)'
    BY <1>1, <1>3, <1>4, <1>7, <1>8 DEF ReadsAll
  <2> QED
    BY <2>1, <2>2, <2>3
<1>9. ASSUME NEW b \in Admin, request'[b].pc \notin {"ask", "commit"}
      PROVE  Told(b)' /\ NothingToAsk(b)' /\ ReadsAll(b)'
  BY <1>9 DEF Told, Telling, NothingToAsk, ReadsAll
<1> QED
  BY <1>6, <1>8, <1>9

LEMMA BillingKeepsParts ==
  ASSUME HandoverIInv, BillingStep
  PROVE  CancelParts'
<1> SUFFICES ASSUME Undisturbed'
             PROVE  /\ Accord'
                    /\ \A a \in Admin : Told(a)' /\ NothingToAsk(a)' /\ ReadsAll(a)'
  BY DEF CancelParts
<1>1. /\ Shape /\ Grounds /\ CancelParts /\ Next
      /\ UNCHANGED <<request, lost, promoted, toggled, misread>>
      /\ crossed => crossed'
  BY DEF HandoverIInv, PendingIInv, AccessIInv, BillingStep
<1>2. FlagsStay
  BY BillingKeepsGrounds
<1>3. Undisturbed
  <2>1. OneBought
    BY <1>2 DEF Undisturbed, OneBought, FlagsStay, Bought
  <2> QED
    BY <1>1, <2>1 DEF Undisturbed
<1>4. ASSUME NEW s \in Subscription
      PROVE  For(s)' = For(s)
  <2>1. CASE UNCHANGED override
    BY <2>1 DEF For, Live
  <2>2. ASSUME NEW t \in Subscription, NEW p \in Period, Bought(t), Moved(t, p)
        PROVE  For(s)' = For(s)
    <3> DEFINE n == Len(override)
               i == PendingOverride
    <3>1. /\ override' \in Seq(Override) /\ Len(override') = n
          /\ \A j \in 1 .. n :
               /\ override'[j].revoked = override[j].revoked
               /\ override'[j].start = IF j = i THEN <<t, p>> ELSE override[j].start
      BY <2>2 DEF Moved
    <3>2. DOMAIN override = 1 .. n /\ DOMAIN override' = 1 .. n
      BY <1>1, <3>1, ShapeFacts, LenProperties
    <3>3. i \in Live => override[i].start[1] = t
      <4>1. ASSUME i \in Live
            PROVE  override[i].start[1] = t
        <5>1. i \in Waiting
          <6>1. /\ IF Waiting = {} THEN i = 0 ELSE i \in Waiting
                /\ 0 \notin 1 .. n /\ Live \subseteq 1 .. n
            BY <1>1, ShapeFacts, OverrideFacts
          <6> QED
            BY <4>1, <6>1
        <5>2. override[i].start # Managed /\ i \in DOMAIN override
          BY <5>1 DEF Waiting, Live, Started
        <5>3. override[i].start[1] \in Subscription /\ Bought(override[i].start[1])
          BY <1>1, <5>2, StartFor DEF Grounds, OverridesBought
        <5> HIDE DEF i
        <5> QED
          BY <1>3, <2>2, <5>3 DEF Undisturbed, OneBought, Bought
      <4> QED
        BY <4>1
    <3>4. Live' = Live
      BY <3>1, <3>2 DEF Live
    <3>5. \A j \in Live : override'[j].start[1] = override[j].start[1]
      <4>1. Live \subseteq 1 .. n
        BY <3>2 DEF Live
      <4> HIDE DEF i, n
      <4> QED
        BY <3>1, <3>3, <4>1
    <3> QED
      BY <3>4, <3>5 DEF For
  <2> QED
    BY <1>1, <2>1, <2>2, MovedFor
<1>5. /\ Accord'
      /\ \A a \in Admin : request'[a] = request[a] =>
           Told(a)' /\ NothingToAsk(a)' /\ ReadsAll(a)'
  BY <1>1, <1>2, <1>3, <1>4, PartsStay DEF FlagsStay
<1> QED
  BY <1>1, <1>5

\* What a request has to hold for the parts to hold on: Stripe was undisturbed before.
LEMMA AdminUndisturbed ==
  ASSUME HandoverIInv, NEW a \in Admin, AdminStep(a), Undisturbed'
  PROVE  /\ Shape /\ Grounds /\ Undisturbed /\ ~crossed' /\ ~misread'
         /\ Accord /\ \A b \in Admin : Told(b) /\ NothingToAsk(b) /\ ReadsAll(b)
         /\ CancelParts /\ lost' = 0 /\ lost = 0
         /\ ~superuser
         /\ request[a].pc \in {"ask", "commit"} => request[a].after = "profile"
<1>1. Shape /\ Grounds /\ CancelParts
  BY DEF HandoverIInv, PendingIInv, AccessIInv
<1>2. /\ (promoted => promoted') /\ (crossed => crossed') /\ (misread => misread')
      /\ lost \in Nat /\ lost' \in {lost, lost + 1}
      /\ UNCHANGED toggled
  BY <1>1, AdminHistory
<1>3. lost' = 0 /\ lost = 0
  BY <1>2 DEF Undisturbed
<1>4. OneBought
  BY <1>1, AdminFlags DEF Undisturbed, OneBought
<1>5. Undisturbed /\ ~crossed' /\ ~misread'
  BY <1>2, <1>3, <1>4 DEF Undisturbed
<1>6. /\ ~superuser
      /\ request[a].pc \in {"ask", "commit"} => request[a].after = "profile"
  BY <1>1, <1>5 DEF Undisturbed, Grounds, NotRanked
<1> QED
  BY <1>1, <1>3, <1>5, <1>6 DEF CancelParts

\* The steps that neither read nor tell nor write.
LEMMA IdlyKeepsParts ==
  ASSUME HandoverIInv, NEW a \in Admin, AdminStep(a), Undisturbed',
         UNCHANGED <<stripe, override>>,
         request[a].pc \in {"idle", "rank", "ask", "promote", "respond"},
         request'[a].pc \notin {"ask", "commit"}
  PROVE  /\ Accord'
         /\ \A b \in Admin : Told(b)' /\ NothingToAsk(b)' /\ ReadsAll(b)'
<1>1. Shape /\ CancelParts /\ Undisturbed
  BY AdminUndisturbed
<1>2. \A b \in Admin \ {a} : request'[b] = request[b]
  BY <1>1, AdminQuietly
<1>3. ~Telling(a) /\ ~Telling(a)'
  BY DEF Telling
<1>4. \A s \in Subscription : For(s)' = For(s)
  BY DEF For, Live
<1>5. \A s \in Subscription : stripe'[s].status # "canceled" =>
        stripe[s].status # "canceled" /\ stripe'[s].cancel = stripe[s].cancel
  OBVIOUS
<1>6. /\ Accord'
      /\ \A b \in Admin : \/ request'[b] = request[b]
                          \/ request'[b].pc \notin {"ask", "commit"}
           => Told(b)' /\ NothingToAsk(b)' /\ ReadsAll(b)'
  BY <1>1, <1>2, <1>3, <1>4, <1>5, PartsStay
<1> QED
  BY <1>2, <1>6

LEMMA ReadKeepsParts ==
  ASSUME HandoverIInv, NEW a \in Admin, AdminStep(a), Undisturbed', ReadProfile(a)
  PROVE  /\ Accord'
         /\ \A b \in Admin : Told(b)' /\ NothingToAsk(b)' /\ ReadsAll(b)'
<1> DEFINE me == request[a]
           new == request'[a]
           cancels == PendingOverride # 0 /\ row[latest].status \in Active /\ row[latest].cancel
<1>1. /\ Shape /\ CancelParts /\ Undisturbed /\ Grounds /\ Accord /\ ~misread'
      /\ OnePending
  BY AdminUndisturbed DEF HandoverIInv, PendingIInv
<1>2. /\ \A b \in Admin \ {a} : request'[b] = request[b]
      /\ RequestStepped(a) /\ request \in [Admin -> RequestState] /\ me.pc = "profile"
      /\ UNCHANGED <<stripe, override, row, ended, latest>>
  BY <1>1, AdminQuietly, AdminStepped DEF ReadProfile, vars, stripeVars, rowVars, accessVars,
     Shape, ManagedTypeOK
<1>3. /\ new.active = ActiveOverride /\ new.pending = PendingOverride /\ new.sub = latest
      /\ new.profile = me.profile /\ new.pc \in {"ask", "commit"}
      /\ new.asked <=> new.pc = "ask"
      /\ me.profile # "ambassador" => new.asked = cancels
  <2> DEFINE asked == IF me.profile = "ambassador" THEN HasAccess(latest) ELSE cancels
             then == [me EXCEPT !.pc = IF asked THEN "ask" ELSE "commit",
                                !.active = ActiveOverride, !.pending = PendingOverride,
                                !.sub = latest, !.read = row[latest], !.asked = asked,
                                !.cancel = (me.profile = "ambassador"), !.after = "profile"]
  <2>1. request' = [request EXCEPT ![a] = then]
    BY DEF ReadProfile
  <2>2. asked \in BOOLEAN
    BY DEF HasAccess
  <2>3. me.profile # "ambassador" => asked = cancels
    OBVIOUS
  <2> HIDE DEF asked
  <2>4. /\ then.pc = IF asked THEN "ask" ELSE "commit"
        /\ then.active = ActiveOverride /\ then.pending = PendingOverride /\ then.sub = latest
        /\ then.profile = me.profile /\ then.asked = asked
    BY <1>2 DEF RequestState
  <2> HIDE DEF then
  <2>5. new = then
    BY <1>2, <2>1
  <2> QED
    BY <2>2, <2>3, <2>4, <2>5
<1>4. ~Telling(a) /\ ~Telling(a)'
  BY <1>2, <1>3 DEF Telling
<1>5. \A s \in Subscription : For(s)' = For(s)
  BY <1>2 DEF For, Live
<1>6. \A s \in Subscription : stripe'[s].status # "canceled" =>
        stripe[s].status # "canceled" /\ stripe'[s].cancel = stripe[s].cancel
  BY <1>2
<1>7. /\ Accord'
      /\ \A b \in Admin : \/ request'[b] = request[b]
                          \/ request'[b].pc \notin {"ask", "commit"}
           => Told(b)' /\ NothingToAsk(b)' /\ ReadsAll(b)'
  BY <1>1, <1>2, <1>4, <1>5, <1>6, PartsStay
<1>8. Told(a)'
  BY <1>4 DEF Told
<1>9. \* For "standard", undisturbed by others that have told Stripe, all is in step.
      ASSUME new.profile = "standard", \A b \in Admin \ {a} : ~Telling(b)
      PROVE  /\ \A s \in Subscription : ~OutOfStep(s)
             /\ \A s \in Subscription : stripe[s].status # "canceled" =>
                                          (Ending(s) <=> For(s) # {})
  <2>1. misread' = (misread \/ (me.profile = "standard"
                                /\ \E s \in Subscription : OutOfStep(s)))
    BY DEF ReadProfile
  <2>2. \A b \in Admin : ~Telling(b)
    BY <1>4, <1>9
  <2> QED
    BY <1>1, <1>3, <1>9, <2>1, <2>2 DEF Accord
<1>10. ASSUME Alone(a)'
       PROVE  \A b \in Admin \ {a} : ~Telling(b)
  BY <1>2, <1>10 DEF Alone, Telling
<1>11. \* What is to end does so for the override that waits.
       ASSUME new.profile = "standard", \A b \in Admin \ {a} : ~Telling(b),
              NEW s \in Subscription, stripe[s].status # "canceled", NEW i \in For(s)
       PROVE  /\ Ending(s) /\ i = PendingOverride /\ PendingOverride # 0
              /\ row[s].status \in Active /\ row[s].cancel
  <2>1. Ending(s) /\ ~OutOfStep(s)
    BY <1>9, <1>11
  <2>2. row[s].status \in Active /\ row[s].cancel /\ ~Started(override[i].start)
    BY <1>11, <2>1 DEF OutOfStep, Ending, For
  <2>3. i \in Waiting
    BY <1>11, <2>2 DEF Waiting, For
  <2>4. PendingOverride \in Waiting /\ 0 \notin Waiting
    BY <1>1, <2>3, ShapeFacts, OverrideFacts DEF Waiting
  <2> QED
    BY <1>1, <2>1, <2>2, <2>3, <2>4 DEF OnePending
<1>12. ReadsAll(a)'
  <2>1. ASSUME new.profile = "standard", Alone(a)', NEW s \in Subscription, s = new.sub,
               stripe'[s].status # "canceled"
        PROVE  For(s)' \subseteq {new.active, new.pending}
    <3>1. For(s) \subseteq {PendingOverride}
      BY <1>2, <1>10, <1>11, <2>1
    <3> QED
      BY <1>3, <1>5, <2>1, <3>1
  <2>2. new.sub \in Subscription
    BY <1>1, <1>3 DEF Shape, TypeOK
  <2> QED
    BY <2>1, <2>2 DEF ReadsAll
<1>13. NothingToAsk(a)'
  <2> SUFFICES ASSUME new.profile = "standard", ~new.asked, Alone(a)',
                      NEW s \in Subscription, Ending(s)
               PROVE  FALSE
    BY <1>2 DEF NothingToAsk, Ending
  <2>1. stripe[s].status # "canceled" /\ For(s) # {}
    BY <1>9, <1>10 DEF Ending
  <2>2. PICK i \in For(s) : TRUE
    BY <2>1
  <2>3. PendingOverride # 0 /\ row[s].status \in Active /\ row[s].cancel
    BY <1>10, <1>11, <2>1, <2>2
  <2>4. Written(s) /\ latest \in Subscription
    BY <1>1, <2>3, ConstantTypes DEF Written, Active, Shape, TypeOK
  <2>5. Written(latest)
    BY <1>1, <2>4 DEF Grounds, LatestWrites
  <2>6. latest = s
    BY <1>1, <2>4, <2>5 DEF Shape, RowShape, Undisturbed, OneBought, Bought
  <2> QED
    BY <1>3, <2>3, <2>6
<1> QED
  BY <1>2, <1>7, <1>8, <1>12, <1>13

LEMMA AskKeepsParts ==
  ASSUME HandoverIInv, NEW a \in Admin, AdminStep(a), Undisturbed', AskStripe(a)
  PROVE  /\ Accord'
         /\ \A b \in Admin : Told(b)' /\ NothingToAsk(b)' /\ ReadsAll(b)'
<1> DEFINE me == request[a]
           new == request'[a]
<1>1. /\ Shape /\ CancelParts /\ ReadsAll(a) /\ me \in RequestState
      /\ request \in [Admin -> RequestState] /\ SoundRequest(a)
  BY AdminUndisturbed, ShapeFacts DEF Shape, ManagedTypeOK, RequestShape
<1>2. /\ request' = [request EXCEPT ![a].pc = "commit"] /\ me.pc = "ask"
      /\ SetCancel(me.sub, me.cancel) /\ UNCHANGED serverVars
  BY DEF AskStripe
<1>3. /\ new.pc = "commit" /\ new.asked = me.asked /\ new.sub = me.sub
      /\ new.cancel = me.cancel /\ new.profile = me.profile
      /\ new.active = me.active /\ new.pending = me.pending
      /\ me.asked
  BY <1>1, <1>2 DEF RequestState, SoundRequest
<1>4. \A b \in Admin \ {a} : request'[b] = request[b]
  BY <1>1, <1>2
<1>5. me.sub \in Subscription /\ me.cancel \in BOOLEAN
  BY <1>1, RequestFields
<1>6. \A t \in Subscription :
        /\ stripe'[t].status = stripe[t].status
        /\ stripe'[t].cancel = IF t = me.sub THEN me.cancel ELSE stripe[t].cancel
  BY <1>1, <1>2, <1>5, SetCancelFlags
<1>7. Telling(a)'
  BY <1>3 DEF Telling
<1>8. \A b \in Admin \ {a} : ~Alone(b)'
  BY <1>7 DEF Alone
<1>9. Accord' /\ \A b \in Admin \ {a} : Told(b)' /\ NothingToAsk(b)' /\ ReadsAll(b)'
  BY <1>7, <1>8 DEF Accord, Told, NothingToAsk, ReadsAll
<1>10. Told(a)'
  BY <1>3, <1>5, <1>6 DEF Told
<1>11. NothingToAsk(a)'
  BY <1>3 DEF NothingToAsk
<1>12. ReadsAll(a)'
  <2>1. Alone(a)' => Alone(a)
    BY <1>2, <1>4 DEF Alone, Telling
  <2>2. \A s \in Subscription : For(s)' = For(s)
    BY <1>2 DEF For, Live, serverVars, rowVars, accessVars
  <2> QED
    BY <1>1, <1>2, <1>3, <1>5, <1>6, <2>1, <2>2 DEF ReadsAll
<1> QED
  BY <1>9, <1>10, <1>11, <1>12

\* What the commit makes of the overrides for a subscription.
LEMMA GrantedFor ==
  ASSUME Shape, NEW a \in Admin, CommitProfile(a), request[a].profile = "ambassador",
         NEW s \in Subscription
  PROVE  /\ request[a].asked /\ request[a].sub = s => For(s)' # {}
         /\ ~request[a].asked => (For(s)' # {} <=> For(s) # {})
<1> DEFINE me == request[a]
           n == Len(override)
           i == PendingOverride
<1>1. /\ me \in RequestState /\ n \in Nat
      /\ me.asked => me.read.period \in Period
      /\ DOMAIN override = 1 .. n /\ DOMAIN override' = 1 .. Len(override')
      /\ override \in Seq(Override) /\ override' = Granted(me)
  BY CommitOverrides, ShapeFacts
<1>2. /\ Len(override') \in {n, n + 1}
      /\ \A j \in 1 .. n : override'[j].revoked = override[j].revoked
      /\ Len(override') # n =>
           /\ ~override'[n + 1].revoked
           /\ me.asked => i = 0 /\ override'[n + 1].start = <<me.sub, me.read.period>>
           /\ ~me.asked => override'[n + 1].start = Managed
      /\ \A j \in 1 .. n : override'[j].start
           = IF me.asked /\ j = i THEN <<me.sub, me.read.period>> ELSE override[j].start
  BY <1>1, GrantedFacts
<1>3. /\ i = 0 => Waiting = {}
      /\ i # 0 => i \in 1 .. n /\ ~override[i].revoked
  <2>1. /\ IF Waiting = {} THEN i = 0 ELSE i \in Waiting
        /\ \A j \in Waiting : j \in 1 .. n /\ ~override[j].revoked
        /\ 0 \notin 1 .. n
    BY <1>1, OverrideFacts DEF Waiting, Live
  <2> HIDE DEF i, n
  <2> QED
    BY <2>1
<1>4. ASSUME me.asked, me.sub = s
      PROVE  For(s)' # {}
  <2>1. CASE i # 0
    <3>1. /\ i \in DOMAIN override' /\ ~override'[i].revoked
          /\ override'[i].start = <<s, me.read.period>>
      <4>1. i \in 1 .. Len(override')
        <5>1. i \in 1 .. n /\ Len(override') \in {n, n + 1} /\ n \in Nat
          BY <1>1, <1>2, <1>3, <2>1
        <5> HIDE DEF i, n
        <5> QED
          BY <5>1
      <4> QED
        BY <1>1, <1>2, <1>3, <1>4, <2>1, <4>1
    <3> QED
      BY <3>1 DEF For, Live
  <2>2. CASE i = 0
    <3>1. Len(override') = n + 1
      <4>1. override' = Created(<<me.sub, me.read.period>>)
        BY <1>1, <1>4, <2>2 DEF Granted, Upserted
      <4>2. <<me.sub, me.read.period>> \in CycleKey
        BY <1>1, <1>4, RequestFields DEF CycleKey, Key
      <4> QED
        BY <1>1, <4>1, <4>2, CreatedFacts
    <3>2. n + 1 \in 1 .. Len(override') /\ Len(override') # n
      <4>1. n \in Nat
        BY <1>1
      <4> HIDE DEF n
      <4> QED
        BY <3>1, <4>1
    <3>3. /\ n + 1 \in DOMAIN override' /\ ~override'[n + 1].revoked
          /\ override'[n + 1].start = <<s, me.read.period>>
      BY <1>1, <1>2, <1>4, <3>2
    <3> QED
      BY <3>3 DEF For, Live
  <2> QED
    BY <2>1, <2>2
<1>5. ASSUME ~me.asked
      PROVE  For(s)' = For(s)
  <2>1. \A j \in 1 .. n : /\ override'[j].start = override[j].start
                          /\ override'[j].revoked = override[j].revoked
    BY <1>2, <1>5
  <2>2. \A j \in 1 .. Len(override') :
          \/ j \in 1 .. n
          \/ override'[j].start = Managed
    <3>1. \A j \in 1 .. Len(override') : j \in 1 .. n \/ (j = n + 1 /\ Len(override') # n)
      <4>1. n \in Nat /\ Len(override') \in {n, n + 1}
        BY <1>1, <1>2
      <4> HIDE DEF n
      <4> QED
        BY <4>1
    <3> QED
      BY <1>2, <1>5, <3>1
  <2>3. \A j \in 1 .. n : j \in 1 .. Len(override')
    <3>1. n \in Nat /\ Len(override') \in {n, n + 1}
      BY <1>1, <1>2
    <3> HIDE DEF n
    <3> QED
      BY <3>1
  <2>4. Managed[1] # s
    BY StripeAssumption DEF Managed
  <2> HIDE DEF n
  <2>5. \A j : j \in For(s)' <=> j \in 1 .. Len(override') /\ ~override'[j].revoked
                                 /\ override'[j].start[1] = s
    BY <1>1 DEF For, Live
  <2>6. \A j : j \in For(s) <=> j \in 1 .. n /\ ~override[j].revoked /\ override[j].start[1] = s
    BY <1>1 DEF For, Live, n
  <2>7. \A j : j \in For(s)' <=> j \in For(s)
    BY <2>1, <2>2, <2>3, <2>4, <2>5, <2>6
  <2> QED
    BY <2>7 DEF For
<1> QED
  BY <1>4, <1>5

LEMMA WithdrawnFor ==
  ASSUME Shape, NEW a \in Admin, CommitProfile(a), request[a].profile # "ambassador",
         NEW s \in Subscription
  PROVE  For(s)' \subseteq For(s) \ {request[a].active, request[a].pending}
<1> DEFINE me == request[a]
           n == Len(override)
<1>1. /\ me \in RequestState /\ n \in Nat
      /\ DOMAIN override = 1 .. n /\ DOMAIN override' = 1 .. Len(override')
      /\ override \in Seq(Override) /\ override' = Withdrawn(me)
  BY CommitOverrides, ShapeFacts
<1>2. /\ Len(override') = n
      /\ \A j \in 1 .. n : /\ override'[j].start = override[j].start
                           /\ override'[j].revoked
                                = (override[j].revoked \/ j \in {me.active, me.pending})
  BY <1>1, WithdrawnFacts
<1>3. ASSUME NEW j \in For(s)'
      PROVE  j \in For(s) \ {me.active, me.pending}
  <2>1. j \in 1 .. n /\ ~override'[j].revoked /\ override'[j].start[1] = s
    BY <1>1, <1>2, <1>3 DEF For, Live
  <2>2. override'[j].revoked <=> (override[j].revoked \/ j \in {me.active, me.pending})
    BY <1>2, <2>1, Zenon
  <2>3. ~override[j].revoked /\ j \notin {me.active, me.pending} /\ override[j].start[1] = s
    BY <1>2, <2>1, <2>2
  <2> QED
    BY <1>1, <2>1, <2>3 DEF For, Live
<1> QED
  BY <1>3

LEMMA CommitKeepsParts ==
  ASSUME HandoverIInv, NEW a \in Admin, AdminStep(a), Undisturbed', CommitProfile(a)
  PROVE  /\ Accord'
         /\ \A b \in Admin : Told(b)' /\ NothingToAsk(b)' /\ ReadsAll(b)'
<1> DEFINE me == request[a]
<1>1. /\ Shape /\ Grounds /\ Undisturbed /\ ~crossed' /\ Accord
      /\ Told(a) /\ NothingToAsk(a) /\ ReadsAll(a)
      /\ me.after = "profile"
  BY AdminUndisturbed DEF CommitProfile
<1>2. /\ me.pc = "commit" /\ request \in [Admin -> RequestState] /\ me \in RequestState
      /\ request' = [request EXCEPT ![a].pc = "promote"] /\ UNCHANGED stripe
      /\ crossed' = (crossed \/ Disturbs(a))
  BY <1>1 DEF CommitProfile, stripeVars, Shape, ManagedTypeOK
<1>3. \A b \in Admin \ {a} : request[b].pc = "idle"
  BY <1>1, <1>2 DEF Disturbs, Working
<1>4. \A b \in Admin : request'[b].pc \in {"idle", "promote"}
  BY <1>2, <1>3
<1>5. \A b \in Admin : Told(b)' /\ NothingToAsk(b)' /\ ReadsAll(b)'
  BY <1>4 DEF Told, Telling, NothingToAsk, ReadsAll
<1>6. Alone(a) /\ (~me.asked => \A b \in Admin : ~Telling(b))
  BY <1>3 DEF Alone, Telling
<1>7. me.asked => /\ me.sub \in Subscription /\ Bought(me.sub)
                  /\ me.cancel <=> me.profile = "ambassador"
  BY <1>1, <1>2, CommitOverrides DEF Grounds, FlagAsked
<1>8. me.profile \in {"ambassador", "standard"}
  <2>1. me.profile # "none" /\ me.profile \in Profile \cup {"none"}
    BY <1>1, <1>2, RequestFields DEF Shape, RequestShape, SoundRequest
  <2> QED
    BY <2>1 DEF Profile
<1>9. \* A subscription that was not bought.
      ASSUME NEW s \in Subscription, ~Bought(s)
      PROVE  ~Ending(s) /\ For(s)' = {}
  <2>1. ~Ending(s)
    <3>1. stripe[s] = NoPayload
      BY <1>1, <1>9 DEF Shape, StripeShape
    <3> QED
      BY <3>1 DEF Ending, NoPayload
  <2>2. ASSUME NEW i \in For(s)'
        PROVE  FALSE
    <3>1. i \in DOMAIN override' /\ override'[i].start[1] = s
      BY <2>2 DEF For, Live
    <3>2. override'[i].start # Managed
      BY <3>1, StripeAssumption DEF Managed
    <3>3. Bought(override'[i].start[1])
      BY <1>1, <3>1, <3>2, CommitKeepsBought DEF Grounds
    <3> QED
      BY <1>9, <3>1, <3>3
  <2> QED
    BY <2>1, <2>2
<1>10. ASSUME NEW s \in Subscription, stripe[s].status # "canceled", Bought(s)
       PROVE  Ending(s) <=> For(s)' # {}
  <2>1. CASE me.asked
    <3>1. me.sub = s
      BY <1>1, <1>7, <1>10, <2>1 DEF Undisturbed, OneBought, Bought
    <3>2. Ending(s) <=> me.profile = "ambassador"
      BY <1>1, <1>2, <1>6, <1>7, <1>10, <2>1, <3>1 DEF Told, Telling, Ending
    <3>3. CASE me.profile = "ambassador"
      BY <1>1, <2>1, <3>1, <3>2, <3>3, GrantedFor
    <3>4. CASE me.profile = "standard"
      <4>1. For(s) \subseteq {me.active, me.pending}
        BY <1>1, <1>2, <1>6, <1>10, <2>1, <3>1, <3>4 DEF ReadsAll
      <4>2. For(s)' = {}
        BY <1>1, <3>4, <4>1, WithdrawnFor
      <4> QED
        BY <3>2, <3>4, <4>2
    <3> QED
      BY <1>8, <3>3, <3>4
  <2>2. CASE ~me.asked
    <3>1. Ending(s) <=> For(s) # {}
      BY <1>1, <1>6, <1>10, <2>2 DEF Accord
    <3>2. CASE me.profile = "ambassador"
      BY <1>1, <2>2, <3>1, <3>2, GrantedFor
    <3>3. CASE me.profile = "standard"
      <4>1. ~Ending(s)
        BY <1>1, <1>2, <1>6, <2>2, <3>3 DEF NothingToAsk
      <4>2. For(s)' = {}
        BY <1>1, <3>1, <3>3, <4>1, WithdrawnFor
      <4> QED
        BY <4>1, <4>2
    <3> QED
      BY <1>8, <3>2, <3>3
  <2> QED
    BY <2>1, <2>2
<1>11. \A s \in Subscription : Ending(s)' <=> Ending(s)
  BY <1>2 DEF Ending
<1>12. Accord'
  BY <1>2, <1>9, <1>10, <1>11 DEF Accord
<1> QED
  BY <1>5, <1>12

LEMMA AdminKeepsParts ==
  ASSUME HandoverIInv, NEW a \in Admin, AdminStep(a)
  PROVE  CancelParts'
<1> SUFFICES ASSUME Undisturbed'
             PROVE  /\ Accord'
                    /\ \A b \in Admin : Told(b)' /\ NothingToAsk(b)' /\ ReadsAll(b)'
  BY DEF CancelParts
<1>1. /\ Shape /\ lost' = 0 /\ lost = 0 /\ ~superuser
      /\ request[a].pc \in {"ask", "commit"} => request[a].after = "profile"
      /\ request \in [Admin -> RequestState]
  BY AdminUndisturbed DEF Shape, ManagedTypeOK
<1>2. ASSUME UNCHANGED <<stripe, override>>,
             request[a].pc \in {"idle", "rank", "ask", "promote", "respond"},
             request'[a].pc \notin {"ask", "commit"}
      PROVE  /\ Accord'
             /\ \A b \in Admin : Told(b)' /\ NothingToAsk(b)' /\ ReadsAll(b)'
  BY <1>2, IdlyKeepsParts
<1>3. CASE \E rank \in Rank \cup {"none"}, wanted \in Profile \cup {"none"} :
             Validate(a, rank, wanted)
  <2>1. PICK rank \in Rank \cup {"none"}, wanted \in Profile \cup {"none"} :
          Validate(a, rank, wanted)
    BY <1>3
  <2>2. /\ request[a].pc = "idle" /\ UNCHANGED <<stripe, override>>
        /\ request' = [request EXCEPT ![a] = [NoRequest EXCEPT
             !.pc = IF rank = "none" THEN "profile" ELSE "rank",
             !.rank = rank, !.profile = wanted]]
    BY <2>1 DEF Validate, Working, stripeVars, accessVars
  <2>3. request'[a].pc \in {"profile", "rank"}
    BY <1>1, <2>2 DEF NoRequest
  <2> QED
    BY <1>2, <2>2, <2>3
<1>4. CASE WriteRank(a)
  <2>1. /\ request[a].pc = "rank" /\ UNCHANGED <<stripe, override>>
        /\ request' = [request EXCEPT
             ![a].pc = IF request[a].profile = "none" THEN "promote" ELSE "profile"]
    BY <1>4 DEF WriteRank, stripeVars
  <2>2. request'[a].pc \in {"promote", "profile"}
    BY <1>1, <2>1 DEF RequestState
  <2> QED
    BY <1>2, <2>1, <2>2
<1>5. CASE StripeFails(a)
  <2>1. /\ request[a].pc = "ask" /\ UNCHANGED <<stripe, override>>
        /\ request' = [request EXCEPT ![a] = NoRequest]
    BY <1>1, <1>5 DEF StripeFails, serverVars, rowVars, accessVars
  <2>2. request'[a].pc = "idle"
    BY <1>1, <2>1, NoRequestType
  <2> QED
    BY <1>2, <2>1, <2>2
<1>6. CASE ReadPromoted(a)
  <2>1. request[a].pc = "promote" /\ UNCHANGED <<stripe, override>>
    BY <1>6 DEF ReadPromoted, vars, stripeVars, rowVars, accessVars
  <2>2. request'[a].pc = "respond"
    BY <1>1, <2>1, PromotedAsks
  <2> QED
    BY <1>2, <2>1, <2>2
<1>7. ~CommitPromoted(a)
  BY <1>1 DEF CommitPromoted
<1>8. CASE Respond(a)
  <2>1. /\ request[a].pc = "respond" /\ UNCHANGED <<stripe, override>>
        /\ request' = [request EXCEPT ![a] = NoRequest]
    BY <1>8 DEF Respond, stripeVars, accessVars
  <2>2. request'[a].pc = "idle"
    BY <1>1, <2>1, NoRequestType
  <2> QED
    BY <1>2, <2>1, <2>2
<1> QED
  BY <1>3, <1>4, <1>5, <1>6, <1>7, <1>8, ReadKeepsParts, AskKeepsParts, CommitKeepsParts
     DEF AdminStep

\* The user's choice in the portal, which the agreement excepts.
LEMMA ToggleKeepsHandover ==
  ASSUME HandoverIInv, NEW s \in Subscription, PortalToggle(s)
  PROVE  Grounds' /\ CancelParts'
<1>1. Shape /\ Grounds /\ toggled'
  BY DEF HandoverIInv, PendingIInv, AccessIInv, PortalToggle
<1>2. UNCHANGED <<override, row, latest, superuser, promoted, request, offered>>
  BY DEF PortalToggle, Emit, serverVars, rowVars, accessVars
<1>3. \A t \in Subscription : stripe'[t].status = stripe[t].status
  <2> DEFINE new == [[stripe[s] EXCEPT !.cancel = ~@] EXCEPT !.asOf = Len(log) + 1]
  <2>1. stripe \in [Subscription -> Payload] /\ stripe' = [stripe EXCEPT ![s] = new]
    BY <1>1, ShapeFacts DEF StripeInv, StripeType, PortalToggle, Emit, Changes
  <2>2. new.status = stripe[s].status
    BY <2>1 DEF Payload
  <2> HIDE DEF new
  <2> QED
    BY <2>1, <2>2
<1>4. OverridesBought'
  <2>1. \A i \in DOMAIN override : override[i].start # Managed =>
          stripe'[override[i].start[1]].status # "none"
    BY <1>1, <1>3, StartFor DEF Grounds, OverridesBought, Bought
  <2> QED
    BY <1>2, <2>1 DEF OverridesBought, Bought
<1>5. OfferedUnbought' /\ LatestWrites' /\ NotRanked' /\ FlagAsked'
  BY <1>1, <1>2, <1>3 DEF Grounds, OfferedUnbought, LatestWrites, NotRanked, FlagAsked,
                          Bought, Written
<1>6. CancelParts'
  BY <1>1 DEF CancelParts, Undisturbed
<1> QED
  BY <1>4, <1>5, <1>6 DEF Grounds

LEMMA HandoverStep ==
  ASSUME HandoverIInv, [ManagedNext]_managedVars
  PROVE  HandoverIInv'
<1>1. PendingIInv'
  BY PendingStep DEF HandoverIInv
<1>2. ASSUME BillingStep
      PROVE  Grounds' /\ CancelParts'
  BY <1>2, BillingKeepsGrounds, BillingKeepsParts
<1>3. ASSUME NEW a \in Admin, AdminStep(a)
      PROVE  Grounds' /\ CancelParts'
  BY <1>3, AdminKeepsGrounds, AdminKeepsParts
<1>4. ASSUME NEW s \in Subscription, PortalToggle(s)
      PROVE  Grounds' /\ CancelParts'
  BY <1>4, ToggleKeepsHandover
<1>5. ASSUME UNCHANGED managedVars
      PROVE  Grounds' /\ CancelParts'
  <2>1. UNCHANGED <<stripe, override, row, latest, superuser, promoted, request, offered,
                    lost, crossed, toggled, misread>>
    BY <1>5 DEF managedVars, vars, stripeVars, rowVars, accessVars, requestVars, requestHistory
  <2>2. Grounds'
    BY <2>1 DEF HandoverIInv, Grounds, OverridesBought, OfferedUnbought, LatestWrites,
                NotRanked, FlagAsked, Bought, Written
  <2>3. (Undisturbed' <=> Undisturbed) /\ (Accord' <=> Accord)
    BY <2>1 DEF Undisturbed, OneBought, Accord, Telling, Ending, For, Live
  <2>4. \A a \in Admin : (Told(a)' <=> Told(a)) /\ (NothingToAsk(a)' <=> NothingToAsk(a))
                         /\ (ReadsAll(a)' <=> ReadsAll(a))
    BY <2>1 DEF Told, NothingToAsk, ReadsAll, Alone, Telling, Ending, For, Live
  <2> QED
    BY <2>2, <2>3, <2>4 DEF HandoverIInv, CancelParts
<1> QED
  BY <1>1, <1>2, <1>3, <1>4, <1>5 DEF HandoverIInv, ManagedNext

\* An override that waits starts at the end of the period its subscription is in, unless
\* a webhook is, or has ended, between the commit of the row and that of the override; and
\* between requests Stripe is to end the subscriptions that overrides replace and no
\* others, however webhooks interleave with the requests (set_access_profile_async,
\* sync_subscription_from_stripe_data).  It excepts rows written under a request's hands,
\* a second subscription, the user's choice in the portal, superusers, a request to
\* Stripe that failed, and a request for "standard" that read rows behind Stripe.
THEOREM HandoversAgree == ManagedSpec => []HandoverAgrees
<1>1. ManagedInit => HandoverIInv
  BY HandoverInit
<1>2. HandoverIInv /\ [ManagedNext]_managedVars => HandoverIInv'
  BY HandoverStep
<1>3. HandoverIInv => HandoverAgrees
  <2> SUFFICES ASSUME HandoverIInv
               PROVE  CancelAgrees
    BY DEF HandoverAgrees, HandoverIInv, PendingIInv
  <2> SUFFICES ASSUME \A a \in Admin : ~Working(a),
                      lost = 0, OneBought, ~(crossed \/ promoted \/ toggled \/ misread),
                      NEW s \in Subscription, stripe[s].status # "canceled"
               PROVE  stripe[s].cancel <=> \E i \in Live : override[i].start[1] = s
    BY DEF CancelAgrees
  <2>1. Accord /\ \A a \in Admin : ~Telling(a)
    BY DEF HandoverIInv, CancelParts, Undisturbed, Telling, Working
  <2>2. Ending(s) <=> For(s) # {}
    BY <2>1 DEF Accord
  <2> QED
    BY <2>2 DEF Ending, For
<1> QED
  BY <1>1, <1>2, <1>3, PTL DEF ManagedSpec
=============================================================================
