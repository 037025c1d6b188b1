----------------------------- MODULE JobOutcome -----------------------------
(***************************************************************************)
(* What a scrape job promises to its owner, without queue, leases or       *)
(* requests: its row, the reservation of the owner's quota and the         *)
(* terminal notification.  ScrapeWorker implements this specification.     *)
(*                                                                         *)
(* The promises are in the guards: a row is removed only while its         *)
(* reservation has not been bound to it, a reservation is settled once and *)
(* only for a decided job, and the notification is given once and never    *)
(* about a job whose row still says queued.  What is NOT promised is in    *)
(* the guards as well: Decide may overwrite an earlier decision.           *)
(***************************************************************************)
EXTENDS Sequences

CONSTANTS Job, InternalJob

VARIABLES projection, reservation, events
outcomeVars == <<projection, reservation, events>>

Decision == {"done", "failed"}

Init ==
  /\ projection = [j \in Job |-> "absent"]
  /\ reservation = [j \in Job |-> "none"]
  /\ events = [j \in Job |-> <<>>]

\* Quota is set aside before the job exists.
Reserve(j) ==
  /\ j \notin InternalJob /\ reservation[j] = "none"
  /\ reservation' = [reservation EXCEPT ![j] = "reserved"]
  /\ UNCHANGED <<projection, events>>

Submit(j) ==
  /\ reservation[j] = "reserved" /\ projection[j] = "absent"
  /\ projection' = [projection EXCEPT ![j] = "queued"]
  /\ UNCHANGED <<reservation, events>>

\* The job is taken back, whatever it says by now.
Withdraw(j) ==
  /\ reservation[j] = "reserved"
  /\ projection' = [projection EXCEPT ![j] = "absent"]
  /\ UNCHANGED <<reservation, events>>

Bind(j) ==
  /\ reservation[j] = "reserved" /\ projection[j] # "absent"
  /\ reservation' = [reservation EXCEPT ![j] = "attached"]
  /\ UNCHANGED <<projection, events>>

Decide(j) ==
  /\ projection[j] # "absent"
  /\ \E d \in Decision : projection' = [projection EXCEPT ![j] = d]
  /\ UNCHANGED <<reservation, events>>

\* Charged or given back: after the decision for a bound reservation, given
\* back for a job that was taken back.
Settle(j) ==
  /\ \/ /\ reservation[j] = "attached" /\ projection[j] \in Decision
        /\ \E r \in {"finalized", "released"} :
             reservation' = [reservation EXCEPT ![j] = r]
     \/ /\ reservation[j] = "reserved" /\ projection[j] = "absent"
        /\ reservation' = [reservation EXCEPT ![j] = "released"]
  /\ UNCHANGED <<projection, events>>

Notify(j) ==
  /\ j \notin InternalJob
  /\ events[j] = <<>> /\ projection[j] # "queued"
  /\ \E d \in Decision : events' = [events EXCEPT ![j] = <<d>>]
  /\ UNCHANGED <<projection, reservation>>

Next == \E j \in Job : Reserve(j) \/ Submit(j) \/ Withdraw(j) \/ Bind(j)
                       \/ Decide(j) \/ Settle(j) \/ Notify(j)

Spec == Init /\ [][Next]_outcomeVars
=============================================================================
