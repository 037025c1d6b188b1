---------------------------- MODULE CustomerSync ----------------------------
(***************************************************************************)
(* The address Stripe holds of one user: the customer made at the first    *)
(* checkout (billing/services/checkout.py), the tasks that carry later     *)
(* changes of the address to it (billing/services/customer_sync.py, run by *)
(* a supervisor in every process, main.py), and the removal of the account *)
(* (users.py, billing/services/cleanup.py).                                *)
(*                                                                         *)
(* A process has one event loop.  Database calls block it, calls to Stripe *)
(* do not: between a Start and the first call to Stripe the loop of a      *)
(* request does nothing else.                                              *)
(***************************************************************************)
EXTENDS Naturals, FiniteSets, Sequences

CONSTANTS
  Process,
  Email,
  Normalized,   \* normalize_email
  NoEmail,      \* there is no customer at Stripe
  MaxChanges,   \* bound of changes of the address
  MaxFaults     \* bound of crashes and failing calls

ASSUME CustomerSyncAssumption ==
  /\ IsFiniteSet(Process)
  /\ DOMAIN Normalized = Email /\ NoEmail \notin Email
  /\ {MaxChanges, MaxFaults} \subseteq Nat

VARIABLES
  user_email,  \* the address of the user row, NoEmail once it is deleted
  account,     \* there is a billing account, with its stripe_customer_id
  tasks,       \* billing_customer_sync_task, in the order of created_at
  request,     \* the request a process is serving
  attempt,     \* the task the supervisor of a process is attempting
  customer,    \* the customer's address at Stripe, and the idempotency keys it has seen
  late,        \* requests whose sender stopped waiting, still on their way to Stripe
  missed,      \* which of the known windows a change of the address fell into (history)
  changes, faults

vars == <<user_email, account, tasks, request, attempt, customer, late, missed, changes, faults>>

Task == [email  : Email,      \* desired_email
         status : {"pending", "processing", "succeeded", "failed"},
         due    : BOOLEAN,    \* next_attempt_at has come
         stale  : BOOLEAN]    \* updated_at is older than STALE_PROCESSING_SECONDS

Request ==
  [pc     : {"idle", "changing", "changed", "found",      \* PATCH /users/me, /users/{id}
             "loaded", "inserting", "creating",           \* POST /billing/checkout-session
             "cleaning", "committing"},                   \* DELETE /users/me, /users/{id}
   email  : Email \cup {NoEmail},                         \* the new address, or the one read
   differs : BOOLEAN,                                     \* from previous_email, normalized
   task   : Nat,                                          \* the open task it found, 0 if none
   status : {"none", "pending", "processing"},            \* the status it read in it
   count  : Nat,                                          \* the tasks the cleanup read
   had    : BOOLEAN]                                      \* it read a billing account
Idle == [pc |-> "idle", email |-> NoEmail, differs |-> FALSE,
         task |-> 0, status |-> "none", count |-> 0, had |-> FALSE]

Attempt == [pc : {"idle", "sending", "ok", "retry", "failed"}, task : Nat, email : Email \cup {NoEmail}]
NoAttempt == [pc |-> "idle", task |-> 0, email |-> NoEmail]

Key == (1 .. MaxChanges) \X Email     \* customer_sync_idempotency_key
Window == {"unqueued", "crossed", "overwritten", "overtaken", "replayed", "created", "reopened",
           "coalesced"}

TypeOK ==
  /\ user_email \in Email \cup {NoEmail}
  /\ account \in BOOLEAN
  /\ tasks \in Seq(Task) /\ Len(tasks) <= MaxChanges
  /\ request \in [Process -> Request]
  /\ attempt \in [Process -> Attempt]
  /\ customer \in [email : Email \cup {NoEmail}, keys : SUBSET Key]
  /\ late \subseteq Key
  /\ missed \subseteq Window
  /\ changes \in 0 .. MaxChanges /\ faults \in 0 .. MaxFaults
  /\ account => user_email # NoEmail
  /\ \A p, q \in Process : {request[p].pc, request[q].pc} = {"creating"} => p = q

Init ==
  /\ user_email \in Email /\ account = FALSE /\ tasks = <<>>
  /\ request = [p \in Process |-> Idle]
  /\ attempt = [p \in Process |-> NoAttempt]
  /\ customer = [email |-> NoEmail, keys |-> {}]
  /\ late = {} /\ missed = {} /\ changes = MaxChanges /\ faults = MaxFaults

Fault == faults > 0 /\ faults' = faults - 1
Open(t) == tasks[t].status \in {"pending", "processing"}
Respond(p) == request' = [request EXCEPT ![p] = Idle]

\* The event loop of p is not inside a database call or between two of them.
LoopRuns(p) == request[p].pc \in {"idle", "loaded", "creating", "cleaning"}
\* An uncommitted billing account locks the row of its user.
Locked(p) == \E q \in Process \ {p} : request[q].pc = "creating"

-----------------------------------------------------------------------------
\* update_user_me and update_user.

StartChange(p, e) ==
  /\ request[p].pc = "idle" /\ changes > 0
  /\ user_email # NoEmail /\ e # user_email
  /\ request' = [request EXCEPT ![p].pc = "changing", ![p].email = e, 
                                  ![p].differs = Normalized[user_email] # Normalized[e]]
  /\ changes' = changes - 1
  /\ UNCHANGED <<user_email, account, tasks, attempt, customer, late, missed, faults>>

\* The commit of the new address.  Nothing is queued when the address is the same
\* after normalize_email, or there is no customer yet.
CommitChange(p) ==
  LET r == request[p] IN
  /\ r.pc = "changing" /\ ~Locked(p)
  /\ IF user_email = NoEmail
       THEN Respond(p) /\ UNCHANGED <<user_email, missed>>
       ELSE /\ user_email' = r.email
            /\ IF ~r.differs \/ ~account
                 THEN Respond(p)
                 ELSE request' = [request EXCEPT ![p].pc = "changed"]
            /\ missed' = missed \cup (IF ~r.differs /\ Normalized[user_email] # Normalized[r.email]
                                      THEN {"crossed"} ELSE {})
  /\ UNCHANGED <<account, tasks, attempt, customer, late, changes, faults>>

\* upsert_customer_email_sync_task: the newest open task.
FindTask(p) ==
  /\ request[p].pc = "changed"
  /\ LET open == {t \in DOMAIN tasks : Open(t)} IN
     request' = [request EXCEPT
       ![p].pc = "found",
       ![p].task = IF open = {} THEN 0 ELSE CHOOSE t \in open : \A u \in open : u <= t,
       ![p].status = IF open = {} THEN "none"
                     ELSE tasks[CHOOSE t \in open : \A u \in open : u <= t].status]
  /\ UNCHANGED <<user_email, account, tasks, attempt, customer, late, missed, changes, faults>>

\* Mutant of Coalesced: an open task keeps its address.
CoalescedKept(task, e, read) ==
  [email |-> task.email, due |-> TRUE, stale |-> FALSE,
   status |-> IF read = "pending" THEN task.status ELSE "pending"]

\* The columns of an open task that a new address changes: only what differs from
\* what was read is written.
Coalesced(task, e, read) ==
  [email |-> e, due |-> TRUE, stale |-> FALSE,
   status |-> IF read = "pending" THEN task.status ELSE "pending"]

NewTask(e) == [email |-> e, status |-> "pending", due |-> TRUE, stale |-> FALSE]

\* Another request or an attempt has changed the tasks since FindTask, or this is not
\* the last address.
Crossed(p) ==
  LET r == request[p] IN
  \/ r.email # user_email
  \/ IF r.task = 0 THEN \E t \in DOMAIN tasks : Open(t) ELSE tasks[r.task].status # r.status

WriteTask(p) ==
  LET r == request[p] IN
  /\ r.pc = "found"
  /\ IF user_email = NoEmail
       THEN UNCHANGED <<tasks, missed>>
       ELSE /\ tasks' = IF r.task = 0 THEN Append(tasks, NewTask(r.email))
                        ELSE [tasks EXCEPT ![r.task] = Coalesced(@, r.email, r.status)]
            /\ missed' = missed \cup (IF Crossed(p) THEN {"crossed"} ELSE {})
                              \cup (IF \E q \in Process : attempt[q].pc # "idle" /\ attempt[q].task = r.task
                                    THEN {"coalesced"} ELSE {})
  /\ Respond(p)
  /\ UNCHANGED <<user_email, account, attempt, customer, late, changes, faults>>

-----------------------------------------------------------------------------
\* ensure_stripe_customer, for a user without a billing account.

StartCheckout(p) ==
  /\ request[p].pc = "idle" /\ user_email # NoEmail /\ ~account
  /\ request' = [request EXCEPT ![p].pc = "loaded", ![p].email = user_email]
  /\ UNCHANGED <<user_email, account, tasks, attempt, customer, late, missed, changes, faults>>

\* _get_or_create_billing_account: the insert waits for that of another process.
InsertAccount(p) ==
  /\ request[p].pc \in {"loaded", "inserting"}
  /\ \/ /\ ~Locked(p) /\ (account \/ user_email = NoEmail)   \* found, or the insert is refused
        /\ Respond(p)
     \/ /\ ~Locked(p) /\ ~account /\ user_email # NoEmail
        /\ request' = [request EXCEPT ![p].pc = "creating"]
     \/ /\ Locked(p) /\ request[p].pc = "loaded"
        /\ request' = [request EXCEPT ![p].pc = "inserting"]
  /\ UNCHANGED <<user_email, account, tasks, attempt, customer, late, missed, changes, faults>>

\* Stripe has made the customer, with the address read when the request began.
CustomerCreated(p) ==
  /\ request[p].pc = "creating"
  /\ account' = TRUE
  /\ customer' = [email |-> request[p].email, keys |-> {}]
  /\ missed' = missed \cup (IF Normalized[request[p].email] # Normalized[user_email]
                            THEN {"created"} ELSE {})
  /\ Respond(p)
  /\ UNCHANGED <<user_email, tasks, attempt, late, changes, faults>>

\* The call fails: the transaction with the account is rolled back.
CustomerFails(p) ==
  /\ request[p].pc = "creating"
  /\ Fault /\ Respond(p)
  /\ UNCHANGED <<user_email, account, tasks, attempt, customer, late, missed, changes>>

-----------------------------------------------------------------------------
\* cleanup_user_related_data_before_delete, and the delete of the user row.

StartDelete(p) ==
  /\ request[p].pc = "idle" /\ user_email # NoEmail
  /\ request' = [request EXCEPT ![p].pc = "cleaning", ![p].count = Len(tasks), ![p].had = account]
  /\ UNCHANGED <<user_email, account, tasks, attempt, customer, late, missed, changes, faults>>

\* delete_stripe_customer, best effort.
CleanUpRemote(p) ==
  /\ request[p].pc = "cleaning"
  /\ \/ request[p].had /\ customer' = [email |-> NoEmail, keys |-> {}] /\ UNCHANGED faults
     \/ ~request[p].had /\ UNCHANGED <<customer, faults>>
     \/ request[p].had /\ Fault /\ UNCHANGED customer
  /\ request' = [request EXCEPT ![p].pc = "committing"]
  /\ UNCHANGED <<user_email, account, tasks, attempt, late, missed, changes>>

\* One transaction deletes what was read and the user; a foreign key refuses it
\* when there is more by now.
CommitDelete(p) ==
  /\ request[p].pc = "committing" /\ ~Locked(p)
  /\ IF Len(tasks) = request[p].count /\ account = request[p].had
       THEN user_email' = NoEmail /\ account' = FALSE /\ tasks' = <<>>
       ELSE UNCHANGED <<user_email, account, tasks>>
  /\ Respond(p)
  /\ UNCHANGED <<attempt, customer, late, missed, changes, faults>>

-----------------------------------------------------------------------------
\* StripeCustomerSyncSupervisor._run, process_pending_customer_sync_tasks_async.

\* Mutant of Claimable: how long a task has been in processing is not asked.
ClaimableAnyway(t) ==
  \/ tasks[t].status = "pending" /\ tasks[t].due
  \/ tasks[t].status = "processing"

\* Mutant of Claimable: a task left in processing is not taken over.
ClaimablePending(t) == tasks[t].status = "pending" /\ tasks[t].due

\* claim_next_customer_sync_task
Claimable(t) ==
  \/ tasks[t].status = "pending" /\ tasks[t].due
  \/ tasks[t].status = "processing" /\ tasks[t].stale

Claim(p) ==
  /\ LoopRuns(p) /\ attempt[p].pc = "idle"
  /\ \E t \in DOMAIN tasks :
       /\ Claimable(t)
       /\ tasks' = [tasks EXCEPT ![t].status = "processing", ![t].stale = FALSE]
       /\ attempt' = [attempt EXCEPT ![p] = [pc |-> "sending", task |-> t, email |-> tasks[t].email]]
  /\ UNCHANGED <<user_email, account, request, customer, late, missed, changes, faults>>

\* Stripe has handled a later task, or the later address of this one.
Newer(k, t, e) ==
  \/ k[1] > t
  \/ k[1] = t /\ t \in DOMAIN tasks /\ k[2] = tasks[t].email /\ k[2] # e

\* Stripe answers a key it has seen with what it answered before.
Handle(t, e) ==
  IF customer.email = NoEmail THEN UNCHANGED <<customer, missed>>
  ELSE IF <<t, e>> \in customer.keys
    THEN /\ missed' = missed \cup (IF customer.email # e THEN {"replayed"} ELSE {})
         /\ UNCHANGED customer
    ELSE /\ customer' = [email |-> e, keys |-> customer.keys \cup {<<t, e>>}]
         /\ missed' = missed \cup
              (IF \E k \in customer.keys : Newer(k, t, e) THEN {"overtaken"} ELSE {})

\* update_stripe_customer_email: Stripe's answer arrives.
Answer(p) ==
  LET a == attempt[p] IN
  /\ a.pc = "sending"
  /\ Handle(a.task, a.email)
  /\ attempt' = [attempt EXCEPT ![p].pc = IF customer.email = NoEmail THEN "failed" ELSE "ok"]
  /\ UNCHANGED <<user_email, account, tasks, request, late, changes, faults>>

\* No use of the answer: refused (4xx); not handled (429, 5xx, no connection);
\* handled, and the answer is lost; or given up while it is still on its way.
AnswerFails(p) ==
  LET a == attempt[p]
      Becomes(answer) == attempt' = [attempt EXCEPT ![p].pc = answer] IN
  /\ a.pc = "sending"
  /\ Fault
  /\ \/ Becomes("failed") /\ UNCHANGED <<customer, missed, late>>
     \/ Becomes("retry") /\ UNCHANGED <<customer, missed, late>>
     \/ Becomes("retry") /\ Handle(a.task, a.email) /\ UNCHANGED late
     \/ Becomes("retry") /\ late' = late \cup {<<a.task, a.email>>} /\ UNCHANGED <<customer, missed>>
  /\ UNCHANGED <<user_email, account, tasks, request, changes>>

HandleLate ==
  \E r \in late :
    /\ Handle(r[1], r[2]) /\ late' = late \ {r}
    /\ UNCHANGED <<user_email, account, tasks, request, attempt, changes, faults>>

\* mark_customer_sync_task_succeeded, _pending_retry and _failed: the status alone
\* is looked at, not the address that was sent.
Marked(task, answer) ==
  CASE answer = "ok"     -> [task EXCEPT !.status = "succeeded", !.due = TRUE, !.stale = FALSE]
    [] answer = "failed" -> [task EXCEPT !.status = "failed", !.due = TRUE, !.stale = FALSE]
    [] answer = "retry"  -> [task EXCEPT !.status = "pending", !.due = FALSE, !.stale = FALSE]

\* Once the account is deleted the update finds no row, and the loop goes on.
Mark(p) ==
  LET a == attempt[p] IN
  /\ LoopRuns(p) /\ a.pc \in {"ok", "retry", "failed"}
  /\ IF a.task \in DOMAIN tasks
       THEN /\ tasks' = [tasks EXCEPT ![a.task] = Marked(@, a.pc)]
            /\ missed' = missed \cup (IF tasks[a.task].email # a.email /\ a.pc # "retry"
                                      THEN {"overwritten"} ELSE {})
                              \cup (IF a.pc = "ok" /\ customer.email # a.email
                                    THEN {"overtaken"} ELSE {})
                              \cup (IF a.pc = "retry" /\ ~Open(a.task)
                                    THEN {"reopened"} ELSE {})
       ELSE UNCHANGED <<tasks, missed>>
  /\ attempt' = [attempt EXCEPT ![p] = NoAttempt]
  /\ UNCHANGED <<user_email, account, request, customer, late, changes, faults>>

\* Time passes: a retry becomes due; a task whose process is gone becomes stale.  A
\* request to Stripe times out long before (20 s to 300 s).
BecomesDue(t) ==
  /\ t \in DOMAIN tasks /\ ~tasks[t].due
  /\ tasks' = [tasks EXCEPT ![t].due = TRUE]
  /\ UNCHANGED <<user_email, account, request, attempt, customer, late, missed, changes, faults>>

BecomesStale(t) ==
  /\ t \in DOMAIN tasks /\ tasks[t].status = "processing" /\ ~tasks[t].stale
  /\ \A p \in Process : attempt[p].task # t
  /\ tasks' = [tasks EXCEPT ![t].stale = TRUE]
  /\ UNCHANGED <<user_email, account, request, attempt, customer, late, missed, changes, faults>>

\* A process dies and starts again: its transactions are rolled back, and what it
\* sent may still arrive.
Crash(p) ==
  /\ Fault
  /\ Respond(p)
  /\ attempt' = [attempt EXCEPT ![p] = NoAttempt]
  /\ missed' = missed \cup (IF request[p].pc \in {"changed", "found"} THEN {"unqueued"} ELSE {})
  /\ late' \in {late} \cup
       (IF attempt[p].pc = "sending" THEN {late \cup {<<attempt[p].task, attempt[p].email>>}} ELSE {})
  /\ UNCHANGED <<user_email, account, tasks, customer, changes>>

-----------------------------------------------------------------------------
RequestStep(p) ==
  \/ CommitChange(p) \/ FindTask(p) \/ WriteTask(p)
  \/ InsertAccount(p) \/ CustomerCreated(p)
  \/ CleanUpRemote(p) \/ CommitDelete(p)

Next ==
  \/ \E p \in Process :
       \/ \E e \in Email : StartChange(p, e)
       \/ StartCheckout(p) \/ StartDelete(p)
       \/ RequestStep(p) \/ CustomerFails(p)
       \/ Claim(p) \/ Answer(p) \/ AnswerFails(p) \/ Mark(p)
       \/ Crash(p)
  \/ \E t \in DOMAIN tasks : BecomesDue(t) \/ BecomesStale(t)
  \/ HandleLate

\* Requests that began go on, the supervisors of every process poll, time passes.
Fairness ==
  /\ \A p \in Process : /\ WF_vars(RequestStep(p)) /\ WF_vars(Claim(p))
                        /\ WF_vars(Answer(p)) /\ WF_vars(Mark(p))
  /\ \A t \in 1 .. MaxChanges : WF_vars(BecomesDue(t)) /\ WF_vars(BecomesStale(t))

Spec == Init /\ [][Next]_vars /\ Fairness

-----------------------------------------------------------------------------
\* Nothing is left to do: no change is being queued, no task is open, and the last
\* one succeeded.
Quiet ==
  /\ \A p \in Process : request[p].pc \notin {"changed", "found"}
  /\ \A t \in DOMAIN tasks : ~Open(t)
  /\ tasks # <<>> => tasks[Len(tasks)].status = "succeeded"

\* When all tasks are done, Stripe has the user's address, unless a change fell into
\* one of seven windows: the process died between its commit and its task (unqueued);
\* two requests or a request and an attempt crossed on the tasks (crossed); it was put
\* into a task whose attempt then marked the whole task done (overwritten); an older
\* request reached Stripe after a newer one (overtaken); it went back to an address
\* the same task had sent, which Stripe takes for a repetition (replayed); the
\* customer was being made with the address before (created); or an attempt to be
\* repeated opened a task again that another attempt had closed, and what is changed
\* next goes into it although there is a later one (reopened).
EmailArrives ==
  Quiet /\ account /\ customer.email # NoEmail /\ missed \subseteq {"coalesced"}
    => Normalized[customer.email] = Normalized[user_email]

\* Two processes attempt the same task only if a change was put into it during an
\* attempt: the claim (FOR UPDATE SKIP LOCKED, pending or stale) excludes all else.
OneAttempt ==
  \A p, q \in Process :
    p # q /\ attempt[p].pc # "idle" /\ attempt[q].pc # "idle" /\ attempt[p].task = attempt[q].task
      => "coalesced" \in missed

\* The types, and one attempt of a task at a time.
AttemptInv == TypeOK /\ OneAttempt

\* A task does not stay open: whatever fails or dies, another attempt takes it up, a
\* process whose loop waits for another's checkout goes on, and in the end the task
\* has succeeded, failed, or gone with its account.
TasksSettle ==
  \A t \in 1 .. MaxChanges :
    (t \in DOMAIN tasks /\ Open(t)) ~> (t \notin DOMAIN tasks \/ ~Open(t))
=============================================================================
