---------------------------- MODULE JobCompletion ----------------------------
(***************************************************************************)
(* The backend's side of a scrape job (backend/app/features/               *)
(* ig_scraper_jobs): creating a billable job, and the complete_job handler *)
(* that a consumer calls with the terminal status of an attempt.  The      *)
(* handler runs as a request of its own: it goes on when its caller has    *)
(* timed out or died, and it can fail between any two of its steps.        *)
(***************************************************************************)
EXTENDS JobQueue, Sequences

VARIABLES
  create,      \* how far the request that creates a job has come
  projection,  \* status column of the job's row in Postgres, "absent": no row
  reservation, \* the usage reservation taken for the job
  events,      \* terminal notifications published for the job
  accepted,    \* jobs for which the backend accepted a terminal status (history)
  call         \* completion requests in flight

backendVars == <<create, projection, reservation, events, accepted, call>>
vars == <<queueVars, hash, lease, expired, slotVars, budget, backendVars>>

CreatePc == {"none", "reserved", "inserted", "stated", "enqueued", "attached",
             "rollback", "release", "withdrawn", "crashed"}
ReservationState == {"none", "reserved", "attached", "finalized", "released"}
CallPc == {"free", "arrived", "claimed", "projected", "billed", "published"}
CallState == [pc      : CallPc,
              job     : Job \cup {NoJob},
              status  : Terminal,
              charge  : BOOLEAN,             \* summary.counters.successful > 0
              attempt : 0 .. MaxAttempts + 1]
FreeCall == [pc |-> "free", job |-> NoJob, status |-> "failed",
             charge |-> FALSE, attempt |-> 0]

CompletionTypeOK ==
  /\ create \in [Job -> CreatePc]
  /\ projection \in [Job -> {"absent", "queued"} \cup Terminal]
  /\ reservation \in [Job -> ReservationState]
  /\ events \in [Job -> Seq(Terminal)]
  /\ accepted \subseteq Job
  /\ call \in [Call -> CallState]

CompletionInit ==
  /\ create = [j \in Job |-> "none"]
  /\ projection = [j \in Job |-> "absent"]
  /\ reservation = [j \in Job |-> "none"]
  /\ events = [j \in Job |-> <<>>]
  /\ accepted = {}
  /\ call = [c \in Call |-> FreeCall]

-----------------------------------------------------------------------------
\* create_billable_instagram_job and InstagramJobService.create_job

\* reserve_feature_usage for a fresh request key.
ReserveUsage(j) ==
  /\ create[j] = "none" /\ j \notin InternalJob
  /\ create' = [create EXCEPT ![j] = "reserved"]
  /\ reservation' = [reservation EXCEPT ![j] = "reserved"]
  /\ UNCHANGED <<queueVars, hash, lease, expired, slotVars, budget,
                 projection, events, accepted, call>>

\* insert_one(projection).  A recommended job has neither reservation nor row.
InsertProjection(j) ==
  /\ create[j] = IF j \in InternalJob THEN "none" ELSE "reserved"
  /\ create' = [create EXCEPT ![j] = "inserted"]
  /\ projection' = IF j \in InternalJob THEN projection
                   ELSE [projection EXCEPT ![j] = "queued"]
  /\ UNCHANGED <<queueVars, hash, lease, expired, slotVars, budget,
                 reservation, events, accepted, call>>

\* enqueue_job: HSET of the queued state.
WriteQueuedState(j) ==
  /\ create[j] = "inserted"
  /\ create' = [create EXCEPT ![j] = "stated"]
  /\ hash' = [hash EXCEPT ![j] = [status |-> "queued", attempts |-> 0,
                                  event |-> FALSE]]
  /\ UNCHANGED <<queueVars, lease, expired, slotVars, budget,
                 projection, reservation, events, accepted, call>>

\* enqueue_job: XADD.
EnqueueMessage(j) ==
  /\ create[j] = "stated"
  /\ create' = [create EXCEPT ![j] = "enqueued"]
  /\ AppendMessage(j)
  /\ UNCHANGED <<delivered, pel, hash, lease, expired, slotVars, budget,
                 projection, reservation, events, accepted, call>>

\* A RedisError out of enqueue_job: XADD may have taken effect all the same, and
\* the clean-up DELETE of the state may fail as well.
EnqueueFails(j) ==
  /\ create[j] \in {"inserted", "stated"}
  /\ Spend("enqueue")
  /\ create' = [create EXCEPT ![j] = "rollback"]
  /\ \/ UNCHANGED <<stream, streamId>>
     \/ create[j] = "stated" /\ AppendMessage(j)
  /\ hash' = [hash EXCEPT ![j] = NoState] \/ UNCHANGED hash
  /\ UNCHANGED <<delivered, pel, lease, expired, slotVars,
                 projection, reservation, events, accepted, call>>

\* create_job's except branch: the projection is deleted ...
DeleteProjection(j) ==
  /\ create[j] = "rollback"
  /\ create' = [create EXCEPT ![j] = "release"]
  /\ projection' = [projection EXCEPT ![j] = "absent"]
  /\ UNCHANGED <<queueVars, hash, lease, expired, slotVars, budget,
                 reservation, events, accepted, call>>

\* ... and create_billable_instagram_job releases the reservation by its key.
ReleaseReservation(j) ==
  /\ create[j] = "release"
  /\ create' = [create EXCEPT ![j] = "withdrawn"]
  /\ reservation' = [reservation EXCEPT ![j] = IF @ = "reserved" THEN "released" ELSE @]
  /\ UNCHANGED <<queueVars, hash, lease, expired, slotVars, budget,
                 projection, events, accepted, call>>

\* attach_job_id_to_reservation, after the job can already be executed.
AttachJobId(j) ==
  /\ create[j] = "enqueued" /\ j \notin InternalJob
  /\ create' = [create EXCEPT ![j] = "attached"]
  /\ reservation' = [reservation EXCEPT ![j] = IF @ = "reserved" THEN "attached" ELSE @]
  /\ UNCHANGED <<queueVars, hash, lease, expired, slotVars, budget,
                 projection, events, accepted, call>>

\* The backend process dies inside the request.
CrashRequest(j) ==
  /\ \/ create[j] \in {"reserved", "inserted", "stated", "rollback", "release"}
     \/ create[j] = "enqueued" /\ j \notin InternalJob
  /\ Spend("crash")
  /\ create' = [create EXCEPT ![j] = "crashed"]
  /\ UNCHANGED <<queueVars, hash, lease, expired, slotVars,
                 projection, reservation, events, accepted, call>>

-----------------------------------------------------------------------------
\* InstagramJobService.complete_job behind POST /internal/ig-scraper/jobs/{id}/complete

\* Mutant of Reply: every response acks, as if any status code did.
ReplyAcks(c, ack, drop) ==
  /\ call' = [call EXCEPT ![c] = FreeCall]
  /\ slot' = [s \in Slot |->
                IF slot[s].pc = "wait" /\ slot[s].call = c
                THEN [slot[s] EXCEPT !.pc = "finish", !.ack = TRUE,
                                     !.drop = drop, !.call = NoCall]
                ELSE slot[s]]

\* The response ends the request and reaches the slot still waiting for it: 200
\* and 409 make the slot ack, any other outcome leaves the message pending; a
\* dropped connection moreover counts as a dependency failure.
Reply(c, ack, drop) ==
  /\ call' = [call EXCEPT ![c] = FreeCall]
  /\ slot' = [s \in Slot |->
                IF slot[s].pc = "wait" /\ slot[s].call = c
                THEN [slot[s] EXCEPT !.pc = "finish", !.ack = ack,
                                     !.drop = drop, !.call = NoCall]
                ELSE slot[s]]

\* Mutant of TerminalState: the notification is marked as sent with the claim.
TerminalStateMarked(c) ==
  [status |-> call[c].status, attempts |-> call[c].attempt, event |-> TRUE]

\* The state that TERMINALIZATION_CLAIM_SCRIPT writes on accepted_new.
TerminalState(c) ==
  [status |-> call[c].status, attempts |-> call[c].attempt, event |-> FALSE]

\* find_one, then TERMINALIZATION_CLAIM_SCRIPT.  The script looks at nothing but
\* the stored status: not at the lease, the attempt or the worker.
ClaimTerminalState(c) ==
  LET j == call[c].job IN
  /\ call[c].pc = "arrived"
  /\ \/ /\ projection[j] = "absent"                          \* 404
        /\ Reply(c, FALSE, FALSE)
        /\ UNCHANGED <<hash, accepted>>
     \/ /\ projection[j] # "absent"
        /\ hash[j].status \notin Terminal                    \* accepted_new
        /\ hash' = [hash EXCEPT ![j] = TerminalState(c)]
        /\ accepted' = accepted \cup {j}
        /\ call' = [call EXCEPT ![c].pc = "claimed"]
        /\ UNCHANGED slot
     \/ /\ projection[j] # "absent"
        /\ hash[j].status = call[c].status /\ ~hash[j].event \* accepted_pending
        /\ call' = [call EXCEPT ![c].pc = "claimed"]
        /\ UNCHANGED <<slot, hash, accepted>>
     \/ /\ projection[j] # "absent"
        /\ hash[j].status \in Terminal
        /\ hash[j].status = call[c].status => hash[j].event  \* duplicate, conflict
        /\ Reply(c, TRUE, FALSE)
        /\ UNCHANGED <<hash, accepted>>
  /\ UNCHANGED <<queueVars, lease, expired, batch, executions, budget,
                 create, projection, reservation, events>>

\* update_one of the projection: no row, no effect.
UpdateProjection(c) ==
  LET j == call[c].job IN
  /\ call[c].pc = "claimed"
  /\ projection' = [projection EXCEPT ![j] = IF @ = "absent" THEN @ ELSE call[c].status]
  /\ call' = [call EXCEPT ![c].pc = "projected"]
  /\ UNCHANGED <<queueVars, hash, lease, expired, slotVars, budget,
                 create, reservation, events, accepted>>

\* Mutant of FinalizeBilling: settles what it finds, bound to the job or settled.
FinalizeBillingAnyway(c) ==
  LET j == call[c].job IN
  /\ call[c].pc = "projected"
  /\ reservation' = [reservation EXCEPT
       ![j] = IF call[c].charge THEN "finalized" ELSE "released"]
  /\ call' = [call EXCEPT ![c].pc = "billed"]
  /\ UNCHANGED <<queueVars, hash, lease, expired, slotVars, budget,
                 create, projection, events, accepted>>

\* Mutant of FinalizeBilling: a job without a bound reservation is an error (500).
FinalizeBillingStrict(c) ==
  LET j == call[c].job IN
  /\ call[c].pc = "projected"
  /\ \/ /\ reservation[j] = "reserved"
        /\ Reply(c, FALSE, FALSE)
        /\ UNCHANGED reservation
     \/ /\ reservation[j] # "reserved"
        /\ reservation' = [reservation EXCEPT ![j] = IF @ # "attached" THEN @ ELSE "finalized"]
        /\ call' = [call EXCEPT ![c].pc = "billed"]
        /\ UNCHANGED slot
  /\ UNCHANGED <<queueVars, hash, lease, expired, batch, executions, budget,
                 create, projection, events, accepted>>

\* finalize_instagram_job_billing looks the reservation up by job id: it finds
\* none before the job id is attached, and does nothing to a settled one.
FinalizeBilling(c) ==
  LET j == call[c].job IN
  /\ call[c].pc = "projected"
  /\ reservation' = [reservation EXCEPT
       ![j] = IF @ # "attached" THEN @
              ELSE IF call[c].charge THEN "finalized" ELSE "released"]
  /\ call' = [call EXCEPT ![c].pc = "billed"]
  /\ UNCHANGED <<queueVars, hash, lease, expired, slotVars, budget,
                 create, projection, events, accepted>>

\* publish_event under the job's dedupe key.
PublishEvent(c) ==
  LET j == call[c].job IN
  /\ call[c].pc = "billed"
  /\ events' = IF events[j] = <<>>
               THEN [events EXCEPT ![j] = <<call[c].status>>] ELSE events
  /\ call' = [call EXCEPT ![c].pc = "published"]
  /\ UNCHANGED <<queueVars, hash, lease, expired, slotVars, budget,
                 create, projection, reservation, accepted>>

\* complete_terminal_state: HSET terminal_event_id on whatever the hash is now.
CompleteTerminalState(c) ==
  LET j == call[c].job IN
  /\ call[c].pc = "published"
  /\ hash' = [hash EXCEPT ![j].event = TRUE]
  /\ Reply(c, TRUE, FALSE)
  /\ UNCHANGED <<queueVars, lease, expired, batch, executions, budget,
                 create, projection, reservation, events, accepted>>

\* The handler raises (500), or the backend dies and the connection breaks.
CallFails(c) ==
  /\ call[c].pc # "free"
  /\ Spend("handler")
  /\ \E drop \in BOOLEAN : Reply(c, FALSE, drop)
  /\ UNCHANGED <<queueVars, hash, lease, expired, batch, executions,
                 create, projection, reservation, events, accepted>>
=============================================================================
