---------------------------- MODULE ScrapeWorker ----------------------------
(***************************************************************************)
(* The standalone scrape worker (scrape_worker/worker.py) between the job  *)
(* queue and the backend: worker_loop polls, process_message starts the    *)
(* job, executes it, posts the terminal status and finishes the handle.    *)
(* One slot per worker process: messages are processed one after another.  *)
(* This module composes the queue, the backend and the workers into the    *)
(* system whose properties are checked and proved.                         *)
(***************************************************************************)
EXTENDS JobCompletion

Init == QueueInit /\ CompletionInit

-----------------------------------------------------------------------------
\* process_message

\* What execute_job_payload leaves for the backend: a summary ("done", with or
\* without usernames to charge) or an exception that is no dependency error.
ExecutionResult == [status : {"done"}, charge : BOOLEAN] \cup
                   [status : {"failed"}, charge : {FALSE}]

\* The end of the execution, the lease_lost test and the request to the backend:
\* no other task of the worker runs in between.
Finalize(s, outcome) ==
  \/ /\ slot[s].lost                       \* skip finalization, leave pending
     /\ slot' = [slot EXCEPT ![s].pc = "finish"]
     /\ UNCHANGED call
  \/ /\ ~slot[s].lost /\ slot[s].job \in InternalJob
     /\ slot' = [slot EXCEPT ![s].pc = "finish", ![s].ack = TRUE]
     /\ UNCHANGED call
  \/ /\ ~slot[s].lost /\ slot[s].job \notin InternalJob
     /\ \E c \in Call :
          /\ call[c].pc = "free"
          /\ call' = [call EXCEPT ![c] =
               [pc |-> "arrived", job |-> slot[s].job, status |-> outcome.status,
                charge |-> outcome.charge, attempt |-> slot[s].attempt]]
          /\ slot' = [slot EXCEPT ![s].pc = "wait", ![s].call = c]

Execute(s) ==
  /\ slot[s].pc = "execute" /\ slot[s].attempt <= MaxAttempts
  /\ \E outcome \in ExecutionResult : Finalize(s, outcome)
  /\ executions' = [executions EXCEPT ![slot[s].job] = @ + 1]
  /\ UNCHANGED <<queueVars, hash, lease, expired, batch, budget,
                 create, projection, reservation, events, accepted>>

\* _attempt_exhausted: failed without another execution.
GiveUp(s) ==
  /\ slot[s].pc = "execute" /\ slot[s].attempt > MaxAttempts
  /\ Finalize(s, [status |-> "failed", charge |-> FALSE])
  /\ UNCHANGED <<queueVars, hash, lease, expired, batch, executions, budget,
                 create, projection, reservation, events, accepted>>

\* Postgres, Redis or an HTTP dependency fails during the execution: finish
\* without ack, and the worker loop drops the rest of its batch.
ExecuteDependencyFails(s) ==
  /\ slot[s].pc = "execute" /\ slot[s].attempt <= MaxAttempts
  /\ Spend("dependency")
  /\ slot' = [slot EXCEPT ![s].pc = "finish", ![s].drop = TRUE]
  /\ executions' = [executions EXCEPT ![slot[s].job] = @ + 1]
  /\ UNCHANGED <<queueVars, hash, lease, expired, batch, backendVars>>

\* httpx timeout or broken transport while the backend may still be at work.
RequestTimesOut(s) ==
  /\ slot[s].pc = "wait"
  /\ Spend("timeout")
  /\ slot' = [slot EXCEPT ![s].pc = "finish", ![s].drop = TRUE, ![s].call = NoCall]
  /\ UNCHANGED <<queueVars, hash, lease, expired, batch, executions, backendVars>>

-----------------------------------------------------------------------------
QueueStep(s) ==
  /\ \/ \E S \in SUBSET stream : ReadReclaimed(s, S)
     \/ \E j \in Job : ReadNew(s, j)
     \/ ReadState(s)
     \/ DiscardMessage(s)
     \/ ClaimLease(s)
     \/ StartJobFails(s)
     \/ WriteRunningState(s)
     \/ WriteRunningStateFails(s)
     \/ HeartbeatLosesLease(s)
     \/ FinishAck(s)
     \/ FinishAckFails(s)
     \/ FinishRelease(s)
     \/ FinishReleaseFails(s)
  /\ UNCHANGED backendVars

ProcessStep(s) ==
  \/ Execute(s)
  \/ GiveUp(s)
  \/ ExecuteDependencyFails(s)
  \/ RequestTimesOut(s)

EnvironmentStep ==
  /\ \/ \E j \in Job : LeaseTtlEnds(j)
     \/ \E j \in Job : LeaseStalls(j)
     \/ \E j \in Job : JobExpires(j)
     \/ \E w \in Worker : CrashWorker(w)
  /\ UNCHANGED backendVars

CreateStep(j) ==
  \/ ReserveUsage(j)
  \/ InsertProjection(j)
  \/ WriteQueuedState(j)
  \/ EnqueueMessage(j)
  \/ EnqueueFails(j)
  \/ DeleteProjection(j)
  \/ ReleaseReservation(j)
  \/ AttachJobId(j)
  \/ CrashRequest(j)

CallStep(c) ==
  \/ ClaimTerminalState(c)
  \/ UpdateProjection(c)
  \/ FinalizeBilling(c)
  \/ PublishEvent(c)
  \/ CompleteTerminalState(c)
  \/ CallFails(c)

Next ==
  \/ \E s \in Slot : QueueStep(s) \/ ProcessStep(s)
  \/ \E j \in Job : CreateStep(j)
  \/ \E c \in Call : CallStep(c)
  \/ EnvironmentStep

Spec == Init /\ [][Next]_vars

(***************************************************************************)
(* Fairness.  Workers, request handlers and the backend's requests are     *)
(* asyncio tasks of running processes: each goes on as long as it can, so  *)
(* each gets weak fairness.  A pending entry that no consumer touches      *)
(* becomes idle and XAUTOCLAIM returns every idle entry from the start of  *)
(* the list, so an entry cannot be passed over forever: strong fairness    *)
(* for being reclaimed.  No fault is fair.                                 *)
(***************************************************************************)
SlotProgress(s) ==
  \/ /\ \/ \E j \in Job : ReadNew(s, j)
        \/ ReadState(s)
        \/ DiscardMessage(s)
        \/ ClaimLease(s)
        \/ WriteRunningState(s)
        \/ FinishAck(s)
        \/ FinishRelease(s)
     /\ UNCHANGED backendVars
  \/ Execute(s)
  \/ GiveUp(s)

CallProgress(c) ==
  \/ ClaimTerminalState(c)
  \/ UpdateProjection(c)
  \/ FinalizeBilling(c)
  \/ PublishEvent(c)
  \/ CompleteTerminalState(c)

CreateProgress(j) ==
  \/ InsertProjection(j)
  \/ WriteQueuedState(j)
  \/ EnqueueMessage(j)
  \/ DeleteProjection(j)
  \/ ReleaseReservation(j)
  \/ AttachJobId(j)

Reclaimed(j) ==
  /\ \E s \in Slot, S \in SUBSET stream : j \in S /\ ReadReclaimed(s, S)
  /\ UNCHANGED backendVars

Fairness ==
  /\ \A s \in Slot : WF_vars(SlotProgress(s))
  /\ \A c \in Call : WF_vars(CallProgress(c))
  /\ \A j \in Job : WF_vars(CreateProgress(j))
  /\ \A j \in Job : SF_vars(Reclaimed(j))
  /\ \A j \in Job : WF_vars(LeaseTtlEnds(j) /\ UNCHANGED backendVars)

FairSpec == Spec /\ Fairness

-----------------------------------------------------------------------------
\* Properties

\* Every variable keeps its type.
TypeOK == QueueTypeOK /\ CompletionTypeOK

\* The queue never swallows a job: a message leaves the consumer group's pending
\* list only when the backend accepted a terminal status for its job, or the job
\* had expired (recommended jobs need no acceptance).  It holds whatever crashes,
\* leases lapse or requests are repeated.
NoJobSwallowed ==
  \A j \in Job \ InternalJob : Acked(j) => j \in accepted \cup expired

\* A completion is answered as a duplicate only if an earlier one got as far as
\* the notification: the mark the script looks at is never set too early.
DuplicateMeansNotified == \A j \in Job : hash[j].event => events[j] # <<>>

\* As long as heartbeats reached Redis in time, a job is worked on by one slot at a
\* time: redelivery, reclaiming of entries still in work, crashes and lapsed leases
\* never put two workers on it.
OneExecutor ==
  budget["stall"] = MaxFaults["stall"] =>
    \A j \in Job : \A s, t \in Slot : Executing(s, j) /\ Executing(t, j) => s = t

\* A job that never completes is not executed over and over: crashes, lost leases
\* and redeliveries together get max_attempts executions, then the job is given up.
\* After an acceptance this is no longer so: the claim script sets the attempts
\* back to those of a late completion, and a stale reader may execute once more;
\* nor after the expiry, which takes the counter away with the hash.
ExecutionsBounded ==
  \A j \in Job \ InternalJob :
    j \notin accepted \cup expired => executions[j] <= MaxAttempts

\* A job once done does not become failed, nor the other way round.
TerminalIsFinal ==
  [][\A j \in Job : projection[j] \in Terminal => projection'[j] \in {projection[j], "absent"}]_vars

\* Every message that was enqueued is eventually settled: acked, trimmed off the
\* stream, or withdrawn together with its job.
JobSettles ==
  \A j \in Job : (streamId[j] # 0) ~>
     \/ Acked(j)
     \/ j \notin stream
     \/ j \notin InternalJob /\ projection[j] = "absent"

\* Once the backend has accepted a terminal status the owner is notified.
AcceptedIsNotified == \A j \in Job : (j \in accepted) ~> (events[j] # <<>>)

\* Every behaviour is one that JobOutcome allows: the job's row, reservation and
\* notification, read as they are, change only in the ways it lists.
Outcomes == INSTANCE JobOutcome WITH
  Job <- Job, InternalJob <- InternalJob,
  projection <- projection, reservation <- reservation, events <- events
ImplementsJobOutcome == Outcomes!Spec
=============================================================================
