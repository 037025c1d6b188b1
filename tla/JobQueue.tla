------------------------------ MODULE JobQueue ------------------------------
(***************************************************************************)
(* The job-control package (packages/core .../job_control): one Redis      *)
(* stream of queued jobs with its consumer group, a state hash and a lease *)
(* key per job, and JobWorkerRuntime, which moves a consumer through       *)
(* poll_messages, start_job, the heartbeat and finish_job.                 *)
(*                                                                         *)
(* A Slot is one place where a consumer handles a message: the standalone  *)
(* scrape worker has one slot per process, the in-process Apify runner has *)
(* several under the same worker id (WorkerOf).  Every await of the Python *)
(* code is a step boundary; what happens between two awaits is one step.   *)
(***************************************************************************)
EXTENDS Naturals, FiniteSets

CONSTANTS
  Job,            \* job ids: one stream message per job (job ids are fresh UUIDs)
  InternalJob,    \* jobs enqueued for recommended usernames, without projection
  Slot,           \* message-handling slots of the consumers
  Worker,         \* consumer names, also used as lease tokens
  WorkerOf,       \* the consumer a slot belongs to
  NoWorker, NoJob, NoCall,
  Call,           \* completion requests that can be in flight at once
  MaxAttempts,    \* IG_SCRAPE_WORKER_MAX_ATTEMPTS
  QueueMaxlen,    \* JobQueueSpec.queue_maxlen
  ReclaimedCount, \* JobWorkerRuntime reclaimed_message_count
  MaxFaults       \* how often the environment may do each kind of harm (a bound)

\* What the environment can do to the program; each kind has a budget.
FaultKind == {"crash", "dependency", "timeout", "handler",
              "stall", "expiry", "enqueue"}

ASSUME JobQueueAssumption ==
  /\ InternalJob \subseteq Job
  /\ WorkerOf \in [Slot -> Worker]
  /\ NoWorker \notin Worker
  /\ NoJob \notin Job
  /\ NoCall \notin Call
  /\ MaxAttempts \in Nat \ {0}
  /\ QueueMaxlen \in Nat \ {0}
  /\ ReclaimedCount \in Nat \ {0}
  /\ MaxFaults \in [FaultKind -> Nat]

VARIABLES
  stream,     \* jobs whose entry is in the stream
  streamId,   \* the entry id of a job, 0 before XADD
  delivered,  \* jobs at or below the group's last-delivered id
  pel,        \* the consumer a pending entry is assigned to, or NoWorker
  hash,       \* the job's state hash
  lease,      \* the value of the job's lease key, or NoWorker
  expired,    \* jobs whose expires_at has passed
  slot,       \* what each slot is doing
  batch,      \* messages a slot has polled and not yet started
  executions, \* how often a job's payload was really executed (history)
  budget      \* harm the environment may still do

queueVars == <<stream, streamId, delivered, pel>>
slotVars  == <<slot, batch, executions>>

Terminal == {"done", "failed"}          \* TERMINAL_JOB_STATUSES

\* The state hash; "absent" is a missing key, and also a key that a late HSET
\* re-created without a status field: start_job treats both alike.
StateHash == [status   : {"absent", "queued", "running"} \cup Terminal,
              attempts : 0 .. MaxAttempts + 1,
              event    : BOOLEAN]       \* terminal_event_id is set
NoState == [status |-> "absent", attempts |-> 0, event |-> FALSE]

SlotPc == {"poll", "discard", "expire", "claim", "write",
           "execute", "wait", "finish", "release"}
SlotState == [pc      : SlotPc,
              job     : Job \cup {NoJob},
              attempt : 0 .. MaxAttempts + 1,
              lost    : BOOLEAN,        \* handle.lease_lost
              ack     : BOOLEAN,        \* the ack argument of finish_job
              drop    : BOOLEAN,        \* a dependency error abandons the batch
              call    : Call \cup {NoCall}]
IdleSlot == [pc |-> "poll", job |-> NoJob, attempt |-> 0, lost |-> FALSE,
             ack |-> FALSE, drop |-> FALSE, call |-> NoCall]

QueueTypeOK ==
  /\ stream \subseteq Job
  /\ streamId \in [Job -> Nat]
  /\ delivered \subseteq Job
  /\ pel \in [Job -> Worker \cup {NoWorker}]
  /\ hash \in [Job -> StateHash]
  /\ lease \in [Job -> Worker \cup {NoWorker}]
  /\ expired \subseteq Job
  /\ slot \in [Slot -> SlotState]
  /\ batch \in [Slot -> SUBSET Job]
  /\ executions \in [Job -> Nat]
  /\ budget \in [FaultKind -> Nat]

QueueInit ==
  /\ stream = {}
  /\ streamId = [j \in Job |-> 0]
  /\ delivered = {}
  /\ pel = [j \in Job |-> NoWorker]
  /\ hash = [j \in Job |-> NoState]
  /\ lease = [j \in Job |-> NoWorker]
  /\ expired = {}
  /\ slot = [s \in Slot |-> IdleSlot]
  /\ batch = [s \in Slot |-> {}]
  /\ executions = [j \in Job |-> 0]
  /\ budget = MaxFaults

-----------------------------------------------------------------------------
\* Helpers

Spend(kind) ==
  /\ budget[kind] > 0
  /\ budget' = [budget EXCEPT ![kind] = @ - 1]

\* The message with the smallest entry id: consumers see a stream in id order.
Oldest(j, S) == j \in S /\ \A k \in S : streamId[j] <= streamId[k]

Enqueued == {j \in Job : streamId[j] # 0}

\* Mutant of NextAttempt: only the first delivery is counted (HSETNX attempts 1).
NextAttemptOnce(n) == IF n > 0 THEN n ELSE 1

\* HINCRBY attempts 1.  Counts above MaxAttempts are all alike to the code
\* (attempt > max_attempts), so the counter saturates one above the limit.
NextAttempt(n) == IF n > MaxAttempts THEN n ELSE n + 1

\* A slot that has claimed the lease of job j and keeps it alive: by the fresh TTL
\* until write_running_state returns, then by the heartbeat, which ends when the
\* lease is lost and when finish_job begins.
Renewing(s, j) ==
  slot[s].job = j /\ slot[s].pc \in {"write", "execute", "wait"} /\ ~slot[s].lost

\* A slot whose handle still believes in its lease and works under it.
Executing(s, j) ==
  slot[s].job = j /\ slot[s].pc \in {"execute", "wait"} /\ ~slot[s].lost

\* A message the consumer group will never deliver again because it was acked.
Acked(j) == j \in delivered /\ pel[j] = NoWorker

-----------------------------------------------------------------------------
\* Redis primitives of JobControlRepository

\* XADD with maxlen: the trim is approximate, so an overlong stream may keep or
\* lose some of its oldest entries, pending or not, down to QueueMaxlen.
AppendMessage(j) ==
  /\ streamId' = [streamId EXCEPT ![j] = Cardinality(Enqueued) + 1]
  /\ \E trimmed \in SUBSET stream :
       /\ \A k \in trimmed, i \in stream \ trimmed : streamId[k] < streamId[i]
       /\ trimmed = {} \/ Cardinality((stream \cup {j}) \ trimmed) >= QueueMaxlen
       /\ stream' = (stream \cup {j}) \ trimmed

\* XACK, then XDEL.
AckMessage(j) ==
  /\ pel' = [pel EXCEPT ![j] = NoWorker]
  /\ stream' = stream \ {j}

\* LEASE_RELEASE_SCRIPT: the key is deleted only while it holds the token.
ReleaseLease(s, j) ==
  lease' = IF lease[j] = WorkerOf[s] THEN [lease EXCEPT ![j] = NoWorker] ELSE lease

-----------------------------------------------------------------------------
\* JobWorkerRuntime.poll_messages

\* XAUTOCLAIM hands out pending entries whatever consumer they are assigned to
\* once they have been idle for lease_seconds.  Renewing a lease does not touch
\* the idle time, so an entry being executed is handed out all the same.
ReadReclaimed(s, S) ==
  /\ slot[s].pc = "poll" /\ batch[s] = {}
  /\ S # {} /\ Cardinality(S) <= ReclaimedCount
  /\ \A j \in S : j \in stream /\ pel[j] # NoWorker
  /\ pel' = [j \in Job |-> IF j \in S THEN WorkerOf[s] ELSE pel[j]]
  /\ batch' = [batch EXCEPT ![s] = S]
  /\ UNCHANGED <<stream, streamId, delivered, hash, lease, expired, slot,
                 executions, budget>>

\* XREADGROUP with id ">", one message at a time.
ReadNew(s, j) ==
  /\ slot[s].pc = "poll" /\ batch[s] = {}
  /\ Oldest(j, stream \ delivered)
  /\ delivered' = delivered \cup {j}
  /\ pel' = [pel EXCEPT ![j] = WorkerOf[s]]
  /\ batch' = [batch EXCEPT ![s] = {j}]
  /\ UNCHANGED <<stream, streamId, hash, lease, expired, slot, executions, budget>>

-----------------------------------------------------------------------------
\* JobWorkerRuntime.start_job

\* read_state, then the two early exits decided on what was read.
ReadState(s) ==
  /\ slot[s].pc = "poll"
  /\ \E j \in batch[s] :
       /\ Oldest(j, batch[s])
       /\ batch' = [batch EXCEPT ![s] = @ \ {j}]
       /\ slot' = [slot EXCEPT ![s].job = j,
                               ![s].pc = IF hash[j].status \in Terminal THEN "discard"
                                         ELSE IF j \in expired THEN "expire"
                                         ELSE "claim"]
  /\ UNCHANGED <<queueVars, hash, lease, expired, executions, budget>>

\* expire_state deletes the hash, or gives it a TTL when it knows no deadline: the
\* hash of a recommended job, or one that was re-created since.  That TTL is a day
\* of the job's afterlife: the hash goes at once here, or stays.
ExpireState(j) == hash' = [hash EXCEPT ![j] = NoState] \/ UNCHANGED hash

\* Terminal message: acked.  Expired message: expire_state and then the ack.
DiscardMessage(s) ==
  LET j == slot[s].job IN
  /\ \/ slot[s].pc = "discard" /\ UNCHANGED hash
     \/ slot[s].pc = "expire" /\ ExpireState(j)
  /\ AckMessage(j)
  /\ slot' = [slot EXCEPT ![s] = IdleSlot]
  /\ UNCHANGED <<streamId, delivered, lease, expired, batch, executions, budget>>

\* Mutant of ClaimLease: SET EX without NX.
ClaimLeaseAnyway(s) ==
  LET j == slot[s].job IN
  /\ slot[s].pc = "claim"
  /\ lease' = [lease EXCEPT ![j] = WorkerOf[s]]
  /\ slot' = [slot EXCEPT ![s].pc = "write"]
  /\ UNCHANGED <<queueVars, hash, expired, batch, executions, budget>>

\* claim_lease: SET NX EX.  Not owned: the message stays pending.
ClaimLease(s) ==
  LET j == slot[s].job IN
  /\ slot[s].pc = "claim"
  /\ \/ /\ lease[j] = NoWorker
        /\ lease' = [lease EXCEPT ![j] = WorkerOf[s]]
        /\ slot' = [slot EXCEPT ![s].pc = "write"]
     \/ /\ lease[j] # NoWorker
        /\ slot' = [slot EXCEPT ![s] = IdleSlot]
        /\ UNCHANGED lease
  /\ UNCHANGED <<queueVars, hash, expired, batch, executions, budget>>

\* Redis fails in one of these calls, which may have taken effect or not; nothing
\* gives back a lease claimed that way, and the worker loop drops its batch.
StartJobFails(s) ==
  LET j == slot[s].job IN
  /\ Spend("dependency")
  /\ \/ /\ slot[s].pc = "poll" /\ batch[s] # {}
        /\ UNCHANGED <<pel, hash, lease>>
     \/ /\ slot[s].pc \in {"discard", "expire"}
        /\ pel' = [pel EXCEPT ![j] = NoWorker] \/ UNCHANGED pel
        /\ \/ slot[s].pc = "expire" /\ ExpireState(j)
           \/ UNCHANGED hash
        /\ UNCHANGED lease
     \/ /\ slot[s].pc = "claim"
        /\ \/ lease[j] = NoWorker /\ lease' = [lease EXCEPT ![j] = WorkerOf[s]]
           \/ UNCHANGED lease
        /\ UNCHANGED <<pel, hash>>
  /\ slot' = [slot EXCEPT ![s] = IdleSlot]
  /\ batch' = [batch EXCEPT ![s] = {}]
  /\ UNCHANGED <<stream, streamId, delivered, expired, executions>>

\* Mutant of RunningState: a status the job state does not have.
RunningStateLeased(h) ==
  [h EXCEPT !.status = "leased", !.attempts = NextAttempt(@)]

\* write_running_state overwrites whatever status the hash has by now.
RunningState(h) ==
  [h EXCEPT !.status = "running", !.attempts = NextAttempt(@)]

WriteRunningState(s) ==
  LET j == slot[s].job IN
  /\ slot[s].pc = "write"
  /\ hash' = [hash EXCEPT ![j] = RunningState(@)]
  /\ slot' = [slot EXCEPT ![s].pc = "execute",
                          ![s].attempt = NextAttempt(hash[j].attempts)]
  /\ UNCHANGED <<queueVars, lease, expired, batch, executions, budget>>

\* Redis fails part-way through the commands of write_running_state; the except
\* branch tries to release the lease, and the worker loop drops its batch.
WriteRunningStateFails(s) ==
  LET j == slot[s].job IN
  /\ slot[s].pc = "write"
  /\ Spend("dependency")
  /\ \/ hash' = hash
     \/ hash' = [hash EXCEPT ![j].attempts = NextAttempt(@)]
     \/ hash' = [hash EXCEPT ![j] = RunningState(@)]
  /\ ReleaseLease(s, j) \/ UNCHANGED lease
  /\ slot' = [slot EXCEPT ![s] = IdleSlot]
  /\ batch' = [batch EXCEPT ![s] = {}]
  /\ UNCHANGED <<queueVars, expired, executions>>

-----------------------------------------------------------------------------
\* JobWorkerRuntime._maintain_heartbeat: a renewal that still owns the lease
\* changes nothing that is modelled; one that does not sets lease_lost.
HeartbeatLosesLease(s) ==
  /\ slot[s].pc \in {"execute", "wait"} /\ ~slot[s].lost
  /\ \/ lease[slot[s].job] # WorkerOf[s] /\ UNCHANGED budget
     \/ lease[slot[s].job] = WorkerOf[s] /\ Spend("dependency")  \* renew raised
  /\ slot' = [slot EXCEPT ![s].lost = TRUE]
  /\ UNCHANGED <<queueVars, hash, lease, expired, batch, executions>>

-----------------------------------------------------------------------------
\* JobWorkerRuntime.finish_job: ack, and in the finally block release the lease.
FinishAck(s) ==
  LET j == slot[s].job IN
  /\ slot[s].pc = "finish"
  /\ IF slot[s].ack THEN AckMessage(j) ELSE UNCHANGED <<pel, stream>>
  /\ slot' = [slot EXCEPT ![s].pc = "release"]
  /\ UNCHANGED <<streamId, delivered, hash, lease, expired, batch, executions, budget>>

\* XACK raises, or XACK went through and XDEL raises.
FinishAckFails(s) ==
  LET j == slot[s].job IN
  /\ slot[s].pc = "finish" /\ slot[s].ack
  /\ Spend("dependency")
  /\ pel' = [pel EXCEPT ![j] = NoWorker] \/ UNCHANGED pel
  /\ slot' = [slot EXCEPT ![s].pc = "release", ![s].drop = TRUE]
  /\ UNCHANGED <<stream, streamId, delivered, hash, lease, expired, batch, executions>>

\* release_lease, and for a recommended job expire_state; a dependency error
\* makes the loop abandon the rest of the batch.
FinishRelease(s) ==
  LET j == slot[s].job IN
  /\ slot[s].pc = "release"
  /\ ReleaseLease(s, j)
  /\ \/ j \in InternalJob /\ slot[s].ack /\ ExpireState(j)
     \/ ~(j \in InternalJob /\ slot[s].ack) /\ UNCHANGED hash
  /\ batch' = [batch EXCEPT ![s] = IF slot[s].drop THEN {} ELSE @]
  /\ slot' = [slot EXCEPT ![s] = IdleSlot]
  /\ UNCHANGED <<queueVars, expired, executions, budget>>

\* The release script raises: the lease stays until its TTL runs out.
FinishReleaseFails(s) ==
  /\ slot[s].pc = "release"
  /\ Spend("dependency")
  /\ batch' = [batch EXCEPT ![s] = {}]
  /\ slot' = [slot EXCEPT ![s] = IdleSlot]
  /\ UNCHANGED <<queueVars, hash, lease, expired, executions>>

-----------------------------------------------------------------------------
\* Environment

\* Mutant of LeaseTtlEnds: SET NX without EX, a lease that never ends by itself.
LeaseTtlForgotten(j) ==
  /\ FALSE
  /\ lease' = [lease EXCEPT ![j] = NoWorker]
  /\ UNCHANGED <<queueVars, hash, expired, slotVars, budget>>

\* The lease TTL runs out: nobody renews a lease whose holder is gone.
LeaseTtlEnds(j) ==
  /\ lease[j] # NoWorker
  /\ \A s \in Slot : WorkerOf[s] = lease[j] => ~Renewing(s, j)
  /\ lease' = [lease EXCEPT ![j] = NoWorker]
  /\ UNCHANGED <<queueVars, hash, expired, slotVars, budget>>

\* The holder is alive but its heartbeats did not reach Redis in time.
LeaseStalls(j) ==
  /\ lease[j] # NoWorker
  /\ Spend("stall")
  /\ lease' = [lease EXCEPT ![j] = NoWorker]
  /\ UNCHANGED <<queueVars, hash, expired, slotVars>>

\* expires_at passes: Redis removes the state hash, whose TTL ends then.  A hash
\* that a late write re-created may be removed again.  A recommended job has no
\* expires_at.
JobExpires(j) ==
  /\ streamId[j] # 0 /\ j \notin InternalJob
  /\ \/ j \notin expired /\ Spend("expiry") /\ expired' = expired \cup {j}
     \/ j \in expired /\ hash[j] # NoState /\ UNCHANGED <<expired, budget>>
  /\ hash' = [hash EXCEPT ![j] = NoState]
  /\ UNCHANGED <<queueVars, lease, slotVars>>

\* A consumer process dies and restarts: its slots forget everything, Redis
\* keeps the pending entries and the lease.
CrashWorker(w) ==
  /\ \E s \in Slot : WorkerOf[s] = w /\ (slot[s] # IdleSlot \/ batch[s] # {})
  /\ Spend("crash")
  /\ slot' = [s \in Slot |-> IF WorkerOf[s] = w THEN IdleSlot ELSE slot[s]]
  /\ batch' = [s \in Slot |-> IF WorkerOf[s] = w THEN {} ELSE batch[s]]
  /\ UNCHANGED <<queueVars, hash, lease, expired, executions>>
=============================================================================
