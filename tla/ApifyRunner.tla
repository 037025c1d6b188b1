----------------------------- MODULE ApifyRunner -----------------------------
(***************************************************************************)
(* The in-process Apify runner (backend/app/features/ig_scraper_jobs/      *)
(* apify_runner.py) on its queue, the recommended jobs it adds to it       *)
(* (scrape_core .../recommended_jobs.py) and the supervisor that starts    *)
(* and stops it (main.py).  A server process (Worker) has one polling loop *)
(* and runs each message as a task of its own (Slot), as many as its       *)
(* semaphore permits, all under one worker id.  Creating a job and         *)
(* complete_job are ScrapeWorker's subject: here each is one step.         *)
(***************************************************************************)
EXTENDS JobQueue

CONSTANTS
  Username,  \* accounts Instagram recommends
  Discovery, \* the sets of accounts one scrape may find
  BatchSize  \* RECOMMENDED_INTERNAL_BATCH_SIZE

ASSUME ApifyAssumption ==
  /\ BatchSize \in Nat \ {0}
  /\ Discovery \subseteq SUBSET Username
  /\ IsFiniteSet(Slot)   \* a process starts no more tasks than its semaphore permits

VARIABLES
  loop,     \* the polling loop of each process
  permits,  \* value of its semaphore
  work,     \* how far the task in a slot is with its execution
  key,      \* usernames whose dedupe key is set
  content,  \* the usernames of a recommended job
  scraped,  \* how often a job's profiles were scraped and stored
  accepted, \* jobs whose completion was accepted (history)
  leaked,   \* keys that stay although nothing was enqueued under them (history)
  overlap,  \* jobs that two tasks were at work on at a time (history)
  stolen    \* jobs whose lease a task released from under another (history)

runnerVars == <<loop, permits, work>>
recommendedVars == <<key, content, leaked>>
resultVars == <<scraped, accepted, overlap, stolen>>
queueModuleVars == <<queueVars, hash, lease, expired, slotVars, budget>>
vars == <<queueModuleVars, runnerVars, recommendedVars, resultVars>>

WorkState == [pc : {"idle", "scrape", "claim", "enqueue", "finalize"},
              todo : SUBSET Username, claimed : SUBSET Username]
NoWork == [pc |-> "idle", todo |-> {}, claimed |-> {}]

SlotsOf(w) == {s \in Slot : WorkerOf[s] = w}
Semaphore(w) == Cardinality(SlotsOf(w))   \* IG_SCRAPER_APIFY_MAX_CONCURRENT_JOBS

TypeOK ==
  /\ QueueTypeOK
  /\ loop \in [Worker -> {"down", "acquire", "poll", "stopping"}]
  /\ permits \in [Worker -> Nat]
  /\ work \in [Slot -> WorkState]
  /\ key \subseteq Username
  /\ content \in [InternalJob -> SUBSET Username]
  /\ scraped \in [Job -> Nat]
  /\ accepted \subseteq Job
  /\ leaked \subseteq key
  /\ overlap \subseteq Job /\ stolen \subseteq Job
  /\ \A s \in Slot : work[s].pc # "idle" => slot[s].pc = "execute"

Init ==
  /\ QueueInit
  /\ loop = [w \in Worker |-> "down"]
  /\ permits = [w \in Worker |-> Semaphore(w)]
  /\ work = [s \in Slot |-> NoWork]
  /\ key = {} /\ content = [r \in InternalJob |-> {}]
  /\ scraped = [j \in Job |-> 0] /\ accepted = {}
  /\ leaked = {} /\ overlap = {} /\ stolen = {}

-----------------------------------------------------------------------------
\* _run_loop

\* A task exists.
Busy(s) == slot[s] # IdleSlot \/ batch[s] # {}

Acquire(w) ==
  /\ loop[w] = "acquire" /\ permits[w] > 0
  /\ loop' = [loop EXCEPT ![w] = "poll"]
  /\ permits' = [permits EXCEPT ![w] = @ - 1]
  /\ UNCHANGED <<queueModuleVars, work, recommendedVars, resultVars>>

\* poll_messages returns a message, whose task is created with the permit.
PollReturns(w, s, j) ==
  /\ loop[w] = "poll" /\ WorkerOf[s] = w /\ ~Busy(s)
  /\ ReadReclaimed(s, {j}) \/ ReadNew(s, j)
  /\ loop' = [loop EXCEPT ![w] = "acquire"]
  /\ UNCHANGED <<permits, work, recommendedVars, resultVars>>

\* Mutant of Released: the permit is given back only by the tasks.
ReleasedByTasks(w) == permits

Released(w) == [permits EXCEPT ![w] = @ + 1]

\* It returns nothing: the pending entries are not idle for long enough.
PollEmpty(w) ==
  /\ loop[w] = "poll" /\ stream \subseteq delivered
  /\ loop' = [loop EXCEPT ![w] = "acquire"]
  /\ permits' = Released(w)
  /\ UNCHANGED <<queueModuleVars, work, recommendedVars, resultVars>>

\* What Redis hands out in a poll that does not return stays pending with this consumer.
HandedOut(w) ==
  \E j \in stream : /\ Oldest(j, stream \ delivered)
                    /\ delivered' = delivered \cup {j}
                    /\ pel' = [pel EXCEPT ![j] = w]

\* It raises.
PollFails(w) ==
  /\ loop[w] = "poll"
  /\ Spend("dependency")
  /\ UNCHANGED <<delivered, pel>> \/ HandedOut(w)
  /\ loop' = [loop EXCEPT ![w] = "acquire"]
  /\ permits' = Released(w)
  /\ UNCHANGED <<stream, streamId, hash, lease, expired, slotVars, work,
                 recommendedVars, resultVars>>

-----------------------------------------------------------------------------
\* A task that releases the lease of a job which another task still works under: the
\* tasks of a process share one token, so the release script lets it.
Steals(s) ==
  stolen' = stolen \cup
    {j \in Job : /\ slot[s].pc = "release" /\ lease'[j] # lease[j]
                 /\ \E t \in Slot \ {s} : Renewing(t, j)}

\* _process_message: start_job and finish_job are JobWorkerRuntime's.  The callback
\* _finalize_job_task gives the permit back when the task ends, however it ends.
Surrounding(s) ==
  /\ permits' = IF Busy(s)' THEN permits ELSE Released(WorkerOf[s])
  /\ overlap' = overlap \cup
       {j \in Job : /\ slot[s].pc = "write" /\ slot'[s].pc = "execute" /\ slot[s].job = j
                    /\ \E t \in Slot \ {s} : slot[t].job = j /\ slot[t].pc \in {"execute", "wait"}}
  /\ Steals(s)
  /\ UNCHANGED <<loop, work, recommendedVars, scraped, accepted>>

RuntimeProgress(s) ==
  /\ \/ ReadState(s)
     \/ DiscardMessage(s)
     \/ ClaimLease(s)
     \/ WriteRunningState(s)
     \/ FinishAck(s)
     \/ FinishRelease(s)
  /\ Surrounding(s)

RuntimeFails(s) ==
  /\ \/ StartJobFails(s)
     \/ WriteRunningStateFails(s)
     \/ HeartbeatLosesLease(s)
     \/ FinishAckFails(s)
     \/ FinishReleaseFails(s)
  /\ Surrounding(s)

\* A step of the task between start_job and finish_job.
Working(s, pc) == slot[s].pc = "execute" /\ work[s].pc = pc

\* Mutant of Prepare: the stored profiles are not looked at.
PrepareUnskipped(s) ==
  /\ Working(s, "idle")
  /\ work' = [work EXCEPT ![s].pc = IF slot[s].attempt > MaxAttempts THEN "finalize"
                                    ELSE "scrape"]
  /\ UNCHANGED <<queueModuleVars, loop, permits, recommendedVars, resultVars>>

\* prepare_scrape_batch_payload: profiles that were stored lately are not scraped
\* again.  After max_attempts the job is given up without looking.
Prepare(s) ==
  LET j == slot[s].job IN
  /\ Working(s, "idle")
  /\ work' = [work EXCEPT ![s].pc = IF slot[s].attempt > MaxAttempts \/ scraped[j] > 0
                                      THEN "finalize" ELSE "scrape"]
  /\ UNCHANGED <<queueModuleVars, loop, permits, recommendedVars, resultVars>>

\* The rest of execute_job_payload: scraped, stored, and perhaps accounts recommended;
\* a recommended job collects none.
Scrape(s) ==
  LET j == slot[s].job IN
  /\ Working(s, "scrape")
  /\ scraped' = [scraped EXCEPT ![j] = @ + 1]
  /\ executions' = [executions EXCEPT ![j] = @ + 1]
  /\ \E found \in Discovery \cup {{}} :
       /\ j \in InternalJob => found = {}
       /\ work' = [work EXCEPT ![s].pc = IF found = {} THEN "finalize" ELSE "claim",
                               ![s].todo = found]
  /\ UNCHANGED <<queueVars, hash, lease, expired, slot, batch, budget, loop, permits,
                 recommendedVars, accepted, overlap, stolen>>

\* It raises: left pending for the next attempt, after the last one completed as it is.
ScrapeFails(s) ==
  LET j == slot[s].job IN
  /\ Working(s, "scrape")
  /\ executions' = [executions EXCEPT ![j] = @ + 1]
  /\ IF slot[s].attempt < MaxAttempts
       THEN /\ slot' = [slot EXCEPT ![s].pc = "finish"]
            /\ work' = [work EXCEPT ![s] = NoWork]
       ELSE work' = [work EXCEPT ![s].pc = "finalize"] /\ UNCHANGED slot
  /\ UNCHANGED <<queueVars, hash, lease, expired, batch, budget, loop, permits,
                 recommendedVars, resultVars>>

-----------------------------------------------------------------------------
\* enqueue_internal_recommended_jobs

\* SET NX EX of one username after the other.  (The keys live for a day, longer than a
\* behaviour.)
ClaimUsername(s) ==
  /\ Working(s, "claim")
  /\ \E u \in work[s].todo :
       LET claimed == work[s].claimed \cup ({u} \ key)
           todo == work[s].todo \ {u} IN
       /\ key' = key \cup {u}
       /\ work' = [work EXCEPT ![s] =
            IF todo # {} THEN [pc |-> "claim", todo |-> todo, claimed |-> claimed]
            ELSE IF claimed # {} THEN [pc |-> "enqueue", todo |-> {}, claimed |-> claimed]
            ELSE [NoWork EXCEPT !.pc = "finalize"]]
  /\ UNCHANGED <<queueModuleVars, loop, permits, content, leaked, resultVars>>

\* Mutant of Unclaim: the keys of usernames that were not enqueued stay.
UnclaimKept(usernames) == UNCHANGED <<key, leaked>>

\* _release_recommended_usernames, which says nothing when Redis fails it.
Unclaim(usernames) ==
  \/ key' = key \ usernames /\ leaked' = leaked \ usernames
  \/ leaked' = leaked \cup (key \cap usernames) /\ UNCHANGED key

\* One SET fails, though it may have taken effect: those claimed are released, and
\* the job goes on without recommended jobs.
ClaimUsernameFails(s) ==
  /\ Working(s, "claim")
  /\ Spend("dependency")
  /\ \/ Unclaim(work[s].claimed)
     \/ \E u \in work[s].todo \ key : /\ key' = (key \ work[s].claimed) \cup {u}
                                      /\ leaked' = (leaked \ work[s].claimed) \cup {u}
  /\ work' = [work EXCEPT ![s] = [NoWork EXCEPT !.pc = "finalize"]]
  /\ UNCHANGED <<queueVars, hash, lease, expired, slotVars, loop, permits, content,
                 resultVars>>

\* A batch of the claimed usernames, full unless it is the last.
Batch(s, b) ==
  /\ b \subseteq work[s].claimed /\ b # {}
  /\ \/ Cardinality(b) = BatchSize
     \/ b = work[s].claimed /\ Cardinality(b) < BatchSize

WithoutBatch(s, b) ==
  IF b = work[s].claimed THEN work' = [work EXCEPT ![s] = [NoWork EXCEPT !.pc = "finalize"]]
  ELSE work' = [work EXCEPT ![s].claimed = @ \ b]

EnqueueRecommended(r, b) ==
  /\ streamId[r] = 0
  /\ AppendMessage(r)
  /\ content' = [content EXCEPT ![r] = b]
  /\ hash' = [hash EXCEPT ![r] = [NoState EXCEPT !.status = "queued"]]

EnqueueBatch(s) ==
  /\ Working(s, "enqueue")
  /\ \E b \in SUBSET Username, r \in InternalJob :
       /\ Batch(s, b)
       /\ EnqueueRecommended(r, b)
       /\ WithoutBatch(s, b)
  /\ UNCHANGED <<delivered, pel, lease, expired, slotVars, budget, loop, permits, key,
                 leaked, resultVars>>

\* enqueue_job raises, though the job may be in the stream: its usernames are released
\* and the next batch is tried.
EnqueueBatchFails(s) ==
  /\ Working(s, "enqueue")
  /\ Spend("dependency")
  /\ \E b \in SUBSET Username :
       /\ Batch(s, b)
       /\ WithoutBatch(s, b)
       /\ \/ /\ Unclaim(b)
             /\ UNCHANGED <<stream, streamId, content, hash>>
          \/ /\ \E r \in InternalJob : EnqueueRecommended(r, b)
             /\ key' = key \ b /\ leaked' = leaked \ b
  /\ UNCHANGED <<delivered, pel, lease, expired, slotVars, loop, permits, resultVars>>

-----------------------------------------------------------------------------
\* The end of _process_message

\* The lease_lost test; a recommended job is acked without completion.
Finalize(s) ==
  LET lost == slot[s].lost
      internal == slot[s].job \in InternalJob IN
  /\ Working(s, "finalize")
  /\ slot' = [slot EXCEPT ![s].pc = IF lost \/ internal THEN "finish" ELSE "wait",
                          ![s].ack = internal /\ ~lost]
  /\ work' = [work EXCEPT ![s] = NoWork]
  /\ UNCHANGED <<queueVars, hash, lease, expired, batch, executions, budget, loop, permits,
                 recommendedVars, resultVars>>

\* complete_job: nothing here tells one terminal status from the other.
Completed(j) ==
  /\ hash' = [hash EXCEPT ![j].status = "done", ![j].event = TRUE]
  /\ accepted' = accepted \cup {j}

\* It returns, even for a duplicate or a conflict.
CompleteJob(s) ==
  /\ slot[s].pc = "wait"
  /\ Completed(slot[s].job)
  /\ slot' = [slot EXCEPT ![s].pc = "finish", ![s].ack = TRUE]
  /\ UNCHANGED <<queueVars, lease, expired, batch, executions, budget, runnerVars,
                 recommendedVars, scraped, overlap, stolen>>

\* It raises, before or after the terminal status was claimed.
CompleteJobFails(s) ==
  /\ slot[s].pc = "wait"
  /\ Spend("dependency")
  /\ Completed(slot[s].job) \/ UNCHANGED <<hash, accepted>>
  /\ slot' = [slot EXCEPT ![s].pc = "finish"]
  /\ UNCHANGED <<queueVars, lease, expired, batch, executions, runnerVars,
                 recommendedVars, scraped, overlap, stolen>>

-----------------------------------------------------------------------------
\* ApifyRunnerSupervisor and the end of the process

\* start: a new runner with a new semaphore; a failing start is repeated.
Start(w) ==
  /\ loop[w] = "down"
  /\ loop' = [loop EXCEPT ![w] = "acquire"]
  /\ permits' = [permits EXCEPT ![w] = Semaphore(w)]
  /\ UNCHANGED <<queueModuleVars, work, recommendedVars, resultVars>>

\* stop: the loop is cancelled and lets go of its permit, perhaps with an entry that
\* Redis has just handed out; then the tasks are.  (Stops and crashes share a bound.)
Stop(w) ==
  /\ loop[w] \in {"acquire", "poll"}
  /\ Spend("crash")
  /\ loop' = [loop EXCEPT ![w] = "stopping"]
  /\ permits' = IF loop[w] = "poll" THEN Released(w) ELSE permits
  /\ UNCHANGED <<delivered, pel>> \/ (loop[w] = "poll" /\ HandedOut(w))
  /\ UNCHANGED <<stream, streamId, hash, lease, expired, slotVars, work, recommendedVars,
                 resultVars>>

\* CancelledError in start_job ends the task where it is: no except branch of the code
\* catches it, and a lease claimed stays.
CancelStart(s) ==
  /\ loop[WorkerOf[s]] = "stopping" /\ Busy(s)
  /\ slot[s].pc \in {"poll", "discard", "expire", "claim", "write"}
  /\ slot' = [slot EXCEPT ![s] = IdleSlot]
  /\ batch' = [batch EXCEPT ![s] = {}]
  /\ permits' = Released(WorkerOf[s])
  /\ UNCHANGED <<queueVars, hash, lease, expired, executions, budget, loop, work,
                 recommendedVars, resultVars>>

\* Later the finally block finishes the handle without ack; usernames that were claimed
\* and not enqueued keep their keys.
CancelWork(s) ==
  /\ loop[WorkerOf[s]] = "stopping" /\ slot[s].pc \in {"execute", "wait"}
  /\ slot' = [slot EXCEPT ![s].pc = "finish"]
  /\ work' = [work EXCEPT ![s] = NoWork]
  /\ leaked' = leaked \cup (key \cap work[s].claimed)
  /\ \/ UNCHANGED <<hash, accepted>>
     \/ slot[s].pc = "wait" /\ Completed(slot[s].job)
  /\ UNCHANGED <<queueVars, lease, expired, batch, executions, budget, loop, permits,
                 key, content, scraped, overlap, stolen>>

\* In finish_job: the ack may have gone through, then the lease release may have.
CancelFinish(s) ==
  LET j == slot[s].job IN
  /\ loop[WorkerOf[s]] = "stopping"
  /\ \/ /\ slot[s].pc = "finish" /\ slot[s].ack
        /\ pel' = [pel EXCEPT ![j] = NoWorker] \/ UNCHANGED pel
        /\ slot' = [slot EXCEPT ![s].pc = "release"]
        /\ UNCHANGED <<lease, permits>>
     \/ /\ slot[s].pc = "release"
        /\ ReleaseLease(s, j) \/ UNCHANGED lease
        /\ slot' = [slot EXCEPT ![s] = IdleSlot]
        /\ permits' = Released(WorkerOf[s])
        /\ UNCHANGED pel
  /\ Steals(s)
  /\ UNCHANGED <<stream, streamId, delivered, hash, expired, batch, executions, budget,
                 loop, work, recommendedVars, scraped, accepted, overlap>>

Stopped(w) ==
  /\ loop[w] = "stopping" /\ \A s \in SlotsOf(w) : ~Busy(s)
  /\ loop' = [loop EXCEPT ![w] = "down"]
  /\ UNCHANGED <<queueModuleVars, permits, work, recommendedVars, resultVars>>

\* The process dies.
Crash(w) ==
  /\ CrashWorker(w)
  /\ loop' = [loop EXCEPT ![w] = "down"]
  /\ permits' = [permits EXCEPT ![w] = Semaphore(w)]
  /\ work' = [s \in Slot |-> IF WorkerOf[s] = w THEN NoWork ELSE work[s]]
  /\ leaked' = leaked \cup (key \cap UNION {work[s].claimed : s \in SlotsOf(w)})
  /\ UNCHANGED <<key, content, resultVars>>

-----------------------------------------------------------------------------
\* A user's job is enqueued (enqueue_job of create_job).
Submit(j) ==
  /\ j \notin InternalJob /\ streamId[j] = 0
  /\ AppendMessage(j)
  /\ hash' = [hash EXCEPT ![j] = [NoState EXCEPT !.status = "queued"]]
  /\ UNCHANGED <<delivered, pel, lease, expired, slotVars, budget, runnerVars,
                 recommendedVars, resultVars>>

RedisStep ==
  /\ \E j \in Job : LeaseTtlEnds(j) \/ LeaseStalls(j) \/ JobExpires(j)
  /\ UNCHANGED <<runnerVars, recommendedVars, resultVars>>

WorkStep(s) ==
  \/ Prepare(s) \/ Scrape(s) \/ ScrapeFails(s)
  \/ ClaimUsername(s) \/ EnqueueBatch(s)
  \/ Finalize(s) \/ CompleteJob(s)

CancelStep(s) == CancelStart(s) \/ CancelWork(s) \/ CancelFinish(s)

FailStep(s) == ClaimUsernameFails(s) \/ EnqueueBatchFails(s) \/ CompleteJobFails(s)

LoopStep(w) ==
  \/ Acquire(w) \/ PollEmpty(w) \/ PollFails(w)
  \/ \E s \in Slot, j \in Job : PollReturns(w, s, j)

SupervisorStep(w) == Start(w) \/ Stop(w) \/ Stopped(w) \/ Crash(w)

Next ==
  \/ \E w \in Worker : LoopStep(w) \/ SupervisorStep(w)
  \/ \E s \in Slot : RuntimeProgress(s) \/ RuntimeFails(s) \/ WorkStep(s) \/ FailStep(s) \/ CancelStep(s)
  \/ \E j \in Job : Submit(j)
  \/ RedisStep

Spec == Init /\ [][Next]_vars

-----------------------------------------------------------------------------
\* Properties

\* No permit is lost or given back twice: every permit of the semaphore is free, held by
\* the loop while it polls, or by a task, whatever fails, stops or is cancelled.
PermitsAccounted ==
  \A w \in Worker :
    permits[w] + Cardinality({s \in SlotsOf(w) : Busy(s)})
      + (IF loop[w] = "poll" THEN 1 ELSE 0) = Semaphore(w)

\* The types, and the permits of the semaphore.
PermitInv == TypeOK /\ PermitsAccounted

\* The tasks of a process share one lease token.  Still a job has one task working under
\* its lease, unless heartbeats stalled, or a task whose own lease had lapsed released
\* that of another.
OneTaskPerJob ==
  budget["stall"] = MaxFaults["stall"] =>
    \A j \in Job \ stolen : \A s, t \in Slot : Executing(s, j) /\ Executing(t, j) => s = t

\* The paid scrape of a job is not repeated after it was stored, however often the job is
\* redelivered, unless two tasks had it at a time.
ScrapedOnce == \A j \in Job \ overlap : scraped[j] <= 1

\* A dedupe key blocks its username for a day: there is a recommended job with the
\* username, or a task is about to enqueue it, or the key leaked with a failing Redis, a
\* crash or a stop.
KeyMeansQueued ==
  \A u \in key \ leaked :
    \/ \E r \in InternalJob : u \in content[r]
    \/ \E s \in Slot : u \in work[s].claimed
=============================================================================
