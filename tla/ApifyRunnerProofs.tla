------------------------- MODULE ApifyRunnerProofs -------------------------
(***************************************************************************)
(* Proofs about ApifyRunner for every number of processes, tasks, jobs,    *)
(* recommended accounts and faults: the types and the permits of the       *)
(* semaphore, that a dedupe key stands for a recommended job, that a       *)
(* stored scrape is not repeated, and that a job has one task at a time.   *)
(***************************************************************************)
EXTENDS ApifyRunner, FiniteSetTheorems, TLAPS

-----------------------------------------------------------------------------
\* Types

\* The null records of slot, state hash and task have their types.
LEMMA ConstantTypes ==
  /\ IdleSlot \in SlotState /\ IdleSlot.pc = "poll" /\ ~IdleSlot.lost
  /\ NoState \in StateHash /\ [NoState EXCEPT !.status = "queued"] \in StateHash
  /\ NoWork \in WorkState /\ [NoWork EXCEPT !.pc = "finalize"] \in WorkState
  /\ NoWork.pc = "idle" /\ [NoWork EXCEPT !.pc = "finalize"].pc = "finalize"
  /\ NoWork.claimed = {} /\ [NoWork EXCEPT !.pc = "finalize"].claimed = {}
<1>1. IdleSlot \in SlotState /\ IdleSlot.pc = "poll" /\ ~IdleSlot.lost
  BY JobQueueAssumption DEF IdleSlot, SlotState, SlotPc
<1>2. NoState \in StateHash
  BY JobQueueAssumption DEF NoState, StateHash
<1>6. [NoState EXCEPT !.status = "queued"] \in StateHash
  BY <1>2 DEF StateHash
<1>3. NoWork.pc = "idle" /\ NoWork.claimed = {}
  BY DEF NoWork
<1>5. NoWork \in WorkState
  BY DEF NoWork, WorkState
<1>4. /\ [NoWork EXCEPT !.pc = "finalize"] \in WorkState
      /\ [NoWork EXCEPT !.pc = "finalize"].pc = "finalize"
      /\ [NoWork EXCEPT !.pc = "finalize"].claimed = {}
  BY DEF NoWork, WorkState
<1> QED  BY <1>1, <1>2, <1>3, <1>4, <1>5, <1>6

\* Spending a fault leaves a budget of natural numbers.
LEMMA SpendType ==
  ASSUME budget \in [FaultKind -> Nat], NEW kind \in FaultKind, Spend(kind)
  PROVE  /\ budget' \in [FaultKind -> Nat] /\ budget'[kind] < budget[kind]
         /\ \A k \in FaultKind : budget'[k] <= budget[k]
BY DEF Spend

\* write_running_state, complete or cut short, leaves a state hash.
LEMMA RunningStateType ==
  ASSUME NEW h \in StateHash
  PROVE  /\ RunningState(h) \in StateHash /\ [h EXCEPT !.attempts = NextAttempt(@)] \in StateHash
         /\ NextAttempt(h.attempts) \in 0 .. MaxAttempts + 1
<1>1. NextAttempt(h.attempts) \in 0 .. MaxAttempts + 1
  BY JobQueueAssumption DEF NextAttempt, StateHash
<1> QED  BY <1>1 DEF RunningState, StateHash

\* XADD gives the job an entry id and keeps finitely many entries enqueued.
LEMMA AppendMessageType ==
  ASSUME QueueTypeOK, IsFiniteSet(Enqueued), NEW j \in Job, AppendMessage(j)
  PROVE  /\ stream' \subseteq Job /\ streamId' \in [Job -> Nat] /\ IsFiniteSet(Enqueued')
         /\ streamId'[j] # 0 /\ \A k \in Job \ {j} : streamId'[k] = streamId[k]
<1>1. Cardinality(Enqueued) \in Nat
  BY FS_CardinalityType
<1>2. streamId' = [streamId EXCEPT ![j] = Cardinality(Enqueued) + 1]
  BY DEF AppendMessage
<1>3. /\ streamId' \in [Job -> Nat] /\ streamId'[j] # 0
      /\ \A k \in Job \ {j} : streamId'[k] = streamId[k]
  BY <1>1, <1>2 DEF QueueTypeOK
<1>4. Enqueued' \subseteq Enqueued \cup {j}
  BY <1>2 DEF Enqueued, QueueTypeOK
<1>5. IsFiniteSet(Enqueued \cup {j})
  BY FS_AddElement
<1>6. IsFiniteSet(Enqueued')
  BY <1>4, <1>5, FS_Subset
<1>7. stream' \subseteq Job
  BY DEF AppendMessage, QueueTypeOK
<1> QED  BY <1>3, <1>6, <1>7

\* A slot that polls is empty, any other has a job, and a lease is lost only by a task
\* that got it.
SlotShape ==
  \A s \in Slot :
    /\ slot[s].pc = "poll" => slot[s] = IdleSlot
    /\ slot[s].pc # "poll" => slot[s].job \in Job
    /\ slot[s].pc \in {"discard", "expire", "claim", "write"} => ~slot[s].lost

TypeInv == TypeOK /\ IsFiniteSet(Enqueued) /\ SlotShape

Runtime(s) == RuntimeProgress(s) \/ RuntimeFails(s)

\* What a step of JobWorkerRuntime does to the slot that takes it.
RuntimeMove(s) ==
  \/ slot[s].pc \notin {"execute", "wait"} /\ slot'[s] = IdleSlot
  \/ /\ slot[s].pc = "poll" /\ slot'[s].pc \in {"discard", "expire", "claim"}
     /\ slot'[s].job \in Job /\ ~slot'[s].lost
  \/ /\ <<slot[s].pc, slot'[s].pc>> \in
          {<<"claim", "write">>, <<"write", "execute">>, <<"finish", "release">>}
     /\ slot'[s].job = slot[s].job /\ slot'[s].lost = slot[s].lost
  \/ /\ slot[s].pc \in {"execute", "wait"} /\ slot'[s].pc = slot[s].pc
     /\ slot'[s].job = slot[s].job /\ slot'[s].lost

\* A step of JobWorkerRuntime moves its slot only, whose task exists.
LEMMA RuntimeSlot ==
  ASSUME TypeInv, NEW s \in Slot, Runtime(s)
  PROVE  /\ slot' \in [Slot -> SlotState] /\ batch' \in [Slot -> SUBSET Job]
         /\ \A t \in Slot \ {s} : slot'[t] = slot[t] /\ batch'[t] = batch[t]
         /\ RuntimeMove(s) /\ Busy(s)
<1> USE JobQueueAssumption
<1>0. /\ slot \in [Slot -> SlotState] /\ slot[s] \in SlotState
      /\ batch \in [Slot -> SUBSET Job] /\ hash \in [Job -> StateHash]
      /\ slot[s].pc = "poll" => ~slot[s].lost
      /\ slot[s].pc # "poll" => slot[s].job \in Job
      /\ slot[s].pc \in {"discard", "expire", "claim", "write"} => ~slot[s].lost
  BY ConstantTypes DEF TypeInv, TypeOK, QueueTypeOK, SlotShape
<1>1. slot[s].pc # "poll" => Busy(s)
  BY ConstantTypes DEF Busy
<1>2. CASE ReadState(s)
  <2>1. PICK j \in batch[s] :
          /\ batch' = [batch EXCEPT ![s] = @ \ {j}]
          /\ slot' = [slot EXCEPT ![s].job = j,
                                  ![s].pc = IF hash[j].status \in Terminal THEN "discard"
                                            ELSE IF j \in expired THEN "expire" ELSE "claim"]
    BY <1>2 DEF ReadState
  <2>2. j \in Job /\ Busy(s) /\ slot[s].pc = "poll"
    BY <1>0, <1>2, <2>1 DEF Busy, ReadState
  <2> QED  BY <1>0, <2>1, <2>2 DEF RuntimeMove, SlotState, SlotPc
<1>3. CASE DiscardMessage(s) \/ StartJobFails(s) \/ WriteRunningStateFails(s)
           \/ FinishRelease(s) \/ FinishReleaseFails(s)
  <2>1. slot' = [slot EXCEPT ![s] = IdleSlot]
    BY <1>3 DEF DiscardMessage, StartJobFails, WriteRunningStateFails, FinishRelease,
                FinishReleaseFails
  <2>2. PICK b \in SUBSET Job : batch' = [batch EXCEPT ![s] = b]
    <3>1. batch[s] \in SUBSET Job /\ {} \in SUBSET Job
      BY <1>0
    <3>2. UNCHANGED batch => batch' = [batch EXCEPT ![s] = batch[s]]
      BY <1>0
    <3> QED
      BY <1>3, <3>1, <3>2 DEF DiscardMessage, StartJobFails, WriteRunningStateFails, FinishRelease,
                FinishReleaseFails
  <2>3. slot[s].pc # "poll" \/ batch[s] # {}
    BY <1>3 DEF DiscardMessage, StartJobFails, WriteRunningStateFails, FinishRelease,
                FinishReleaseFails
  <2>4. /\ slot' \in [Slot -> SlotState] /\ slot'[s] = IdleSlot
        /\ \A t \in Slot \ {s} : slot'[t] = slot[t]
    BY <1>0, <2>1, ConstantTypes
  <2>5. /\ batch' \in [Slot -> SUBSET Job]
        /\ \A t \in Slot \ {s} : batch'[t] = batch[t]
    BY <1>0, <2>2
  <2>6. Busy(s)
    BY <1>1, <2>3 DEF Busy
  <2>7. slot[s].pc \notin {"execute", "wait"}
    BY <1>3 DEF DiscardMessage, StartJobFails, WriteRunningStateFails, FinishRelease,
                FinishReleaseFails
  <2> QED  BY <2>4, <2>5, <2>6, <2>7 DEF RuntimeMove
<1>4. CASE ClaimLease(s)
  <2>1. UNCHANGED batch /\ slot[s].pc = "claim"
        /\ \/ slot' = [slot EXCEPT ![s].pc = "write"]
           \/ slot' = [slot EXCEPT ![s] = IdleSlot]
    BY <1>4 DEF ClaimLease
  <2>2. CASE slot' = [slot EXCEPT ![s].pc = "write"]
    BY <1>0, <1>1, <2>1, <2>2 DEF RuntimeMove, SlotState, SlotPc
  <2>3. CASE slot' = [slot EXCEPT ![s] = IdleSlot]
    BY <1>0, <1>1, <2>1, <2>3, ConstantTypes DEF RuntimeMove
  <2> QED  BY <2>1, <2>2, <2>3
<1>5. CASE WriteRunningState(s)
  <2>1. /\ UNCHANGED batch /\ slot[s].pc = "write"
        /\ slot' = [slot EXCEPT ![s].pc = "execute",
                                ![s].attempt = NextAttempt(hash[slot[s].job].attempts)]
    BY <1>5 DEF WriteRunningState
  <2>2. NextAttempt(hash[slot[s].job].attempts) \in 0 .. MaxAttempts + 1
    BY <1>0, <2>1, RunningStateType
  <2> QED  BY <1>0, <1>1, <2>1, <2>2 DEF RuntimeMove, SlotState, SlotPc
<1>6. CASE HeartbeatLosesLease(s)
  <2>1. /\ UNCHANGED batch /\ slot[s].pc \in {"execute", "wait"}
        /\ slot' = [slot EXCEPT ![s].lost = TRUE]
    BY <1>6 DEF HeartbeatLosesLease
  <2> QED  BY <1>0, <1>1, <2>1 DEF RuntimeMove, SlotState, SlotPc
<1>7. CASE FinishAck(s) \/ FinishAckFails(s)
  <2>1. /\ UNCHANGED batch /\ slot[s].pc = "finish"
        /\ \/ slot' = [slot EXCEPT ![s].pc = "release"]
           \/ slot' = [slot EXCEPT ![s].pc = "release", ![s].drop = TRUE]
    BY <1>7 DEF FinishAck, FinishAckFails
  <2> QED  BY <1>0, <1>1, <2>1 DEF RuntimeMove, SlotState, SlotPc
<1> QED  BY <1>2, <1>3, <1>4, <1>5, <1>6, <1>7 DEF Runtime, RuntimeProgress, RuntimeFails

\* A step of JobWorkerRuntime keeps the types of the queue.
LEMMA RuntimeTypes ==
  ASSUME TypeInv, NEW s \in Slot, Runtime(s)
  PROVE  QueueTypeOK' /\ UNCHANGED <<streamId, expired, executions>>
<1> USE JobQueueAssumption
<1>0. /\ QueueTypeOK /\ WorkerOf[s] \in Worker
      /\ slot[s].pc # "poll" => slot[s].job \in Job
  BY DEF TypeInv, TypeOK, QueueTypeOK, SlotShape
<1>1. UNCHANGED <<streamId, expired, executions>>
  BY DEF Runtime, RuntimeProgress, RuntimeFails, ReadState, DiscardMessage, ClaimLease,
         StartJobFails, WriteRunningState, WriteRunningStateFails, HeartbeatLosesLease,
         FinishAck, FinishAckFails, FinishRelease, FinishReleaseFails, queueVars
<1>2. stream' \subseteq stream /\ delivered' = delivered
  BY DEF Runtime, RuntimeProgress, RuntimeFails, ReadState, DiscardMessage, ClaimLease,
         StartJobFails, WriteRunningState, WriteRunningStateFails, HeartbeatLosesLease,
         FinishAck, FinishAckFails, FinishRelease, FinishReleaseFails, queueVars, AckMessage
<1>3. pel' \in [Job -> Worker \cup {NoWorker}]
  <2>1. UNCHANGED pel \/ pel' = [pel EXCEPT ![slot[s].job] = NoWorker]
    BY DEF Runtime, RuntimeProgress, RuntimeFails, ReadState, DiscardMessage, ClaimLease,
         StartJobFails, WriteRunningState, WriteRunningStateFails, HeartbeatLosesLease,
         FinishAck, FinishAckFails, FinishRelease, FinishReleaseFails, queueVars, AckMessage
  <2> QED  BY <1>0, <2>1 DEF QueueTypeOK
<1>4. lease' \in [Job -> Worker \cup {NoWorker}]
  <2>1. \/ UNCHANGED lease \/ lease' = [lease EXCEPT ![slot[s].job] = NoWorker]
        \/ lease' = [lease EXCEPT ![slot[s].job] = WorkerOf[s]]
    BY DEF Runtime, RuntimeProgress, RuntimeFails, ReadState, DiscardMessage, ClaimLease,
         StartJobFails, WriteRunningState, WriteRunningStateFails, HeartbeatLosesLease,
         FinishAck, FinishAckFails, FinishRelease, FinishReleaseFails, queueVars, ReleaseLease
  <2> QED  BY <1>0, <2>1 DEF QueueTypeOK
<1>5. hash' \in [Job -> StateHash]
  <2>1. \/ UNCHANGED hash
        \/ /\ slot[s].job \in Job
           /\ \/ hash' = [hash EXCEPT ![slot[s].job] = NoState]
              \/ hash' = [hash EXCEPT ![slot[s].job] = RunningState(@)]
              \/ hash' = [hash EXCEPT ![slot[s].job].attempts = NextAttempt(@)]
    BY <1>0 DEF Runtime, RuntimeProgress, RuntimeFails, ReadState, DiscardMessage, ClaimLease,
         StartJobFails, WriteRunningState, WriteRunningStateFails, HeartbeatLosesLease,
         FinishAck, FinishAckFails, FinishRelease, FinishReleaseFails, queueVars, ExpireState
  <2> QED  BY <1>0, <2>1, ConstantTypes, RunningStateType DEF QueueTypeOK
<1>6. budget' \in [FaultKind -> Nat]
  <2>1. UNCHANGED budget \/ Spend("dependency")
    BY DEF Runtime, RuntimeProgress, RuntimeFails, ReadState, DiscardMessage, ClaimLease,
         StartJobFails, WriteRunningState, WriteRunningStateFails, HeartbeatLosesLease,
         FinishAck, FinishAckFails, FinishRelease, FinishReleaseFails
  <2> QED  BY <1>0, <2>1, SpendType DEF QueueTypeOK, FaultKind
<1>7. slot' \in [Slot -> SlotState] /\ batch' \in [Slot -> SUBSET Job]
  BY RuntimeSlot
<1> QED  BY <1>0, <1>1, <1>2, <1>3, <1>4, <1>5, <1>6, <1>7 DEF QueueTypeOK

\* Tasks work between start_job and finish_job only.
WorkShape == \A s \in Slot : work[s].pc # "idle" => slot[s].pc = "execute"

\* The types under steps of JobWorkerRuntime ...
LEMMA RuntimeTypeInv ==
  ASSUME TypeInv, NEW s \in Slot, Runtime(s)
  PROVE  TypeInv'
<1>1. /\ QueueTypeOK' /\ UNCHANGED streamId /\ IsFiniteSet(Enqueued)
      /\ TypeOK /\ SlotShape /\ WorkerOf[s] \in Worker
  BY RuntimeTypes, JobQueueAssumption DEF TypeInv
<1>2. Surrounding(s)
  BY DEF Runtime, RuntimeProgress, RuntimeFails
<1>3. IsFiniteSet(Enqueued')
  BY <1>1 DEF Enqueued
<1>4. /\ \A t \in Slot \ {s} : slot'[t] = slot[t]
      /\ RuntimeMove(s)
  BY RuntimeSlot
<1>5. SlotShape'
  BY <1>1, <1>4, ConstantTypes DEF SlotShape, RuntimeMove
<1>6. WorkShape'
  BY <1>1, <1>2, <1>4 DEF WorkShape, RuntimeMove, TypeOK, Surrounding
<1>7. permits' \in [Worker -> Nat]
  BY <1>1, <1>2 DEF Surrounding, Released, TypeOK
<1>8. overlap' \subseteq Job /\ stolen' \subseteq Job
  BY <1>1, <1>2 DEF Surrounding, Steals, TypeOK
<1>9. UNCHANGED <<loop, work, key, content, leaked, scraped, accepted>>
  BY <1>2 DEF Surrounding, recommendedVars
<1> QED
  BY <1>1, <1>3, <1>5, <1>6, <1>7, <1>8, <1>9 DEF TypeInv, TypeOK, WorkShape

\* ... of the polling loop ...
LEMMA LoopTypeInv ==
  ASSUME TypeInv, NEW w \in Worker, LoopStep(w)
  PROVE  TypeInv'
<1> USE JobQueueAssumption
<1>0. TypeOK /\ IsFiniteSet(Enqueued) /\ SlotShape
  BY DEF TypeInv
<1>1. /\ UNCHANGED <<stream, streamId, hash, lease, expired, slot, executions, work>>
      /\ UNCHANGED <<key, content, leaked>> /\ UNCHANGED <<scraped, accepted, overlap, stolen>>
  BY DEF LoopStep, Acquire, PollReturns, PollEmpty, PollFails, ReadReclaimed, ReadNew,
         queueModuleVars, queueVars, slotVars, recommendedVars, resultVars
<1>2. permits' \in [Worker -> Nat] /\ loop' \in [Worker -> {"down", "acquire", "poll", "stopping"}]
  <2>1. \/ UNCHANGED permits \/ permits' = Released(w)
        \/ permits[w] > 0 /\ permits' = [permits EXCEPT ![w] = @ - 1]
    BY DEF LoopStep, Acquire, PollReturns, PollEmpty, PollFails
  <2>2. \E l \in {"acquire", "poll"} : loop' = [loop EXCEPT ![w] = l]
    BY DEF LoopStep, Acquire, PollReturns, PollEmpty, PollFails
  <2>3. permits' \in [Worker -> Nat]
    BY <1>0, <2>1 DEF Released, TypeOK
  <2> QED  BY <1>0, <2>2, <2>3 DEF TypeOK
<1>3. budget' \in [FaultKind -> Nat]
  <2>1. UNCHANGED budget \/ Spend("dependency")
    BY DEF LoopStep, Acquire, PollReturns, PollEmpty, PollFails, ReadReclaimed, ReadNew,
           queueModuleVars
  <2> QED  BY <1>0, <2>1, SpendType DEF TypeOK, QueueTypeOK, FaultKind
<1>4. /\ delivered' \subseteq Job /\ pel' \in [Job -> Worker \cup {NoWorker}]
      /\ batch' \in [Slot -> SUBSET Job]
  <2>1. CASE Acquire(w) \/ PollEmpty(w)
    BY <1>0, <2>1 DEF Acquire, PollEmpty, TypeOK, QueueTypeOK, queueModuleVars, queueVars, slotVars
  <2>2. CASE PollFails(w)
    BY <1>0, <2>2 DEF PollFails, HandedOut, TypeOK, QueueTypeOK, slotVars
  <2>3. ASSUME NEW s \in Slot, NEW j \in Job, PollReturns(w, s, j)
        PROVE  /\ delivered' \subseteq Job /\ pel' \in [Job -> Worker \cup {NoWorker}]
               /\ batch' \in [Slot -> SUBSET Job]
    <3>1. CASE ReadReclaimed(s, {j})
      BY <1>0, <3>1 DEF ReadReclaimed, TypeOK, QueueTypeOK
    <3>2. CASE ReadNew(s, j)
      BY <1>0, <3>2 DEF ReadNew, TypeOK, QueueTypeOK
    <3> QED  BY <2>3, <3>1, <3>2 DEF PollReturns
  <2> QED  BY <2>1, <2>2, <2>3 DEF LoopStep
<1>5. SlotShape' /\ IsFiniteSet(Enqueued')
  BY <1>0, <1>1 DEF SlotShape, Enqueued
<1> QED
  BY <1>0, <1>1, <1>2, <1>3, <1>4, <1>5 DEF TypeInv, TypeOK, QueueTypeOK

\* ... of the supervisor and of a crash ...
LEMMA SupervisorTypeInv ==
  ASSUME TypeInv, NEW w \in Worker, SupervisorStep(w)
  PROVE  TypeInv'
<1> USE JobQueueAssumption
<1>0. TypeOK /\ IsFiniteSet(Enqueued) /\ SlotShape /\ IsFiniteSet(Slot)
  BY ApifyAssumption DEF TypeInv
<1>1. /\ UNCHANGED <<stream, streamId, hash, lease, expired, executions, key, content>>
      /\ UNCHANGED <<scraped, accepted, overlap, stolen>>
  BY DEF SupervisorStep, Start, Stop, Stopped, Crash, CrashWorker, queueModuleVars, queueVars,
         slotVars, recommendedVars, resultVars
<1>2. Semaphore(w) \in Nat
  BY <1>0, FS_Subset, FS_CardinalityType DEF Semaphore, SlotsOf
<1>3. permits' \in [Worker -> Nat] /\ loop' \in [Worker -> {"down", "acquire", "poll", "stopping"}]
  BY <1>0, <1>2 DEF SupervisorStep, Start, Stop, Stopped, Crash, Released, TypeOK
<1>4. budget' \in [FaultKind -> Nat]
  BY <1>0, SpendType DEF SupervisorStep, Start, Stop, Stopped, Crash, CrashWorker, TypeOK,
     QueueTypeOK, queueModuleVars, FaultKind
<1>5. delivered' \subseteq Job /\ pel' \in [Job -> Worker \cup {NoWorker}]
  BY <1>0 DEF SupervisorStep, Start, Stop, Stopped, Crash, CrashWorker, HandedOut, TypeOK,
     QueueTypeOK, queueModuleVars, queueVars
<1>6. \/ UNCHANGED <<slot, batch, work, leaked>>
      \/ Crash(w)
  BY DEF SupervisorStep, Start, Stop, Stopped, queueModuleVars, slotVars, recommendedVars
<1>7. /\ slot' \in [Slot -> SlotState] /\ batch' \in [Slot -> SUBSET Job]
      /\ work' \in [Slot -> WorkState] /\ leaked' \subseteq key'
      /\ WorkShape' /\ SlotShape'
  <2>1. CASE UNCHANGED <<slot, batch, work, leaked>>
    BY <1>0, <1>1, <2>1 DEF TypeOK, QueueTypeOK, WorkShape, SlotShape
  <2>2. CASE Crash(w)
    <3>1. /\ slot' = [s \in Slot |-> IF WorkerOf[s] = w THEN IdleSlot ELSE slot[s]]
          /\ batch' = [s \in Slot |-> IF WorkerOf[s] = w THEN {} ELSE batch[s]]
          /\ work' = [s \in Slot |-> IF WorkerOf[s] = w THEN NoWork ELSE work[s]]
          /\ leaked' = leaked \cup (key \cap UNION {work[s].claimed : s \in SlotsOf(w)})
      BY <2>2 DEF Crash, CrashWorker
    <3>2. leaked' \subseteq key'
      BY <1>0, <1>1, <3>1 DEF TypeOK
    <3>3. /\ slot' \in [Slot -> SlotState] /\ batch' \in [Slot -> SUBSET Job]
          /\ work' \in [Slot -> WorkState]
      BY <1>0, <3>1, ConstantTypes DEF TypeOK, QueueTypeOK
    <3>4. WorkShape' /\ SlotShape'
      BY <1>0, <3>1, ConstantTypes DEF TypeOK, QueueTypeOK, WorkShape, SlotShape
    <3> QED  BY <3>2, <3>3, <3>4
  <2> QED  BY <1>6, <2>1, <2>2
<1>8. IsFiniteSet(Enqueued')
  BY <1>0, <1>1 DEF Enqueued
<1> QED
  BY <1>0, <1>1, <1>3, <1>4, <1>5, <1>7, <1>8 DEF TypeInv, TypeOK, QueueTypeOK, WorkShape

\* What a step of the task itself, or its cancellation, does to its slot.
Task(s) == WorkStep(s) \/ FailStep(s) \/ CancelStep(s)
TaskMove(s) ==
  \/ slot'[s] = slot[s]
  \/ /\ <<slot[s].pc, slot'[s].pc>> \in
          {<<"execute", "wait">>, <<"execute", "finish">>, <<"wait", "finish">>,
           <<"finish", "release">>}
     /\ slot'[s].job = slot[s].job /\ slot'[s].lost = slot[s].lost
  \/ slot[s].pc \notin {"execute", "wait"} /\ slot'[s] = IdleSlot

LEMMA TaskSlot ==
  ASSUME TypeInv, NEW s \in Slot, Task(s)
  PROVE  /\ slot' \in [Slot -> SlotState] /\ batch' \in [Slot -> SUBSET Job]
         /\ \A t \in Slot \ {s} : slot'[t] = slot[t] /\ batch'[t] = batch[t]
         /\ TaskMove(s) /\ Busy(s)
<1>0. /\ slot \in [Slot -> SlotState] /\ slot[s] \in SlotState
      /\ batch \in [Slot -> SUBSET Job]
  BY DEF TypeInv, TypeOK, QueueTypeOK
<1>1. slot[s].pc # "poll" => Busy(s)
  BY ConstantTypes DEF Busy
<1>2. CASE Prepare(s) \/ Scrape(s) \/ ClaimUsername(s) \/ EnqueueBatch(s)
           \/ ClaimUsernameFails(s) \/ EnqueueBatchFails(s)
  <2>1. slot[s].pc = "execute" /\ UNCHANGED <<slot, batch>>
    BY <1>2 DEF Prepare, Scrape, ClaimUsername, EnqueueBatch, ClaimUsernameFails,
       EnqueueBatchFails, Working, queueModuleVars, slotVars
  <2> QED  BY <1>0, <1>1, <2>1 DEF TaskMove
<1>3. CASE ScrapeFails(s)
  <2>1. /\ slot[s].pc = "execute" /\ UNCHANGED batch
        /\ UNCHANGED slot \/ slot' = [slot EXCEPT ![s].pc = "finish"]
    BY <1>3 DEF ScrapeFails, Working
  <2> QED  BY <1>0, <1>1, <2>1 DEF TaskMove, SlotState, SlotPc
<1>4. CASE Finalize(s)
  <2> DEFINE ack == slot[s].job \in InternalJob /\ ~slot[s].lost
  <2>1. /\ slot[s].pc = "execute" /\ UNCHANGED batch /\ ack \in BOOLEAN
        /\ \E p \in {"wait", "finish"} : slot' = [slot EXCEPT ![s].pc = p, ![s].ack = ack]
    BY <1>4 DEF Finalize, Working
  <2> HIDE DEF ack
  <2>2. PICK p \in {"wait", "finish"} : slot' = [slot EXCEPT ![s].pc = p, ![s].ack = ack]
    BY <2>1
  <2>3. slot' = [slot EXCEPT ![s] = [slot[s] EXCEPT !.pc = p, !.ack = ack]]
    BY <1>0, <2>2
  <2>4. /\ [slot[s] EXCEPT !.pc = p, !.ack = ack] \in SlotState
        /\ [slot[s] EXCEPT !.pc = p, !.ack = ack].pc = p
        /\ [slot[s] EXCEPT !.pc = p, !.ack = ack].job = slot[s].job
        /\ [slot[s] EXCEPT !.pc = p, !.ack = ack].lost = slot[s].lost
    BY <1>0, <2>1 DEF SlotState, SlotPc
  <2>5. PICK new \in SlotState : /\ slot' = [slot EXCEPT ![s] = new]
                                 /\ new.pc = p /\ new.job = slot[s].job /\ new.lost = slot[s].lost
    BY <2>3, <2>4
  <2>6. slot' \in [Slot -> SlotState] /\ slot'[s] = new /\ \A t \in Slot \ {s} : slot'[t] = slot[t]
    BY <1>0, <2>5
  <2>7. TaskMove(s)
    BY <2>1, <2>5, <2>6 DEF TaskMove
  <2> QED  BY <1>0, <1>1, <2>1, <2>6, <2>7
<1>5. CASE CompleteJob(s) \/ CompleteJobFails(s)
  <2>1. /\ slot[s].pc = "wait" /\ UNCHANGED batch
        /\ \/ slot' = [slot EXCEPT ![s].pc = "finish", ![s].ack = TRUE]
           \/ slot' = [slot EXCEPT ![s].pc = "finish"]
    BY <1>5 DEF CompleteJob, CompleteJobFails
  <2> QED  BY <1>0, <1>1, <2>1 DEF TaskMove, SlotState, SlotPc
<1>6. CASE CancelStart(s)
  <2>1. /\ slot[s].pc \notin {"execute", "wait"} /\ Busy(s)
        /\ slot' = [slot EXCEPT ![s] = IdleSlot] /\ batch' = [batch EXCEPT ![s] = {}]
    BY <1>6 DEF CancelStart
  <2> QED  BY <1>0, <2>1, ConstantTypes DEF TaskMove
<1>7. CASE CancelWork(s)
  <2>1. /\ slot[s].pc \in {"execute", "wait"} /\ UNCHANGED batch
        /\ slot' = [slot EXCEPT ![s].pc = "finish"]
    BY <1>7 DEF CancelWork
  <2> QED  BY <1>0, <1>1, <2>1 DEF TaskMove, SlotState, SlotPc
<1>8. CASE CancelFinish(s)
  <2>1. /\ UNCHANGED batch
        /\ \/ slot[s].pc = "finish" /\ slot' = [slot EXCEPT ![s].pc = "release"]
           \/ slot[s].pc = "release" /\ slot' = [slot EXCEPT ![s] = IdleSlot]
    BY <1>8 DEF CancelFinish
  <2> QED  BY <1>0, <1>1, <2>1, ConstantTypes DEF TaskMove, SlotState, SlotPc
<1> QED
  BY <1>2, <1>3, <1>4, <1>5, <1>6, <1>7, <1>8 DEF Task, WorkStep, FailStep, CancelStep

\* What a task's step does to its execution: it goes on, ends, or drops what it claimed.
LEMMA TaskWork ==
  ASSUME TypeInv, NEW s \in Slot, Task(s)
  PROVE  /\ work' \in [Slot -> WorkState]
         /\ \A t \in Slot \ {s} : work'[t] = work[t]
         /\ work'[s].pc # "idle" => slot'[s].pc = "execute"
<1>0. /\ work \in [Slot -> WorkState] /\ work[s] \in WorkState
      /\ work[s].pc # "idle" => slot[s].pc = "execute"
      /\ Discovery \subseteq SUBSET Username
  BY ApifyAssumption DEF TypeInv, TypeOK
<1>1. CASE Prepare(s) \/ Scrape(s) \/ ClaimUsername(s) \/ EnqueueBatch(s)
           \/ ClaimUsernameFails(s) \/ EnqueueBatchFails(s)
  <2>1. slot[s].pc = "execute" /\ UNCHANGED slot
    BY <1>1 DEF Prepare, Scrape, ClaimUsername, EnqueueBatch, ClaimUsernameFails,
       EnqueueBatchFails, Working, queueModuleVars, slotVars
  <2>2. \E r \in WorkState : work' = [work EXCEPT ![s] = r]
    <3>1. CASE Prepare(s)
      <4>1. PICK p \in {"finalize", "scrape"} : work' = [work EXCEPT ![s].pc = p]
        BY <3>1 DEF Prepare
      <4>2. [work[s] EXCEPT !.pc = p] \in WorkState
        BY <1>0 DEF WorkState
      <4> QED  BY <1>0, <4>1, <4>2
    <3>2. CASE Scrape(s)
      <4>1. PICK found \in SUBSET Username, p \in {"finalize", "claim"} :
              work' = [work EXCEPT ![s].pc = p, ![s].todo = found]
        BY <1>0, <3>2 DEF Scrape
      <4>2. [work[s] EXCEPT !.pc = p, !.todo = found] \in WorkState
        BY <1>0 DEF WorkState
      <4> QED  BY <1>0, <4>1, <4>2
    <3>3. CASE ClaimUsername(s)
      <4>1. PICK u \in work[s].todo :
              work' = [work EXCEPT ![s] =
                IF work[s].todo \ {u} # {}
                  THEN [pc |-> "claim", todo |-> work[s].todo \ {u},
                        claimed |-> work[s].claimed \cup ({u} \ key)]
                ELSE IF work[s].claimed \cup ({u} \ key) # {}
                  THEN [pc |-> "enqueue", todo |-> {},
                        claimed |-> work[s].claimed \cup ({u} \ key)]
                ELSE [NoWork EXCEPT !.pc = "finalize"]]
        BY <3>3 DEF ClaimUsername
      <4>2. u \in Username /\ work[s].todo \in SUBSET Username /\ work[s].claimed \in SUBSET Username
        BY <1>0 DEF WorkState
      <4>3. \A c \in SUBSET Username, d \in SUBSET Username :
              /\ [pc |-> "claim", todo |-> d, claimed |-> c] \in WorkState
              /\ [pc |-> "enqueue", todo |-> {}, claimed |-> c] \in WorkState
        BY DEF WorkState
      <4>4. work[s].todo \ {u} \in SUBSET Username /\ work[s].claimed \cup ({u} \ key) \in SUBSET Username
        BY <4>2
      <4> QED  BY <4>1, <4>3, <4>4, ConstantTypes
    <3>4. CASE ClaimUsernameFails(s)
      BY <3>4, ConstantTypes DEF ClaimUsernameFails
    <3>5. CASE EnqueueBatch(s) \/ EnqueueBatchFails(s)
      <4>1. PICK b \in SUBSET Username : WithoutBatch(s, b)
        BY <3>5 DEF EnqueueBatch, EnqueueBatchFails
      <4>2. [work[s] EXCEPT !.claimed = @ \ b] \in WorkState
        BY <1>0 DEF WorkState
      <4>3. CASE b = work[s].claimed
        BY <4>1, <4>3, ConstantTypes DEF WithoutBatch
      <4>4. CASE b # work[s].claimed
        BY <1>0, <4>1, <4>2, <4>4 DEF WithoutBatch
      <4> QED  BY <4>3, <4>4
    <3> QED  BY <1>1, <3>1, <3>2, <3>3, <3>4, <3>5
  <2> QED  BY <1>0, <2>1, <2>2
<1>2. CASE ScrapeFails(s)
  <2>1. \/ work' = [work EXCEPT ![s] = NoWork]
        \/ work' = [work EXCEPT ![s].pc = "finalize"] /\ slot' = slot /\ slot[s].pc = "execute"
    BY <1>2 DEF ScrapeFails, Working
  <2>2. [work[s] EXCEPT !.pc = "finalize"] \in WorkState
    BY <1>0 DEF WorkState
  <2> QED  BY <1>0, <2>1, <2>2, ConstantTypes
<1>3. CASE Finalize(s) \/ CancelWork(s)
  <2>1. work' = [work EXCEPT ![s] = NoWork]
    BY <1>3 DEF Finalize, CancelWork
  <2> QED  BY <1>0, <2>1, ConstantTypes
<1>4. CASE CompleteJob(s) \/ CompleteJobFails(s) \/ CancelStart(s) \/ CancelFinish(s)
  <2>1. UNCHANGED work /\ slot[s].pc # "execute"
    BY <1>4 DEF CompleteJob, CompleteJobFails, CancelStart, CancelFinish, runnerVars
  <2> QED  BY <1>0, <2>1
<1> QED
  BY <1>1, <1>2, <1>3, <1>4 DEF Task, WorkStep, FailStep, CancelStep

\* ... of the tasks ...
LEMMA TaskTypeInv ==
  ASSUME TypeInv, NEW s \in Slot, Task(s)
  PROVE  TypeInv'
<1> USE JobQueueAssumption
<1>0. /\ TypeOK /\ IsFiniteSet(Enqueued) /\ SlotShape /\ QueueTypeOK
      /\ slot[s].pc # "poll" => slot[s].job \in Job
      /\ WorkerOf[s] \in Worker /\ work[s] \in WorkState
  BY DEF TypeInv, TypeOK, QueueTypeOK, SlotShape
<1>1. /\ slot' \in [Slot -> SlotState] /\ batch' \in [Slot -> SUBSET Job]
      /\ \A t \in Slot \ {s} : slot'[t] = slot[t] /\ batch'[t] = batch[t]
      /\ TaskMove(s)
  BY TaskSlot
<1>2. /\ work' \in [Slot -> WorkState] /\ \A t \in Slot \ {s} : work'[t] = work[t]
      /\ work'[s].pc # "idle" => slot'[s].pc = "execute"
  BY TaskWork
<1>3. WorkShape' /\ SlotShape'
  BY <1>0, <1>1, <1>2, ConstantTypes DEF WorkShape, SlotShape, TypeOK, TaskMove
<1>4. UNCHANGED <<loop, delivered, expired>>
  BY DEF Task, WorkStep, FailStep, CancelStep, Prepare, Scrape, ScrapeFails, ClaimUsername,
         ClaimUsernameFails, EnqueueBatch, EnqueueBatchFails, Finalize, CompleteJob,
         CompleteJobFails, CancelStart, CancelWork, CancelFinish, queueModuleVars, queueVars,
         runnerVars
<1>5. permits' \in [Worker -> Nat]
  <2>1. UNCHANGED permits \/ permits' = Released(WorkerOf[s])
    BY DEF Task, WorkStep, FailStep, CancelStep, Prepare, Scrape, ScrapeFails, ClaimUsername,
         ClaimUsernameFails, EnqueueBatch, EnqueueBatchFails, Finalize, CompleteJob,
         CompleteJobFails, CancelStart, CancelWork, CancelFinish, runnerVars
  <2> QED  BY <1>0, <2>1 DEF Released, TypeOK
<1>6. budget' \in [FaultKind -> Nat]
  <2>1. UNCHANGED budget \/ Spend("dependency")
    BY DEF Task, WorkStep, FailStep, CancelStep, Prepare, Scrape, ScrapeFails, ClaimUsername,
         ClaimUsernameFails, EnqueueBatch, EnqueueBatchFails, Finalize, CompleteJob,
         CompleteJobFails, CancelStart, CancelWork, CancelFinish, queueModuleVars
  <2> QED  BY <1>0, <2>1, SpendType DEF QueueTypeOK, FaultKind
<1>7. scraped' \in [Job -> Nat] /\ executions' \in [Job -> Nat]
  <2>1. /\ UNCHANGED scraped \/ scraped' = [scraped EXCEPT ![slot[s].job] = @ + 1]
        /\ UNCHANGED executions \/ executions' = [executions EXCEPT ![slot[s].job] = @ + 1]
    BY DEF Task, WorkStep, FailStep, CancelStep, Prepare, Scrape, ScrapeFails, ClaimUsername,
         ClaimUsernameFails, EnqueueBatch, EnqueueBatchFails, Finalize, CompleteJob,
         CompleteJobFails, CancelStart, CancelWork, CancelFinish, queueModuleVars, slotVars,
         resultVars
  <2> QED  BY <1>0, <2>1 DEF TypeOK, QueueTypeOK
<1>8. /\ accepted' \subseteq Job /\ overlap' = overlap /\ stolen' \subseteq Job
  <2>1. /\ UNCHANGED accepted \/ (accepted' = accepted \cup {slot[s].job} /\ slot[s].pc = "wait")
        /\ UNCHANGED overlap /\ (UNCHANGED stolen \/ Steals(s))
    BY DEF Task, WorkStep, FailStep, CancelStep, Prepare, Scrape, ScrapeFails, ClaimUsername,
         ClaimUsernameFails, EnqueueBatch, EnqueueBatchFails, Finalize, CompleteJob,
         CompleteJobFails, CancelStart, CancelWork, CancelFinish, Completed, resultVars
  <2> QED  BY <1>0, <2>1 DEF TypeOK, Steals
<1>9. /\ pel' \in [Job -> Worker \cup {NoWorker}] /\ lease' \in [Job -> Worker \cup {NoWorker}]
  <2>1. /\ UNCHANGED pel \/ pel' = [pel EXCEPT ![slot[s].job] = NoWorker]
        /\ UNCHANGED lease \/ lease' = [lease EXCEPT ![slot[s].job] = NoWorker]
    BY DEF Task, WorkStep, FailStep, CancelStep, Prepare, Scrape, ScrapeFails, ClaimUsername,
         ClaimUsernameFails, EnqueueBatch, EnqueueBatchFails, Finalize, CompleteJob,
         CompleteJobFails, CancelStart, CancelWork, CancelFinish, ReleaseLease,
         queueModuleVars, queueVars
  <2> QED  BY <1>0, <2>1 DEF QueueTypeOK
<1>10. /\ hash' \in [Job -> StateHash] /\ stream' \subseteq Job /\ streamId' \in [Job -> Nat]
       /\ IsFiniteSet(Enqueued') /\ content' \in [InternalJob -> SUBSET Username]
  <2>1. CASE EnqueueBatch(s) \/ EnqueueBatchFails(s)
    <3>1. CASE UNCHANGED <<stream, streamId, content, hash>>
      BY <1>0, <3>1 DEF TypeOK, QueueTypeOK, Enqueued
    <3>2. ASSUME NEW r \in InternalJob, NEW b \in SUBSET Username, EnqueueRecommended(r, b)
          PROVE  /\ hash' \in [Job -> StateHash] /\ stream' \subseteq Job
                 /\ streamId' \in [Job -> Nat] /\ IsFiniteSet(Enqueued')
                 /\ content' \in [InternalJob -> SUBSET Username]
      BY <1>0, <3>2, AppendMessageType, ConstantTypes DEF EnqueueRecommended, TypeOK, QueueTypeOK
    <3> QED  BY <2>1, <3>1, <3>2 DEF EnqueueBatch, EnqueueBatchFails
  <2>2. CASE CompleteJob(s) \/ CompleteJobFails(s) \/ CancelWork(s)
    <3>1. UNCHANGED hash \/ (Completed(slot[s].job) /\ slot[s].pc = "wait")
      BY <2>2 DEF CompleteJob, CompleteJobFails, CancelWork
    <3>2. hash' \in [Job -> StateHash]
      BY <1>0, <3>1 DEF Completed, QueueTypeOK, StateHash, Terminal
    <3> QED
      BY <1>0, <2>2, <3>2 DEF CompleteJob, CompleteJobFails, CancelWork, queueVars,
         recommendedVars, TypeOK, QueueTypeOK, Enqueued
  <2>3. CASE \/ Prepare(s) \/ Scrape(s) \/ ScrapeFails(s) \/ ClaimUsername(s)
             \/ ClaimUsernameFails(s) \/ Finalize(s) \/ CancelStart(s) \/ CancelFinish(s)
    <3>1. UNCHANGED <<hash, streamId, content>> /\ stream' \subseteq stream
      BY <2>3 DEF Prepare, Scrape, ScrapeFails, ClaimUsername, ClaimUsernameFails, Finalize,
         CancelStart, CancelFinish, queueModuleVars, queueVars, recommendedVars
    <3> QED  BY <1>0, <3>1 DEF TypeOK, QueueTypeOK, Enqueued
  <2> QED  BY <2>1, <2>2, <2>3 DEF Task, WorkStep, FailStep, CancelStep
<1>11. key' \subseteq Username /\ leaked' \subseteq key'
  <2>1. /\ work[s].todo \subseteq Username /\ key \subseteq Username /\ leaked \subseteq key
    BY <1>0 DEF TypeOK, WorkState
  <2>2. CASE ClaimUsername(s)
    BY <2>1, <2>2 DEF ClaimUsername
  <2>3. CASE ClaimUsernameFails(s)
    BY <2>1, <2>3 DEF ClaimUsernameFails, Unclaim
  <2>4. CASE EnqueueBatchFails(s)
    BY <2>1, <2>4 DEF EnqueueBatchFails, Unclaim
  <2>5. CASE CancelWork(s)
    BY <2>1, <2>5 DEF CancelWork
  <2>6. CASE \/ Prepare(s) \/ Scrape(s) \/ ScrapeFails(s) \/ EnqueueBatch(s) \/ Finalize(s)
             \/ CompleteJob(s) \/ CompleteJobFails(s) \/ CancelStart(s) \/ CancelFinish(s)
    BY <2>1, <2>6 DEF Prepare, Scrape, ScrapeFails, EnqueueBatch, Finalize, CompleteJob,
       CompleteJobFails, CancelStart, CancelFinish, recommendedVars
  <2> QED  BY <2>2, <2>3, <2>4, <2>5, <2>6 DEF Task, WorkStep, FailStep, CancelStep
<1> QED
  BY <1>0, <1>1, <1>2, <1>3, <1>4, <1>5, <1>6, <1>7, <1>8, <1>9, <1>10, <1>11
     DEF TypeInv, TypeOK, QueueTypeOK, WorkShape

\* What comes from outside the processes: users' jobs, and Redis ending leases and jobs.
Outside == (\E j \in Job : Submit(j)) \/ RedisStep

LEMMA OutsideFrame ==
  ASSUME Outside
  PROVE  UNCHANGED <<delivered, pel, slotVars, runnerVars, recommendedVars, resultVars>>
BY DEF Outside, Submit, RedisStep, LeaseTtlEnds, LeaseStalls, JobExpires, queueVars

\* ... and from outside.
LEMMA OutsideTypeInv ==
  ASSUME TypeInv, Outside
  PROVE  TypeInv'
<1>0. TypeOK /\ IsFiniteSet(Enqueued) /\ SlotShape /\ QueueTypeOK
  BY DEF TypeInv, TypeOK
<1>1. /\ UNCHANGED <<delivered, pel, slot, batch, executions>> /\ UNCHANGED <<loop, permits, work>>
      /\ UNCHANGED <<key, content, leaked>> /\ UNCHANGED <<scraped, accepted, overlap, stolen>>
  BY OutsideFrame DEF slotVars, runnerVars, recommendedVars, resultVars
<1>2. CASE \E j \in Job : Submit(j)
  <2>1. PICK j \in Job : AppendMessage(j) /\ UNCHANGED <<lease, expired, budget>>
                         /\ hash' = [hash EXCEPT ![j] = [NoState EXCEPT !.status = "queued"]]
    BY <1>2 DEF Submit
  <2>2. hash' \in [Job -> StateHash]
    BY <1>0, <2>1, ConstantTypes DEF QueueTypeOK
  <2>3. stream' \subseteq Job /\ streamId' \in [Job -> Nat] /\ IsFiniteSet(Enqueued')
    BY <1>0, <2>1, AppendMessageType
  <2> QED  BY <1>0, <1>1, <2>1, <2>2, <2>3 DEF TypeInv, TypeOK, QueueTypeOK, SlotShape
<1>3. CASE RedisStep
  <2>1. PICK j \in Job : LeaseTtlEnds(j) \/ LeaseStalls(j) \/ JobExpires(j)
    BY <1>3 DEF RedisStep
  <2>2. UNCHANGED <<stream, streamId>>
    BY <2>1 DEF LeaseTtlEnds, LeaseStalls, JobExpires, queueVars
  <2>3. lease' \in [Job -> Worker \cup {NoWorker}]
    BY <1>0, <2>1 DEF LeaseTtlEnds, LeaseStalls, JobExpires, QueueTypeOK
  <2>4. hash' \in [Job -> StateHash] /\ expired' \subseteq Job
    BY <1>0, <2>1, ConstantTypes DEF LeaseTtlEnds, LeaseStalls, JobExpires, QueueTypeOK
  <2>5. budget' \in [FaultKind -> Nat]
    <3>1. UNCHANGED budget \/ Spend("stall") \/ Spend("expiry")
      BY <2>1 DEF LeaseTtlEnds, LeaseStalls, JobExpires
    <3> QED  BY <1>0, <3>1, SpendType DEF QueueTypeOK, FaultKind
  <2>6. IsFiniteSet(Enqueued')
    BY <1>0, <2>2 DEF Enqueued
  <2> QED
    BY <1>0, <1>1, <2>2, <2>3, <2>4, <2>5, <2>6 DEF TypeInv, TypeOK, QueueTypeOK, SlotShape
<1> QED  BY <1>2, <1>3 DEF Outside

\* The four kinds of steps.
LEMMA NextKinds ==
  Next <=> \/ \E w \in Worker : LoopStep(w) \/ SupervisorStep(w)
           \/ \E s \in Slot : Runtime(s) \/ Task(s)
           \/ Outside
BY DEF Next, Runtime, Task, Outside

LEMMA InitTypeInv == Init => TypeInv
<1> SUFFICES ASSUME Init PROVE TypeInv
  OBVIOUS
<1> USE JobQueueAssumption, ConstantTypes
<1>1. QueueTypeOK
  BY DEF Init, QueueInit, QueueTypeOK
<1>2. \A w \in Worker : Semaphore(w) \in Nat
  BY ApifyAssumption, FS_Subset, FS_CardinalityType DEF Semaphore, SlotsOf
<1>3. TypeOK
  BY <1>1, <1>2 DEF Init, TypeOK
<1>4. Enqueued = {}
  BY DEF Init, QueueInit, Enqueued
<1>5. SlotShape
  BY DEF Init, QueueInit, SlotShape
<1> QED  BY <1>3, <1>4, <1>5, FS_EmptySet DEF TypeInv

LEMMA NextTypeInv == TypeInv /\ [Next]_vars => TypeInv'
<1> SUFFICES ASSUME TypeInv, [Next]_vars PROVE TypeInv'
  OBVIOUS
<1>1. CASE Next
  BY <1>1, NextKinds, LoopTypeInv, SupervisorTypeInv, RuntimeTypeInv, TaskTypeInv, OutsideTypeInv
<1>2. CASE UNCHANGED vars
  BY <1>2 DEF vars, queueModuleVars, queueVars, slotVars, runnerVars, recommendedVars,
     resultVars, TypeInv, TypeOK, QueueTypeOK, SlotShape, Enqueued
<1> QED  BY <1>1, <1>2

\* Every variable keeps its type; a slot that polls is empty, and a lease is lost only
\* by a task that got it.
THEOREM Typed == Spec => []TypeInv
BY InitTypeInv, NextTypeInv, PTL DEF Spec

-----------------------------------------------------------------------------
\* The permits of the semaphore

\* The tasks a process has.
Tasks(w) == {s \in SlotsOf(w) : Busy(s)}

\* A stopped process has no task, and a task holds one message, first in its batch and
\* from read_state on in its slot.
TaskShape ==
  /\ \A s \in Slot : loop[WorkerOf[s]] = "down" => ~Busy(s)
  /\ \A s \in Slot : /\ slot[s].pc # "poll" => batch[s] = {}
                     /\ \A i, j \in batch[s] : i = j

PermitsInv == TypeInv /\ TaskShape /\ PermitsAccounted

LEMMA TasksFinite ==
  ASSUME NEW w \in Worker
  PROVE  /\ IsFiniteSet(Tasks(w)) /\ Cardinality(Tasks(w)) \in Nat
         /\ Semaphore(w) \in Nat /\ Semaphore(w)' = Semaphore(w)
<1>1. Tasks(w) \subseteq Slot /\ SlotsOf(w) \subseteq Slot
  BY DEF Tasks, SlotsOf
<1> QED
  BY <1>1, ApifyAssumption, FS_Subset, FS_CardinalityType DEF Semaphore, SlotsOf

\* One slot's step keeps the permits when it gives its permit back exactly as its task
\* ends.
LEMMA SlotPermits ==
  ASSUME PermitsInv, NEW s \in Slot, Busy(s), UNCHANGED loop,
         \A t \in Slot \ {s} : slot'[t] = slot[t] /\ batch'[t] = batch[t],
         permits' = IF Busy(s)' THEN permits ELSE Released(WorkerOf[s])
  PROVE  /\ PermitsAccounted'
         /\ \A t \in Slot : loop'[WorkerOf[t]] = "down" => ~Busy(t)'
<1>1. \A t \in Slot \ {s} : Busy(t)' <=> Busy(t)
  BY DEF Busy
<1>2. \A t \in Slot : loop'[WorkerOf[t]] = "down" => ~Busy(t)'
  BY <1>1 DEF PermitsInv, TaskShape
<1>3. ASSUME NEW w \in Worker
      PROVE  permits'[w] + Cardinality(Tasks(w)') + (IF loop'[w] = "poll" THEN 1 ELSE 0)
               = Semaphore(w)
  <2>1. permits[w] + Cardinality(Tasks(w)) + (IF loop[w] = "poll" THEN 1 ELSE 0) = Semaphore(w)
        /\ permits \in [Worker -> Nat]
    BY DEF PermitsInv, PermitsAccounted, Tasks, TypeInv, TypeOK
  <2>2. CASE Busy(s)'
    <3>1. Tasks(w)' = Tasks(w)
      BY <1>1, <2>2 DEF Tasks, SlotsOf
    <3> QED  BY <2>1, <2>2, <3>1
  <2>3. CASE ~Busy(s)' /\ WorkerOf[s] # w
    <3>1. Tasks(w)' = Tasks(w)
      BY <1>1, <2>3 DEF Tasks, SlotsOf
    <3>2. permits'[w] = permits[w]
      BY <2>1, <2>3 DEF Released
    <3> QED  BY <2>1, <3>1, <3>2
  <2>4. CASE ~Busy(s)' /\ WorkerOf[s] = w
    <3>1. Tasks(w)' = Tasks(w) \ {s} /\ s \in Tasks(w)
      BY <1>1, <2>4 DEF Tasks, SlotsOf
    <3>2. /\ Cardinality(Tasks(w)') = Cardinality(Tasks(w)) - 1
          /\ Cardinality(Tasks(w)) \in Nat
      BY <3>1, TasksFinite, FS_RemoveElement
    <3>3. permits'[w] = permits[w] + 1
      BY <2>1, <2>4 DEF Released
    <3> QED  BY <2>1, <3>2, <3>3, TasksFinite
  <2> QED  BY <2>2, <2>3, <2>4
<1>4. PermitsAccounted'
  BY <1>3, TasksFinite DEF PermitsAccounted, Tasks
<1> QED  BY <1>2, <1>4

\* The tasks' own steps do.
LEMMA TaskPermits ==
  ASSUME PermitsInv, NEW s \in Slot, Task(s)
  PROVE  /\ permits' = IF Busy(s)' THEN permits ELSE Released(WorkerOf[s])
         /\ UNCHANGED loop
<1>0. /\ slot \in [Slot -> SlotState] /\ batch \in [Slot -> SUBSET Job]
      /\ slot[s].pc # "poll" => batch[s] = {}
  BY DEF PermitsInv, TypeInv, TypeOK, QueueTypeOK, TaskShape
<1>1. UNCHANGED loop
  BY DEF Task, WorkStep, FailStep, CancelStep, Prepare, Scrape, ScrapeFails, ClaimUsername,
         ClaimUsernameFails, EnqueueBatch, EnqueueBatchFails, Finalize, CompleteJob,
         CompleteJobFails, CancelStart, CancelWork, CancelFinish, runnerVars
<1>2. \A t \in Slot : slot'[t].pc # "poll" => Busy(t)'
  BY ConstantTypes DEF Busy
<1>3. TaskMove(s)
  BY TaskSlot DEF PermitsInv
<1>4. CASE CancelStart(s)
  <2>1. slot'[s] = IdleSlot /\ batch'[s] = {} /\ permits' = Released(WorkerOf[s])
    <3>1. /\ slot' = [slot EXCEPT ![s] = IdleSlot] /\ batch' = [batch EXCEPT ![s] = {}]
          /\ permits' = Released(WorkerOf[s])
      BY <1>4 DEF CancelStart
    <3> QED  BY <1>0, <3>1
  <2> QED  BY <1>1, <2>1 DEF Busy
<1>5. CASE CancelFinish(s)
  <2>1. \/ slot'[s].pc = "release" /\ UNCHANGED permits
        \/ slot'[s] = IdleSlot /\ batch'[s] = {} /\ permits' = Released(WorkerOf[s])
    <3>1. /\ slot[s].pc # "poll" /\ UNCHANGED batch
          /\ \/ slot' = [slot EXCEPT ![s].pc = "release"] /\ UNCHANGED permits
             \/ slot' = [slot EXCEPT ![s] = IdleSlot] /\ permits' = Released(WorkerOf[s])
      BY <1>5 DEF CancelFinish
    <3>2. slot[s] \in SlotState /\ batch'[s] = {}
      BY <1>0, <3>1
    <3>3. CASE slot' = [slot EXCEPT ![s].pc = "release"] /\ UNCHANGED permits
      BY <1>0, <3>2, <3>3 DEF SlotState
    <3>4. CASE slot' = [slot EXCEPT ![s] = IdleSlot] /\ permits' = Released(WorkerOf[s])
      BY <1>0, <3>2, <3>4
    <3> QED  BY <3>1, <3>3, <3>4
  <2>2. CASE slot'[s].pc = "release" /\ UNCHANGED permits
    <3>1. Busy(s)'
      BY <1>2, <2>2
    <3> QED  BY <1>1, <2>2, <3>1
  <2>3. CASE slot'[s] = IdleSlot /\ batch'[s] = {} /\ permits' = Released(WorkerOf[s])
    BY <1>1, <2>3 DEF Busy
  <2> QED  BY <2>1, <2>2, <2>3
<1>6. CASE WorkStep(s) \/ FailStep(s) \/ CancelWork(s)
  <2>1. slot[s].pc \in {"execute", "wait"} /\ UNCHANGED permits
    BY <1>6 DEF WorkStep, FailStep, Prepare, Scrape, ScrapeFails, ClaimUsername,
         ClaimUsernameFails, EnqueueBatch, EnqueueBatchFails, Finalize, CompleteJob,
         CompleteJobFails, CancelWork, runnerVars, Working
  <2>2. slot'[s].pc # "poll"
    BY <1>3, <2>1 DEF TaskMove
  <2> QED  BY <1>1, <1>2, <2>1, <2>2
<1> QED  BY <1>4, <1>5, <1>6 DEF Task, CancelStep

\* A slot's step leaves at most one message with its task.
LEMMA SlotTaskShape ==
  ASSUME PermitsInv, NEW s \in Slot, Runtime(s) \/ Task(s)
  PROVE  \A t \in Slot : /\ slot'[t].pc # "poll" => batch'[t] = {}
                         /\ \A i, j \in batch'[t] : i = j
<1>0. /\ slot \in [Slot -> SlotState] /\ batch \in [Slot -> SUBSET Job] /\ TypeInv
      /\ \A t \in Slot : /\ slot[t].pc # "poll" => batch[t] = {}
                         /\ \A i, j \in batch[t] : i = j
  BY DEF PermitsInv, TypeInv, TypeOK, QueueTypeOK, TaskShape
<1>1. \A t \in Slot \ {s} : slot'[t] = slot[t] /\ batch'[t] = batch[t]
  BY <1>0, RuntimeSlot, TaskSlot
<1>2. CASE ReadState(s)
  <2>1. PICK j \in batch[s] : batch' = [batch EXCEPT ![s] = @ \ {j}]
    BY <1>2 DEF ReadState
  <2>2. batch'[s] = {}
    BY <1>0, <2>1
  <2> QED  BY <1>0, <1>1, <2>2
<1>3. CASE ~ReadState(s)
  <2>1. batch'[s] \in {batch[s], {}}
    BY <1>0, <1>3 DEF Runtime, RuntimeProgress, RuntimeFails, DiscardMessage, ClaimLease,
         StartJobFails, WriteRunningState, WriteRunningStateFails, HeartbeatLosesLease,
         FinishAck, FinishAckFails, FinishRelease, FinishReleaseFails,
         Task, WorkStep, FailStep, CancelStep, Prepare, Scrape, ScrapeFails, ClaimUsername,
         ClaimUsernameFails, EnqueueBatch, EnqueueBatchFails, Finalize, CompleteJob,
         CompleteJobFails, CancelStart, CancelWork, CancelFinish, queueModuleVars, slotVars
  <2>2. slot'[s].pc # "poll" => slot[s].pc # "poll"
    <3>1. CASE Task(s)
      <4>1. TaskMove(s)
        BY <1>0, <3>1, TaskSlot
      <4> QED  BY <4>1, ConstantTypes DEF TaskMove
    <3>2. CASE Runtime(s)
      <4>1. CASE StartJobFails(s) \/ DiscardMessage(s)
        <5>1. slot'[s] = IdleSlot
          BY <1>0, <4>1, ConstantTypes DEF StartJobFails, DiscardMessage
        <5> QED  BY <5>1, ConstantTypes
      <4>2. CASE ~(StartJobFails(s) \/ DiscardMessage(s))
        BY <1>3, <3>2, <4>2 DEF Runtime, RuntimeProgress, RuntimeFails, ClaimLease,
         WriteRunningState, WriteRunningStateFails, HeartbeatLosesLease,
         FinishAck, FinishAckFails, FinishRelease, FinishReleaseFails
      <4> QED  BY <4>1, <4>2
    <3> QED  BY <3>1, <3>2
  <2> QED  BY <1>0, <1>1, <2>1, <2>2
<1> QED  BY <1>2, <1>3

\* The loop takes a permit, hands it to a task, or gives it back.
LEMMA LoopPermits ==
  ASSUME PermitsInv, NEW w \in Worker, LoopStep(w)
  PROVE  PermitsAccounted' /\ TaskShape'
<1>0. /\ slot \in [Slot -> SlotState] /\ batch \in [Slot -> SUBSET Job]
      /\ loop \in [Worker -> {"down", "acquire", "poll", "stopping"}]
      /\ permits \in [Worker -> Nat] /\ TaskShape
      /\ \A x \in Worker :
           permits[x] + Cardinality(Tasks(x)) + (IF loop[x] = "poll" THEN 1 ELSE 0) = Semaphore(x)
      /\ \A s \in Slot : WorkerOf[s] \in Worker
  BY JobQueueAssumption DEF PermitsInv, PermitsAccounted, Tasks, TypeInv, TypeOK, QueueTypeOK
<1>1. UNCHANGED slot /\ loop[w] \in {"acquire", "poll"}
  BY DEF LoopStep, Acquire, PollReturns, PollEmpty, PollFails, ReadReclaimed, ReadNew,
         queueModuleVars, slotVars
<1>2. CASE Acquire(w) \/ PollEmpty(w) \/ PollFails(w)
  <2>1. UNCHANGED batch
    BY <1>2 DEF Acquire, PollEmpty, PollFails, queueModuleVars, slotVars
  <2>2. \A s \in Slot : Busy(s)' <=> Busy(s)
    BY <1>1, <2>1 DEF Busy
  <2>3. \A x \in Worker : Tasks(x)' = Tasks(x)
    BY <2>2 DEF Tasks, SlotsOf
  <2>4. TaskShape'
    <3>1. \A x \in Worker : loop'[x] = "down" => loop[x] = "down"
      BY <1>0, <1>2 DEF Acquire, PollEmpty, PollFails
    <3> QED  BY <1>0, <1>1, <2>1, <2>2, <3>1 DEF TaskShape
  <2>5. ASSUME NEW x \in Worker
        PROVE  permits'[x] + Cardinality(Tasks(x)) + (IF loop'[x] = "poll" THEN 1 ELSE 0)
                 = Semaphore(x)
    <3>1. CASE x # w
      BY <1>0, <1>2, <3>1 DEF Acquire, PollEmpty, PollFails, Released
    <3>2. CASE x = w /\ Acquire(w)
      <4>1. permits'[w] = permits[w] - 1 /\ loop'[w] = "poll" /\ loop[w] = "acquire"
        BY <1>0, <3>2 DEF Acquire
      <4> QED  BY <1>0, <3>2, <4>1, TasksFinite
    <3>3. CASE x = w /\ (PollEmpty(w) \/ PollFails(w))
      <4>1. permits'[w] = permits[w] + 1 /\ loop'[w] = "acquire" /\ loop[w] = "poll"
        BY <1>0, <3>3 DEF PollEmpty, PollFails, Released
      <4> QED  BY <1>0, <3>3, <4>1, TasksFinite
    <3> QED  BY <1>2, <3>1, <3>2, <3>3
  <2>6. PermitsAccounted'
    BY <2>3, <2>5, TasksFinite DEF PermitsAccounted, Tasks
  <2> QED  BY <2>4, <2>6
<1>3. ASSUME NEW s \in Slot, NEW j \in Job, PollReturns(w, s, j)
      PROVE  PermitsAccounted' /\ TaskShape'
  <2>1. /\ loop[w] = "poll" /\ loop' = [loop EXCEPT ![w] = "acquire"] /\ UNCHANGED permits
        /\ WorkerOf[s] = w /\ ~Busy(s)
        /\ batch' = [batch EXCEPT ![s] = {j}]
    BY <1>3 DEF PollReturns, ReadReclaimed, ReadNew
  <2>2. Busy(s)' /\ \A t \in Slot \ {s} : Busy(t)' <=> Busy(t)
    BY <1>0, <1>1, <2>1 DEF Busy
  <2>3. TaskShape'
    <3>1. slot[s].pc = "poll"
      BY <2>1, ConstantTypes DEF Busy
    <3> QED  BY <1>0, <1>1, <2>1, <2>2, <3>1 DEF TaskShape
  <2>4. ASSUME NEW x \in Worker
        PROVE  permits'[x] + Cardinality(Tasks(x)') + (IF loop'[x] = "poll" THEN 1 ELSE 0)
                 = Semaphore(x)
    <3>1. CASE x # w
      <4>1. Tasks(x)' = Tasks(x)
        BY <2>1, <2>2, <3>1 DEF Tasks, SlotsOf
      <4> QED  BY <1>0, <2>1, <3>1, <4>1
    <3>2. CASE x = w
      <4>1. Tasks(w)' = Tasks(w) \cup {s} /\ s \notin Tasks(w)
        BY <2>1, <2>2 DEF Tasks, SlotsOf
      <4>2. Cardinality(Tasks(w)') = Cardinality(Tasks(w)) + 1
        BY <4>1, TasksFinite, FS_AddElement
      <4>3. loop'[w] = "acquire"
        BY <1>0, <2>1
      <4> QED  BY <1>0, <2>1, <3>2, <4>2, <4>3, TasksFinite
    <3> QED  BY <3>1, <3>2
  <2>5. PermitsAccounted'
    BY <2>4, TasksFinite DEF PermitsAccounted, Tasks
  <2> QED  BY <2>3, <2>5
<1> QED  BY <1>2, <1>3 DEF LoopStep

\* A new runner has a new semaphore and no task, whether the last one was stopped or died.
LEMMA SupervisorPermits ==
  ASSUME PermitsInv, NEW w \in Worker, SupervisorStep(w)
  PROVE  PermitsAccounted' /\ TaskShape'
<1>0. /\ slot \in [Slot -> SlotState] /\ batch \in [Slot -> SUBSET Job]
      /\ loop \in [Worker -> {"down", "acquire", "poll", "stopping"}]
      /\ permits \in [Worker -> Nat] /\ TaskShape
      /\ \A x \in Worker :
           permits[x] + Cardinality(Tasks(x)) + (IF loop[x] = "poll" THEN 1 ELSE 0) = Semaphore(x)
      /\ \A s \in Slot : WorkerOf[s] \in Worker
  BY JobQueueAssumption DEF PermitsInv, PermitsAccounted, Tasks, TypeInv, TypeOK, QueueTypeOK
<1>1. CASE Start(w) \/ Stop(w) \/ Stopped(w)
  <2>1. UNCHANGED <<slot, batch>>
    BY <1>1 DEF Start, Stop, Stopped, queueModuleVars, slotVars
  <2>2. \A s \in Slot : Busy(s)' <=> Busy(s)
    BY <2>1 DEF Busy
  <2>3. \A x \in Worker : Tasks(x)' = Tasks(x)
    BY <2>2 DEF Tasks, SlotsOf
  <2>4. TaskShape'
    <3>1. \A x \in Worker : loop'[x] = "down" =>
            loop[x] = "down" \/ \A s \in SlotsOf(x) : ~Busy(s)
      BY <1>0, <1>1 DEF Start, Stop, Stopped
    <3> QED  BY <1>0, <2>1, <2>2, <3>1 DEF TaskShape, SlotsOf
  <2>5. ASSUME NEW x \in Worker
        PROVE  permits'[x] + Cardinality(Tasks(x)) + (IF loop'[x] = "poll" THEN 1 ELSE 0)
                 = Semaphore(x)
    <3>1. CASE x # w
      BY <1>0, <1>1, <3>1 DEF Start, Stop, Stopped, Released
    <3>2. CASE x = w /\ Start(w)
      <4>1. permits'[w] = Semaphore(w) /\ loop'[w] = "acquire"
        BY <1>0, <3>2 DEF Start
      <4>2. Tasks(w) = {}
        BY <1>0, <3>2 DEF Start, Tasks, SlotsOf, TaskShape
      <4> QED  BY <3>2, <4>1, <4>2, TasksFinite, FS_EmptySet
    <3>3. CASE x = w /\ (Stop(w) \/ Stopped(w))
      <4>1. /\ loop'[w] # "poll"
            /\ IF loop[w] = "poll" THEN permits'[w] = permits[w] + 1 ELSE permits'[w] = permits[w]
        BY <1>0, <3>3 DEF Stop, Stopped, Released
      <4> QED  BY <1>0, <3>3, <4>1, TasksFinite
    <3> QED  BY <1>1, <3>1, <3>2, <3>3
  <2>6. PermitsAccounted'
    BY <2>3, <2>5, TasksFinite DEF PermitsAccounted, Tasks
  <2> QED  BY <2>4, <2>6
<1>2. CASE Crash(w)
  <2>1. /\ slot' = [s \in Slot |-> IF WorkerOf[s] = w THEN IdleSlot ELSE slot[s]]
        /\ batch' = [s \in Slot |-> IF WorkerOf[s] = w THEN {} ELSE batch[s]]
        /\ loop' = [loop EXCEPT ![w] = "down"]
        /\ permits' = [permits EXCEPT ![w] = Semaphore(w)]
    BY <1>2 DEF Crash, CrashWorker
  <2>2. \A s \in Slot : IF WorkerOf[s] = w THEN ~Busy(s)' ELSE Busy(s)' <=> Busy(s)
    BY <2>1 DEF Busy
  <2>3. TaskShape'
    <3>1. \A s \in Slot : loop'[WorkerOf[s]] = "down" => ~Busy(s)'
      BY <1>0, <2>1, <2>2 DEF TaskShape
    <3>2. \A s \in Slot : /\ slot'[s].pc # "poll" => batch'[s] = {}
                          /\ \A i, j \in batch'[s] : i = j
      BY <1>0, <2>1, ConstantTypes DEF TaskShape
    <3> QED  BY <3>1, <3>2 DEF TaskShape
  <2>4. ASSUME NEW x \in Worker
        PROVE  permits'[x] + Cardinality(Tasks(x)') + (IF loop'[x] = "poll" THEN 1 ELSE 0)
                 = Semaphore(x)
    <3>1. CASE x # w
      <4>1. Tasks(x)' = Tasks(x)
        BY <2>2, <3>1 DEF Tasks, SlotsOf
      <4> QED  BY <1>0, <2>1, <3>1, <4>1
    <3>2. CASE x = w
      <4>1. Tasks(w)' = {}
        BY <2>2 DEF Tasks, SlotsOf
      <4>2. permits'[w] = Semaphore(w) /\ loop'[w] = "down"
        BY <1>0, <2>1
      <4> QED  BY <3>2, <4>1, <4>2, TasksFinite, FS_EmptySet
    <3> QED  BY <3>1, <3>2
  <2>5. PermitsAccounted'
    BY <2>4, TasksFinite DEF PermitsAccounted, Tasks
  <2> QED  BY <2>3, <2>5
<1> QED  BY <1>1, <1>2 DEF SupervisorStep

LEMMA InitPermits == Init => PermitsInv
<1> SUFFICES ASSUME Init PROVE PermitsInv
  OBVIOUS
<1>1. TypeInv /\ \A s \in Slot : slot[s] = IdleSlot /\ batch[s] = {}
  BY InitTypeInv DEF Init, QueueInit
<1>2. \A s \in Slot : ~Busy(s)
  BY <1>1 DEF Busy
<1>3. TaskShape
  BY <1>1, <1>2, ConstantTypes DEF TaskShape
<1>4. \A w \in Worker : Tasks(w) = {} /\ permits[w] = Semaphore(w) /\ loop[w] = "down"
  BY <1>2 DEF Init, Tasks, SlotsOf
<1>5. PermitsAccounted
  BY <1>4, TasksFinite, FS_EmptySet DEF PermitsAccounted, Tasks
<1> QED  BY <1>1, <1>3, <1>5 DEF PermitsInv

LEMMA NextPermits == PermitsInv /\ [Next]_vars => PermitsInv'
<1> SUFFICES ASSUME PermitsInv, [Next]_vars PROVE PermitsInv'
  OBVIOUS
<1>1. TypeInv'
  BY NextTypeInv DEF PermitsInv
<1>2. ASSUME NEW s \in Slot, Runtime(s) \/ Task(s)
      PROVE  PermitsAccounted' /\ TaskShape'
  <2>1. /\ permits' = IF Busy(s)' THEN permits ELSE Released(WorkerOf[s])
        /\ UNCHANGED loop
    BY <1>2, TaskPermits DEF Runtime, RuntimeProgress, RuntimeFails, Surrounding
  <2>2. Busy(s) /\ \A t \in Slot \ {s} : slot'[t] = slot[t] /\ batch'[t] = batch[t]
    BY <1>2, RuntimeSlot, TaskSlot DEF PermitsInv
  <2>3. PermitsAccounted' /\ \A t \in Slot : loop'[WorkerOf[t]] = "down" => ~Busy(t)'
    BY <2>1, <2>2, SlotPermits
  <2> QED  BY <1>2, <2>3, SlotTaskShape DEF TaskShape
<1>3. CASE UNCHANGED vars \/ Outside
  <2>1. UNCHANGED <<slot, batch, loop, permits>>
    BY <1>3, OutsideFrame DEF vars, queueModuleVars, slotVars, runnerVars
  <2> QED
    BY <1>1, <2>1 DEF PermitsInv, TaskShape, PermitsAccounted, Busy, SlotsOf, Semaphore
<1>4. CASE Next /\ ~Outside
  BY <1>1, <1>2, <1>4, NextKinds, LoopPermits, SupervisorPermits DEF PermitsInv
<1> QED  BY <1>3, <1>4

\* No permit of a process is lost or given back twice, whatever fails, stops, is
\* cancelled or dies: it is free, held by the loop while it polls, or by a task.
THEOREM PermitsKept == Spec => []PermitInv
<1>1. PermitsInv => PermitInv
  BY DEF PermitsInv, PermitInv, TypeInv
<1> QED  BY <1>1, InitPermits, NextPermits, PTL DEF Spec

-----------------------------------------------------------------------------
\* Dedupe keys

\* A recommended job has usernames only once it is enqueued, and a task claims
\* usernames between its scrape and the last batch it enqueues.
ClaimShape ==
  /\ \A r \in InternalJob : streamId[r] = 0 => content[r] = {}
  /\ \A s \in Slot : work[s].pc \in {"idle", "scrape", "finalize"} => work[s].claimed = {}

KeyInv == TypeInv /\ ClaimShape /\ KeyMeansQueued

\* A step of one task answers for the keys that it sets, keeps or had claimed.
LEMMA KeyKept ==
  ASSUME KeyMeansQueued, NEW s \in Slot,
         \A t \in Slot \ {s} : work'[t] = work[t],
         \A r \in InternalJob : content[r] \subseteq content'[r],
         \A u \in key' \ leaked' :
           \/ u \in key \ leaked /\ (u \notin work[s].claimed \/ u \in work'[s].claimed)
           \/ u \in work'[s].claimed
           \/ \E r \in InternalJob : u \in content'[r]
  PROVE  KeyMeansQueued'
BY DEF KeyMeansQueued

\* The batch b is taken from the usernames a task has claimed; the last ends its round.
LEMMA BatchTaken ==
  ASSUME TypeInv, NEW s \in Slot, NEW b \in SUBSET Username,
         work[s].pc = "enqueue", WithoutBatch(s, b)
  PROVE  /\ work'[s].claimed = work[s].claimed \ b
         /\ \/ work'[s].pc = "enqueue"
            \/ work'[s].pc = "finalize" /\ work'[s].claimed = {}
<1>0. work \in [Slot -> WorkState] /\ work[s] \in WorkState
  BY DEF TypeInv, TypeOK
<1>2. CASE b = work[s].claimed
  <2>1. work'[s] = [NoWork EXCEPT !.pc = "finalize"]
    BY <1>0, <1>2 DEF WithoutBatch
  <2> QED  BY <1>2, <2>1, ConstantTypes
<1>3. CASE b # work[s].claimed
  BY <1>0, <1>3 DEF WithoutBatch, WorkState
<1> QED  BY <1>2, <1>3

\* Enqueueing the batch b of a task leaves it the rest.
LEMMA BatchEnqueued ==
  ASSUME KeyInv, NEW s \in Slot, NEW r \in InternalJob, NEW b \in SUBSET Username,
         Working(s, "enqueue"), EnqueueRecommended(r, b), WithoutBatch(s, b)
  PROVE  /\ \A q \in InternalJob : content[q] \subseteq content'[q]
         /\ \A q \in InternalJob : streamId'[q] = 0 => content'[q] = {}
         /\ content'[r] = b /\ work'[s].claimed = work[s].claimed \ b
         /\ work'[s].pc = "enqueue" \/ work'[s].claimed = {}
<1>0. /\ work \in [Slot -> WorkState] /\ content \in [InternalJob -> SUBSET Username]
      /\ InternalJob \subseteq Job /\ ClaimShape /\ QueueTypeOK /\ IsFiniteSet(Enqueued)
  BY JobQueueAssumption DEF KeyInv, TypeInv, TypeOK
<1>1. /\ streamId[r] = 0 /\ content' = [content EXCEPT ![r] = b]
      /\ streamId'[r] # 0 /\ \A k \in Job \ {r} : streamId'[k] = streamId[k]
  BY <1>0, AppendMessageType DEF EnqueueRecommended
<1>2. /\ work'[s].claimed = work[s].claimed \ b
      /\ work'[s].pc = "enqueue" \/ work'[s].claimed = {}
  BY BatchTaken DEF Working, KeyInv
<1> QED  BY <1>0, <1>1, <1>2 DEF ClaimShape

\* The task's own steps keep the keys.
LEMMA TaskKeys ==
  ASSUME KeyInv, NEW s \in Slot, Task(s)
  PROVE  KeyMeansQueued' /\ ClaimShape'
<1> USE JobQueueAssumption
<1>0. /\ work \in [Slot -> WorkState] /\ work[s] \in WorkState /\ KeyMeansQueued
      /\ content \in [InternalJob -> SUBSET Username] /\ ClaimShape
      /\ \A t \in Slot \ {s} : work'[t] = work[t]
  BY TaskWork DEF KeyInv, TypeInv, TypeOK
<1>1. CASE EnqueueBatch(s)
  <2>1. PICK b \in SUBSET Username, r \in InternalJob :
          Working(s, "enqueue") /\ EnqueueRecommended(r, b) /\ WithoutBatch(s, b)
    BY <1>1 DEF EnqueueBatch
  <2>2. UNCHANGED <<key, leaked>>
    BY <1>1 DEF EnqueueBatch
  <2>3. /\ \A q \in InternalJob : content[q] \subseteq content'[q]
        /\ \A q \in InternalJob : streamId'[q] = 0 => content'[q] = {}
        /\ content'[r] = b /\ work'[s].claimed = work[s].claimed \ b
        /\ work'[s].pc = "enqueue" \/ work'[s].claimed = {}
    BY <2>1, BatchEnqueued
  <2>4. KeyMeansQueued'
    BY <1>0, <2>2, <2>3, KeyKept
  <2> QED  BY <1>0, <2>3, <2>4 DEF ClaimShape
<1>2. CASE EnqueueBatchFails(s)
  <2>1. PICK b \in SUBSET Username :
          /\ WithoutBatch(s, b) /\ Working(s, "enqueue")
          /\ \/ Unclaim(b) /\ UNCHANGED <<streamId, content>>
             \/ /\ \E r \in InternalJob : EnqueueRecommended(r, b)
                /\ key' = key \ b /\ leaked' = leaked \ b
    BY <1>2 DEF EnqueueBatchFails
  <2>2. /\ work'[s].claimed = work[s].claimed \ b
        /\ work'[s].pc = "enqueue" \/ work'[s].claimed = {}
    BY <2>1, BatchTaken DEF Working, KeyInv
  <2>3. /\ \A q \in InternalJob : content[q] \subseteq content'[q]
        /\ \A q \in InternalJob : streamId'[q] = 0 => content'[q] = {}
    <3>1. CASE UNCHANGED <<streamId, content>>
      BY <1>0, <3>1 DEF ClaimShape
    <3>2. ASSUME NEW r \in InternalJob, EnqueueRecommended(r, b)
          PROVE  /\ \A q \in InternalJob : content[q] \subseteq content'[q]
                 /\ \A q \in InternalJob : streamId'[q] = 0 => content'[q] = {}
      BY <2>1, <3>2, BatchEnqueued
    <3> QED  BY <2>1, <3>1, <3>2
  <2>4. \A u \in key' \ leaked' : u \in key \ leaked /\ u \notin b
    BY <2>1 DEF Unclaim
  <2>5. KeyMeansQueued'
    BY <1>0, <2>2, <2>3, <2>4, KeyKept
  <2> QED  BY <1>0, <2>2, <2>3, <2>5 DEF ClaimShape
<1>3. CASE ~(EnqueueBatch(s) \/ EnqueueBatchFails(s))
  <2>1. UNCHANGED <<streamId, content>>
    BY <1>3 DEF Task, WorkStep, FailStep, CancelStep, Prepare, Scrape, ScrapeFails,
       ClaimUsername, ClaimUsernameFails, Finalize, CompleteJob, CompleteJobFails, CancelStart,
       CancelWork, CancelFinish, queueModuleVars, queueVars, recommendedVars
  <2>2. /\ \A r \in InternalJob : content[r] \subseteq content'[r]
        /\ \A r \in InternalJob : streamId'[r] = 0 => content'[r] = {}
    BY <1>0, <2>1 DEF ClaimShape
  <2>3. /\ KeyMeansQueued'
        /\ work'[s].pc \in {"idle", "scrape", "finalize"} => work'[s].claimed = {}
    <3>1. CASE Prepare(s) \/ Scrape(s) \/ ScrapeFails(s) \/ Finalize(s)
      <4>1. work[s].pc \in {"idle", "scrape", "finalize"} /\ UNCHANGED <<key, leaked>>
        BY <3>1 DEF Prepare, Scrape, ScrapeFails, Finalize, Working, recommendedVars
      <4>2. work[s].claimed = {} /\ work'[s].claimed = {}
        <5>1. work[s].claimed = {}
          BY <1>0, <4>1 DEF ClaimShape
        <5>2. CASE Prepare(s) \/ ScrapeFails(s) \/ Finalize(s)
          BY <1>0, <5>1, <5>2, ConstantTypes DEF Prepare, ScrapeFails, Finalize, WorkState
        <5>3. CASE Scrape(s)
          BY <1>0, <5>1, <5>3 DEF Scrape, WorkState
        <5> QED  BY <3>1, <5>1, <5>2, <5>3
      <4>3. KeyMeansQueued'
        BY <1>0, <2>2, <4>1, <4>2, KeyKept
      <4> QED  BY <4>2, <4>3
    <3>2. CASE ClaimUsername(s)
      <4>1. PICK u \in work[s].todo :
              /\ key' = key \cup {u} /\ UNCHANGED leaked
              /\ work' = [work EXCEPT ![s] =
                   IF work[s].todo \ {u} # {}
                     THEN [pc |-> "claim", todo |-> work[s].todo \ {u},
                           claimed |-> work[s].claimed \cup ({u} \ key)]
                   ELSE IF work[s].claimed \cup ({u} \ key) # {}
                     THEN [pc |-> "enqueue", todo |-> {},
                           claimed |-> work[s].claimed \cup ({u} \ key)]
                   ELSE [NoWork EXCEPT !.pc = "finalize"]]
        BY <3>2 DEF ClaimUsername
      <4>2. /\ work'[s].claimed = work[s].claimed \cup ({u} \ key)
            /\ work'[s].pc \in {"idle", "scrape", "finalize"} => work'[s].claimed = {}
        BY <1>0, <4>1, ConstantTypes
      <4>3. KeyMeansQueued'
        BY <1>0, <2>2, <4>1, <4>2, KeyKept
      <4> QED  BY <4>2, <4>3
    <3>3. CASE ClaimUsernameFails(s)
      <4>1. /\ work'[s].claimed = {}
            /\ \/ Unclaim(work[s].claimed)
               \/ \E u \in work[s].todo \ key : /\ key' = (key \ work[s].claimed) \cup {u}
                                                /\ leaked' = (leaked \ work[s].claimed) \cup {u}
        BY <1>0, <3>3, ConstantTypes DEF ClaimUsernameFails
      <4>2. \A u \in key' \ leaked' : u \in key \ leaked /\ u \notin work[s].claimed
        BY <4>1 DEF Unclaim
      <4>3. KeyMeansQueued'
        BY <1>0, <2>2, <4>2, KeyKept
      <4> QED  BY <4>1, <4>3
    <3>4. CASE CancelWork(s)
      <4>1. /\ work'[s].claimed = {} /\ UNCHANGED key
            /\ leaked' = leaked \cup (key \cap work[s].claimed)
        BY <1>0, <3>4, ConstantTypes DEF CancelWork
      <4>2. KeyMeansQueued'
        BY <1>0, <2>2, <4>1, KeyKept
      <4> QED  BY <4>1, <4>2
    <3>5. CASE CompleteJob(s) \/ CompleteJobFails(s) \/ CancelStart(s) \/ CancelFinish(s)
      <4>1. UNCHANGED <<key, leaked, work>>
        BY <3>5 DEF CompleteJob, CompleteJobFails, CancelStart, CancelFinish, recommendedVars,
           runnerVars
      <4>2. KeyMeansQueued'
        BY <1>0, <2>2, <4>1, KeyKept
      <4> QED  BY <1>0, <4>1, <4>2 DEF ClaimShape
    <3> QED  BY <1>3, <3>1, <3>2, <3>3, <3>4, <3>5 DEF Task, WorkStep, FailStep, CancelStep
  <2> QED  BY <1>0, <2>2, <2>3 DEF ClaimShape
<1> QED  BY <1>1, <1>2, <1>3

\* Steps that leave the recommended jobs alone do, and so does a crash, whose claims leak.
LEMMA OtherKeys ==
  ASSUME KeyInv, NEW w,
         \/ Outside \/ (\E s \in Slot : Runtime(s))
         \/ w \in Worker /\ (LoopStep(w) \/ SupervisorStep(w))
  PROVE  KeyMeansQueued' /\ ClaimShape'
<1> USE JobQueueAssumption
<1>0. KeyMeansQueued /\ ClaimShape /\ QueueTypeOK /\ IsFiniteSet(Enqueued)
  BY DEF KeyInv, TypeInv, TypeOK
<1>1. UNCHANGED <<key, content>>
  BY OutsideFrame DEF LoopStep, SupervisorStep, Acquire, PollReturns, PollEmpty, PollFails,
     Start, Stop, Stopped, Crash, Runtime, RuntimeProgress, RuntimeFails, Surrounding,
     recommendedVars
<1>2. \A r \in InternalJob : streamId'[r] = streamId[r]
  <2>1. CASE \E j \in Job : Submit(j)
    <3>1. PICK j \in Job \ InternalJob : AppendMessage(j)
      BY <2>1 DEF Submit
    <3> QED  BY <1>0, <3>1, AppendMessageType
  <2>2. CASE RedisStep
    BY <2>2 DEF RedisStep, LeaseTtlEnds, LeaseStalls, JobExpires, queueVars
  <2>3. CASE LoopStep(w) \/ SupervisorStep(w)
    <3>1. UNCHANGED streamId
      BY <2>3 DEF LoopStep, SupervisorStep, Acquire, PollReturns, PollEmpty, PollFails,
         ReadReclaimed, ReadNew, Start, Stop, Stopped, Crash, CrashWorker, queueModuleVars,
         queueVars
    <3> QED  BY <3>1
  <2>4. CASE \E s \in Slot : Runtime(s)
    BY <2>4, RuntimeTypes DEF KeyInv
  <2> QED  BY <2>1, <2>2, <2>3, <2>4 DEF Outside
<1>3. CASE UNCHANGED <<work, leaked>>
  BY <1>0, <1>1, <1>2, <1>3 DEF KeyMeansQueued, ClaimShape
<1>4. CASE Crash(w)
  <2>1. /\ work' = [s \in Slot |-> IF WorkerOf[s] = w THEN NoWork ELSE work[s]]
        /\ leaked' = leaked \cup (key \cap UNION {work[s].claimed : s \in SlotsOf(w)})
    BY <1>4 DEF Crash
  <2>2. ClaimShape'
    BY <1>0, <1>1, <1>2, <2>1, ConstantTypes DEF ClaimShape
  <2>3. ASSUME NEW u \in key' \ leaked'
        PROVE  \/ \E r \in InternalJob : u \in content'[r]
               \/ \E s \in Slot : u \in work'[s].claimed
    <3>1. u \in key \ leaked /\ \A s \in SlotsOf(w) : u \notin work[s].claimed
      BY <1>1, <2>1
    <3>2. CASE \E r \in InternalJob : u \in content[r]
      BY <1>1, <3>2
    <3>3. ASSUME NEW s \in Slot, u \in work[s].claimed
          PROVE  u \in work'[s].claimed
      BY <2>1, <3>1, <3>3 DEF SlotsOf
    <3> QED  BY <1>0, <3>1, <3>2, <3>3 DEF KeyMeansQueued
  <2> QED  BY <2>2, <2>3 DEF KeyMeansQueued
<1>5. UNCHANGED <<work, leaked>> \/ Crash(w)
  BY OutsideFrame DEF LoopStep, SupervisorStep, Acquire, PollReturns, PollEmpty, PollFails,
     Start, Stop, Stopped, Runtime, RuntimeProgress, RuntimeFails, Surrounding,
     recommendedVars, runnerVars
<1> QED  BY <1>3, <1>4, <1>5

\* A dedupe key, which blocks its username for a day, means that there is a recommended
\* job with the username, or that a task is about to enqueue it, unless the key leaked.
THEOREM KeysMeanQueued == Spec => []KeyMeansQueued
<1>1. Init => KeyInv
  BY InitTypeInv, ConstantTypes DEF Init, QueueInit, KeyInv, ClaimShape, KeyMeansQueued
<1>2. KeyInv /\ [Next]_vars => KeyInv'
  <2> SUFFICES ASSUME KeyInv, [Next]_vars PROVE KeyInv'
    OBVIOUS
  <2>1. TypeInv'
    BY NextTypeInv DEF KeyInv
  <2>2. CASE UNCHANGED vars
    BY <2>1, <2>2 DEF vars, queueModuleVars, queueVars, runnerVars, recommendedVars, KeyInv,
       KeyMeansQueued, ClaimShape
  <2>3. CASE Outside
    BY <2>1, <2>3, OtherKeys DEF KeyInv
  <2>4. CASE Next /\ ~Outside
    BY <2>1, <2>4, NextKinds, TaskKeys, OtherKeys DEF KeyInv
  <2> QED  BY <2>2, <2>3, <2>4
<1> QED  BY <1>1, <1>2, PTL DEF Spec, KeyInv

-----------------------------------------------------------------------------
\* Scraped once

\* A task at work on a job, with its lease or without.
AtWork(s, j) == slot[s].job = j /\ slot[s].pc \in {"execute", "wait"}

\* Two tasks at work on a job have been noted; a task that will scrape looked for the
\* stored profiles before, and nobody else has stored them since.
OnceInv ==
  \A j \in Job \ overlap :
    /\ scraped[j] <= 1
    /\ \A s, t \in Slot : AtWork(s, j) /\ AtWork(t, j) => s = t
    /\ \A s \in Slot : work[s].pc = "scrape" /\ slot[s].job = j => scraped[j] = 0

\* A step of one slot that scrapes nothing.
LEMMA NoScrape ==
  ASSUME TypeInv, OnceInv, NEW s \in Slot, UNCHANGED scraped, overlap \subseteq overlap',
         \A t \in Slot \ {s} : slot'[t] = slot[t] /\ work'[t] = work[t],
         work'[s].pc = "scrape" => \/ work[s].pc = "scrape" /\ slot'[s].job = slot[s].job
                                   \/ scraped[slot'[s].job] = 0,
         \A j \in Job : AtWork(s, j)' =>
           AtWork(s, j) \/ j \in overlap' \/ (\A t \in Slot \ {s} : ~AtWork(t, j))
  PROVE  OnceInv'
<1>1. \A t \in Slot \ {s}, j \in Job : AtWork(t, j)' <=> AtWork(t, j)
  BY DEF AtWork
<1> SUFFICES ASSUME NEW j \in Job, j \notin overlap'
             PROVE  /\ scraped[j] <= 1
                    /\ \A p, t \in Slot : AtWork(p, j)' /\ AtWork(t, j)' => p = t
                    /\ \A t \in Slot : work'[t].pc = "scrape" /\ slot'[t].job = j => scraped[j] = 0
  BY DEF OnceInv
<1>2. /\ j \notin overlap /\ scraped[j] <= 1
      /\ \A p, t \in Slot : AtWork(p, j) /\ AtWork(t, j) => p = t
      /\ \A t \in Slot : work[t].pc = "scrape" /\ slot[t].job = j => scraped[j] = 0
  BY DEF OnceInv
<1>3. ASSUME NEW p \in Slot, NEW t \in Slot, AtWork(p, j)', AtWork(t, j)'
      PROVE  p = t
  BY <1>1, <1>2, <1>3
<1>4. \A t \in Slot : work'[t].pc = "scrape" /\ slot'[t].job = j => scraped[j] = 0
  BY <1>2
<1> QED  BY <1>2, <1>3, <1>4

LEMMA RuntimeOnce ==
  ASSUME TypeInv, OnceInv, NEW s \in Slot, Runtime(s)
  PROVE  OnceInv'
<1>1. /\ \A t \in Slot \ {s} : slot'[t] = slot[t]
      /\ RuntimeMove(s)
  BY RuntimeSlot
<1>2. /\ UNCHANGED <<work, scraped>>
      /\ overlap' = overlap \cup
           {j \in Job : /\ slot[s].pc = "write" /\ slot'[s].pc = "execute" /\ slot[s].job = j
                        /\ \E t \in Slot \ {s} : slot[t].job = j /\ slot[t].pc \in {"execute", "wait"}}
  BY DEF Runtime, RuntimeProgress, RuntimeFails, Surrounding
<1>3. work[s].pc = "scrape" => slot'[s].job = slot[s].job
  BY <1>1 DEF RuntimeMove, TypeInv, TypeOK
<1>4. ASSUME NEW j \in Job, AtWork(s, j)'
      PROVE  AtWork(s, j) \/ j \in overlap' \/ (\A t \in Slot \ {s} : ~AtWork(t, j))
  BY <1>1, <1>2, <1>4, ConstantTypes DEF RuntimeMove, AtWork
<1> QED  BY <1>1, <1>2, <1>3, <1>4, NoScrape

LEMMA TaskOnce ==
  ASSUME TypeInv, OnceInv, NEW s \in Slot, Task(s)
  PROVE  OnceInv'
<1>0. /\ work \in [Slot -> WorkState] /\ scraped \in [Job -> Nat]
      /\ \A t \in Slot : work[t].pc # "idle" => slot[t].pc = "execute"
      /\ \A t \in Slot : slot[t].pc # "poll" => slot[t].job \in Job
  BY DEF TypeInv, TypeOK, SlotShape
<1>1. /\ \A t \in Slot \ {s} : slot'[t] = slot[t] /\ work'[t] = work[t]
      /\ TaskMove(s)
  BY TaskSlot, TaskWork
<1>2. UNCHANGED overlap
  BY DEF Task, WorkStep, FailStep, CancelStep, Prepare, Scrape, ScrapeFails, ClaimUsername,
         ClaimUsernameFails, EnqueueBatch, EnqueueBatchFails, Finalize, CompleteJob,
         CompleteJobFails, CancelStart, CancelWork, CancelFinish, resultVars
<1>3. \A j \in Job : AtWork(s, j)' => AtWork(s, j)
  BY <1>1, ConstantTypes DEF TaskMove, AtWork
<1>4. CASE Scrape(s)
  <2>1. /\ slot[s].pc = "execute" /\ work[s].pc = "scrape"
        /\ scraped' = [scraped EXCEPT ![slot[s].job] = @ + 1]
        /\ UNCHANGED slot
    BY <1>4 DEF Scrape, Working
  <2>2. work'[s].pc # "scrape"
    BY <1>0, <1>4 DEF Scrape, WorkState
  <2>3. slot[s].job \in Job
    BY <1>0, <2>1
  <2> SUFFICES ASSUME NEW j \in Job, j \notin overlap
               PROVE  /\ scraped'[j] <= 1
                      /\ \A p, t \in Slot : AtWork(p, j)' /\ AtWork(t, j)' => p = t
                      /\ \A t \in Slot : work'[t].pc = "scrape" /\ slot'[t].job = j => scraped'[j] = 0
    BY <1>2 DEF OnceInv
  <2>4. /\ scraped[j] <= 1
        /\ \A p, t \in Slot : AtWork(p, j) /\ AtWork(t, j) => p = t
        /\ \A t \in Slot : work[t].pc = "scrape" /\ slot[t].job = j => scraped[j] = 0
    BY DEF OnceInv
  <2>5. \A p, t \in Slot : AtWork(p, j)' /\ AtWork(t, j)' => p = t
    BY <2>1, <2>4 DEF AtWork
  <2>6. CASE slot[s].job # j
    BY <1>0, <1>1, <2>1, <2>2, <2>4, <2>5, <2>6
  <2>7. CASE slot[s].job = j
    <3>1. scraped'[j] = 1
      BY <1>0, <2>1, <2>4, <2>7
    <3>2. ASSUME NEW t \in Slot, work'[t].pc = "scrape", slot'[t].job = j
          PROVE  FALSE
      <4>1. t # s /\ work[t].pc = "scrape" /\ slot[t].job = j /\ slot[t].pc = "execute"
        BY <1>0, <1>1, <2>1, <2>2, <3>2
      <4> QED  BY <2>1, <2>4, <2>7, <4>1 DEF AtWork
    <3> QED  BY <2>5, <3>1, <3>2
  <2> QED  BY <2>6, <2>7
<1>5. CASE ~Scrape(s)
  <2>1. UNCHANGED scraped
    BY <1>5 DEF Task, WorkStep, FailStep, CancelStep, Prepare, ScrapeFails, ClaimUsername,
         ClaimUsernameFails, EnqueueBatch, EnqueueBatchFails, Finalize, CompleteJob,
         CompleteJobFails, CancelStart, CancelWork, CancelFinish, resultVars
  <2>2. CASE Prepare(s)
    <3>1. work'[s].pc = "scrape" => ~(scraped[slot[s].job] > 0) /\ slot[s].job \in Job
      BY <1>0, <2>2 DEF Prepare, WorkState, Working
    <3>2. UNCHANGED slot
      BY <2>2 DEF Prepare, queueModuleVars, slotVars
    <3>3. work'[s].pc = "scrape" => scraped[slot'[s].job] = 0
      BY <1>0, <3>1, <3>2
    <3> QED  BY <1>1, <1>2, <1>3, <2>1, <3>3, NoScrape
  <2>3. CASE ~Prepare(s)
    <3>2. work'[s].pc # "scrape" \/ UNCHANGED work
      <4>1. CASE ScrapeFails(s) \/ Finalize(s) \/ CancelWork(s)
        BY <1>0, <4>1, ConstantTypes DEF ScrapeFails, Finalize, CancelWork, WorkState
      <4>2. CASE ClaimUsername(s)
        <5>1. PICK u \in work[s].todo : work'[s] =
                IF work[s].todo \ {u} # {}
                  THEN [pc |-> "claim", todo |-> work[s].todo \ {u},
                        claimed |-> work[s].claimed \cup ({u} \ key)]
                ELSE IF work[s].claimed \cup ({u} \ key) # {}
                  THEN [pc |-> "enqueue", todo |-> {},
                        claimed |-> work[s].claimed \cup ({u} \ key)]
                ELSE [NoWork EXCEPT !.pc = "finalize"]
          BY <1>0, <4>2 DEF ClaimUsername
        <5> QED  BY <5>1, ConstantTypes
      <4>3. CASE ClaimUsernameFails(s)
        BY <1>0, <4>3, ConstantTypes DEF ClaimUsernameFails
      <4>4. CASE EnqueueBatch(s) \/ EnqueueBatchFails(s)
        <5>1. PICK b \in SUBSET Username : WithoutBatch(s, b) /\ work[s].pc = "enqueue"
          BY <4>4 DEF EnqueueBatch, EnqueueBatchFails, Working
        <5> QED  BY <5>1, BatchTaken
      <4>5. CASE CompleteJob(s) \/ CompleteJobFails(s) \/ CancelStart(s) \/ CancelFinish(s)
        BY <4>5 DEF CompleteJob, CompleteJobFails, CancelStart, CancelFinish, runnerVars
      <4> QED
        BY <1>5, <2>3, <4>1, <4>2, <4>3, <4>4, <4>5 DEF Task, WorkStep, FailStep, CancelStep
    <3>3. work'[s].pc = "scrape" => work[s].pc = "scrape" /\ slot'[s].job = slot[s].job
      <4>1. ASSUME work'[s].pc = "scrape"
            PROVE  work[s].pc = "scrape" /\ slot[s].pc = "execute"
        BY <1>0, <3>2, <4>1
      <4> QED  BY <1>1, <4>1 DEF TaskMove
    <3> QED  BY <1>1, <1>2, <1>3, <2>1, <3>3, NoScrape
  <2> QED  BY <2>2, <2>3
<1> QED  BY <1>4, <1>5

\* Steps without a task's own change at most end tasks.
LEMMA OtherOnce ==
  ASSUME TypeInv, OnceInv, NEW w,
         Outside \/ UNCHANGED vars \/ (w \in Worker /\ (LoopStep(w) \/ SupervisorStep(w)))
  PROVE  OnceInv'
<1>1. UNCHANGED <<scraped, overlap>>
  BY OutsideFrame DEF vars, LoopStep, SupervisorStep, Acquire, PollReturns, PollEmpty, PollFails,
     Start, Stop, Stopped, Crash, resultVars
<1>2. UNCHANGED <<slot, work>> \/ Crash(w)
  BY OutsideFrame DEF vars, LoopStep, SupervisorStep, Acquire, PollReturns, PollEmpty, PollFails,
     ReadReclaimed, ReadNew, Start, Stop, Stopped, queueModuleVars, slotVars, runnerVars
<1>3. CASE UNCHANGED <<slot, work>>
  BY <1>1, <1>3 DEF OnceInv, AtWork
<1>4. CASE Crash(w)
  <2>1. /\ slot' = [s \in Slot |-> IF WorkerOf[s] = w THEN IdleSlot ELSE slot[s]]
        /\ work' = [s \in Slot |-> IF WorkerOf[s] = w THEN NoWork ELSE work[s]]
    BY <1>4 DEF Crash, CrashWorker
  <2>2. \A s \in Slot, j \in Job : AtWork(s, j)' => AtWork(s, j)
    BY <2>1, ConstantTypes DEF AtWork
  <2>3. \A s \in Slot : work'[s].pc = "scrape" => work[s].pc = "scrape" /\ slot'[s] = slot[s]
    BY <2>1, ConstantTypes
  <2> QED  BY <1>1, <2>2, <2>3 DEF OnceInv
<1> QED  BY <1>2, <1>3, <1>4

\* The paid scrape of a job is stored once, however often the job is delivered again,
\* unless two tasks had it at a time.
THEOREM StoredOnce == Spec => []ScrapedOnce
<1>1. Init => TypeInv /\ OnceInv
  BY InitTypeInv, ConstantTypes DEF Init, QueueInit, OnceInv, AtWork
<1>2. TypeInv /\ OnceInv /\ [Next]_vars => TypeInv' /\ OnceInv'
  BY NextTypeInv, NextKinds, RuntimeOnce, TaskOnce, OtherOnce
<1>3. OnceInv => ScrapedOnce
  BY DEF OnceInv, ScrapedOnce
<1> QED  BY <1>1, <1>2, <1>3, PTL DEF Spec

-----------------------------------------------------------------------------
\* One task per job

\* A task that keeps its lease alive has it, alone among the tasks with its token.
LeaseHeld ==
  budget["stall"] = MaxFaults["stall"] =>
    \A j \in Job \ stolen, s \in Slot :
      Renewing(s, j) => lease[j] = WorkerOf[s] /\ \A t \in Slot : Renewing(t, j) => s = t

LeaseInv == TypeInv /\ LeaseHeld /\ budget["stall"] <= MaxFaults["stall"]

\* A fault that was not spent is not given back.
LEMMA StallsSpent ==
  ASSUME LeaseInv, Next \/ UNCHANGED vars
  PROVE  /\ budget'["stall"] <= budget["stall"] /\ budget["stall"] \in Nat
         /\ MaxFaults["stall"] \in Nat
         /\ budget'["stall"] <= MaxFaults["stall"]
         /\ budget'["stall"] = MaxFaults["stall"] => budget["stall"] = MaxFaults["stall"]
<1>0. /\ "stall" \in FaultKind /\ budget \in [FaultKind -> Nat] /\ MaxFaults \in [FaultKind -> Nat]
      /\ budget["stall"] <= MaxFaults["stall"]
  BY JobQueueAssumption DEF FaultKind, LeaseInv, TypeInv, TypeOK, QueueTypeOK
<1>1. UNCHANGED budget \/ \E k \in FaultKind : Spend(k)
  <2>1. CASE \E w \in Worker : LoopStep(w) \/ SupervisorStep(w)
    <3>1. UNCHANGED budget \/ Spend("dependency") \/ Spend("crash")
      BY <2>1 DEF LoopStep, SupervisorStep, Acquire, PollReturns, PollEmpty, PollFails,
         ReadReclaimed, ReadNew, Start, Stop, Stopped, Crash, CrashWorker, queueModuleVars
    <3> QED  BY <3>1 DEF FaultKind
  <2>2. CASE \E s \in Slot : Runtime(s)
    <3>1. UNCHANGED budget \/ Spend("dependency")
      BY <2>2 DEF Runtime, RuntimeProgress, RuntimeFails, ReadState, DiscardMessage, ClaimLease,
         StartJobFails, WriteRunningState, WriteRunningStateFails, HeartbeatLosesLease,
         FinishAck, FinishAckFails, FinishRelease, FinishReleaseFails
    <3> QED  BY <3>1 DEF FaultKind
  <2>3. CASE \E s \in Slot : Task(s)
    <3>1. UNCHANGED budget \/ Spend("dependency")
      BY <2>3 DEF Task, WorkStep, FailStep, CancelStep, Prepare, Scrape, ScrapeFails,
         ClaimUsername, ClaimUsernameFails, EnqueueBatch, EnqueueBatchFails, Finalize,
         CompleteJob, CompleteJobFails, CancelStart, CancelWork, CancelFinish, queueModuleVars
    <3> QED  BY <3>1 DEF FaultKind
  <2>4. CASE Outside
    <3>1. UNCHANGED budget \/ Spend("stall") \/ Spend("expiry")
      BY <2>4 DEF Outside, Submit, RedisStep, LeaseTtlEnds, LeaseStalls, JobExpires
    <3> QED  BY <3>1 DEF FaultKind
  <2>5. CASE UNCHANGED vars
    BY <2>5 DEF vars, queueModuleVars
  <2> QED  BY NextKinds, <2>1, <2>2, <2>3, <2>4, <2>5
<1>2. budget' \in [FaultKind -> Nat] /\ \A k \in FaultKind : budget'[k] <= budget[k]
  BY <1>0, <1>1, SpendType
<1> QED  BY <1>0, <1>2

\* Where nobody starts to renew a lease and no renewed lease changes hands, it is held.
LEMMA LeaseKept ==
  ASSUME LeaseInv, Next \/ UNCHANGED vars, stolen \subseteq stolen',
         \A j \in Job \ stolen', t \in Slot : Renewing(t, j)' =>
           Renewing(t, j) /\ (budget'["stall"] = MaxFaults["stall"] => lease'[j] = lease[j])
  PROVE  LeaseHeld'
<1> SUFFICES ASSUME budget'["stall"] = MaxFaults["stall"],
                    NEW j \in Job \ stolen', NEW s \in Slot, Renewing(s, j)'
             PROVE  lease'[j] = WorkerOf[s] /\ \A t \in Slot : Renewing(t, j)' => s = t
  BY DEF LeaseHeld
<1>1. LeaseHeld /\ budget["stall"] = MaxFaults["stall"]
  BY StallsSpent DEF LeaseInv
<1>2. Renewing(s, j) /\ lease'[j] = lease[j] /\ j \in Job \ stolen
  OBVIOUS
<1>3. lease[j] = WorkerOf[s] /\ \A t \in Slot : Renewing(t, j) => s = t
  BY <1>1, <1>2 DEF LeaseHeld
<1> QED  BY <1>2, <1>3

\* A task that gets the lease gets a free one, so nobody else renews it.
LEMMA ClaimHeld ==
  ASSUME LeaseInv, NEW s \in Slot, ClaimLease(s), Surrounding(s), Next
  PROVE  LeaseHeld'
<1>0. /\ slot \in [Slot -> SlotState] /\ lease \in [Job -> Worker \cup {NoWorker}]
      /\ slot[s].pc = "claim" /\ slot[s].job \in Job /\ ~slot[s].lost
      /\ \A t \in Slot : WorkerOf[t] \in Worker /\ WorkerOf[t] # NoWorker
  BY JobQueueAssumption DEF LeaseInv, TypeInv, TypeOK, QueueTypeOK, SlotShape, ClaimLease
<1>1. stolen \subseteq stolen'
  BY DEF Surrounding, Steals
<1>2. CASE UNCHANGED lease
  <2>1. slot' = [slot EXCEPT ![s] = IdleSlot]
    <3>1. lease[slot[s].job] = NoWorker => lease' # lease \/ slot' = [slot EXCEPT ![s] = IdleSlot]
      BY <1>0 DEF ClaimLease
    <3> QED  BY <1>2, <3>1 DEF ClaimLease
  <2>2. \A t \in Slot, j \in Job : Renewing(t, j)' => Renewing(t, j)
    BY <1>0, <2>1, ConstantTypes DEF Renewing
  <2> QED  BY <1>1, <1>2, <2>2, LeaseKept
<1>3. CASE lease' # lease
  <2>1. /\ lease[slot[s].job] = NoWorker /\ lease' = [lease EXCEPT ![slot[s].job] = WorkerOf[s]]
        /\ slot' = [slot EXCEPT ![s].pc = "write"]
    BY <1>3 DEF ClaimLease
  <2> SUFFICES ASSUME budget'["stall"] = MaxFaults["stall"],
                      NEW j \in Job \ stolen', NEW p \in Slot, Renewing(p, j)'
               PROVE  lease'[j] = WorkerOf[p] /\ \A t \in Slot : Renewing(t, j)' => p = t
    BY DEF LeaseHeld
  <2>2. \A q \in Slot : Renewing(q, j) =>
          lease[j] = WorkerOf[q] /\ \A t \in Slot : Renewing(t, j) => q = t
    BY <1>1, StallsSpent DEF LeaseInv, LeaseHeld
  <2>3. \A t \in Slot \ {s} : Renewing(t, j)' <=> Renewing(t, j)
    BY <1>0, <2>1 DEF Renewing
  <2>4. Renewing(s, j)' => j = slot[s].job
    BY <1>0, <2>1 DEF Renewing
  <2>5. CASE j = slot[s].job
    <3>1. \A t \in Slot : ~Renewing(t, j)
      BY <1>0, <2>1, <2>2, <2>5
    <3>2. p = s /\ \A t \in Slot : Renewing(t, j)' => t = s
      BY <2>3, <3>1
    <3> QED  BY <1>0, <2>1, <2>5, <3>2
  <2>6. CASE j # slot[s].job
    <3>1. lease'[j] = lease[j] /\ \A t \in Slot : Renewing(t, j)' <=> t # s /\ Renewing(t, j)
      BY <1>0, <2>1, <2>3, <2>4, <2>6
    <3> QED  BY <2>2, <3>1
  <2> QED  BY <2>5, <2>6
<1> QED  BY <1>2, <1>3

LEMMA RuntimeLease ==
  ASSUME LeaseInv, NEW s \in Slot, Runtime(s), Next
  PROVE  LeaseHeld'
<1>0. /\ slot \in [Slot -> SlotState] /\ lease \in [Job -> Worker \cup {NoWorker}]
      /\ slot[s].pc # "poll" => slot[s].job \in Job
      /\ \A t \in Slot : WorkerOf[t] \in Worker /\ WorkerOf[t] # NoWorker
  BY JobQueueAssumption DEF LeaseInv, TypeInv, TypeOK, QueueTypeOK, SlotShape
<1>1. /\ Surrounding(s)
      /\ stolen' = stolen \cup
           {j \in Job : /\ slot[s].pc = "release" /\ lease'[j] # lease[j]
                        /\ \E t \in Slot \ {s} : Renewing(t, j)}
  BY DEF Runtime, RuntimeProgress, RuntimeFails, Surrounding, Steals
<1>2. /\ \A t \in Slot \ {s} : slot'[t] = slot[t]
      /\ RuntimeMove(s)
  BY RuntimeSlot DEF LeaseInv
<1>3. CASE ClaimLease(s)
  BY <1>1, <1>3, ClaimHeld
<1>4. CASE ~ClaimLease(s)
  <2>1. \A j \in Job, t \in Slot : Renewing(t, j)' => Renewing(t, j)
    <3>1. slot'[s].pc = "write" => slot[s].pc = "write"
      <4>1. CASE ReadState(s)
        BY <1>0, <4>1 DEF ReadState, SlotState
      <4>2. CASE StartJobFails(s) \/ DiscardMessage(s) \/ WriteRunningStateFails(s)
                 \/ FinishRelease(s) \/ FinishReleaseFails(s)
        <5>1. slot'[s] = IdleSlot
          BY <1>0, <4>2, ConstantTypes DEF StartJobFails, DiscardMessage, WriteRunningStateFails,
             FinishRelease, FinishReleaseFails
        <5> QED  BY <5>1, ConstantTypes
      <4>3. CASE WriteRunningState(s) \/ FinishAck(s) \/ FinishAckFails(s) \/ HeartbeatLosesLease(s)
        BY <1>0, <4>3 DEF WriteRunningState, FinishAck, FinishAckFails, HeartbeatLosesLease, SlotState
      <4> QED  BY <1>4, <4>1, <4>2, <4>3 DEF Runtime, RuntimeProgress, RuntimeFails
    <3>2. \A j \in Job : Renewing(s, j)' => Renewing(s, j)
      BY <1>2, <3>1, ConstantTypes DEF RuntimeMove, Renewing
    <3> QED  BY <1>2, <3>2 DEF Renewing
  <2>2. \/ UNCHANGED lease
        \/ slot[s].pc = "claim" /\ lease[slot[s].job] = NoWorker
             /\ lease' = [lease EXCEPT ![slot[s].job] = WorkerOf[s]] /\ slot'[s] = IdleSlot
        \/ slot[s].pc \in {"write", "release"} /\ lease[slot[s].job] = WorkerOf[s]
             /\ lease' = [lease EXCEPT ![slot[s].job] = NoWorker] /\ slot'[s] = IdleSlot
    BY <1>0, <1>4 DEF Runtime, RuntimeProgress, RuntimeFails, ReadState, DiscardMessage,
       StartJobFails, WriteRunningState, WriteRunningStateFails, HeartbeatLosesLease,
       FinishAck, FinishAckFails, FinishRelease, FinishReleaseFails, queueVars, ReleaseLease
  <2>3. ASSUME NEW j \in Job \ stolen', NEW t \in Slot, Renewing(t, j)',
               budget'["stall"] = MaxFaults["stall"]
        PROVE  lease'[j] = lease[j]
    <3>1. Renewing(t, j) /\ j \in Job \ stolen
      BY <1>1, <2>1, <2>3
    <3>2. lease[j] = WorkerOf[t] /\ \A q \in Slot : Renewing(q, j) => t = q
      BY <2>3, <3>1, StallsSpent DEF LeaseInv, LeaseHeld
    <3>3. slot'[s] = IdleSlot => t # s
      BY <2>3, ConstantTypes DEF Renewing
    <3>4. CASE slot[s].pc = "claim"
      BY <1>0, <2>2, <3>2, <3>4
    <3>5. CASE slot[s].pc = "release"
      BY <1>0, <1>1, <2>2, <2>3, <3>1, <3>3, <3>5
    <3>6. CASE slot[s].pc = "write"
      <4>1. slot[s].job \in Job /\ Renewing(s, slot[s].job)
        BY <1>0, <3>6 DEF Renewing, LeaseInv, TypeInv, SlotShape
      <4>2. slot'[s] = IdleSlot => slot[s].job # j
        BY <3>2, <3>3, <4>1
      <4> QED  BY <1>0, <2>2, <3>6, <4>2
    <3>7. CASE slot[s].pc \notin {"claim", "release", "write"}
      BY <2>2, <3>7
    <3> QED  BY <3>4, <3>5, <3>6, <3>7
  <2> QED  BY <1>1, <2>1, <2>3, LeaseKept
<1> QED  BY <1>3, <1>4

LEMMA TaskLease ==
  ASSUME LeaseInv, NEW s \in Slot, Task(s), Next
  PROVE  LeaseHeld'
<1>1. /\ \A t \in Slot \ {s} : slot'[t] = slot[t]
      /\ TaskMove(s)
  BY TaskSlot DEF LeaseInv
<1>2. \A j \in Job, t \in Slot : Renewing(t, j)' => Renewing(t, j)
  <2>1. \A j \in Job : Renewing(s, j)' => Renewing(s, j)
    BY <1>1, ConstantTypes DEF TaskMove, Renewing
  <2> QED  BY <1>1, <2>1 DEF Renewing
<1>3. CASE CancelFinish(s)
  <2>1. Steals(s) /\ (slot[s].pc = "release" \/ UNCHANGED lease)
    BY <1>3 DEF CancelFinish
  <2>2. stolen' = stolen \cup
          {j \in Job : /\ slot[s].pc = "release" /\ lease'[j] # lease[j]
                       /\ \E t \in Slot \ {s} : Renewing(t, j)}
    BY <2>1 DEF Steals
  <2>3. ASSUME NEW j \in Job \ stolen', NEW t \in Slot, Renewing(t, j)
        PROVE  lease'[j] = lease[j]
    <3>1. slot[s].pc = "release" => t # s
      BY <2>3 DEF Renewing
    <3> QED  BY <2>1, <2>2, <2>3, <3>1
  <2> QED  BY <1>2, <2>2, <2>3, LeaseKept
<1>4. CASE ~CancelFinish(s)
  <2>1. UNCHANGED <<lease, stolen>>
    BY <1>4 DEF Task, WorkStep, FailStep, CancelStep, Prepare, Scrape, ScrapeFails,
       ClaimUsername, ClaimUsernameFails, EnqueueBatch, EnqueueBatchFails, Finalize,
       CompleteJob, CompleteJobFails, CancelStart, CancelWork, queueModuleVars, resultVars
  <2> QED  BY <1>2, <2>1, LeaseKept
<1> QED  BY <1>3, <1>4

\* Redis ends a lease only while nobody renews it, or a heartbeat stalls.
LEMMA OtherLease ==
  ASSUME LeaseInv, Next \/ UNCHANGED vars, NEW w,
         Outside \/ UNCHANGED vars \/ (w \in Worker /\ (LoopStep(w) \/ SupervisorStep(w)))
  PROVE  LeaseHeld'
<1>0. /\ lease \in [Job -> Worker \cup {NoWorker}] /\ budget \in [FaultKind -> Nat]
      /\ "stall" \in FaultKind /\ MaxFaults["stall"] \in Nat
  BY StallsSpent DEF LeaseInv, TypeInv, TypeOK, QueueTypeOK, FaultKind
<1>1. UNCHANGED stolen
  BY OutsideFrame DEF vars, LoopStep, SupervisorStep, Acquire, PollReturns, PollEmpty, PollFails,
     Start, Stop, Stopped, Crash, resultVars
<1>2. \A t \in Slot, j \in Job : Renewing(t, j)' => Renewing(t, j)
  <2>1. CASE UNCHANGED slot
    BY <2>1 DEF Renewing
  <2>2. CASE Crash(w)
    <3>1. slot' = [s \in Slot |-> IF WorkerOf[s] = w THEN IdleSlot ELSE slot[s]]
      BY <2>2 DEF Crash, CrashWorker
    <3> QED  BY <3>1, ConstantTypes DEF Renewing
  <2>3. UNCHANGED slot \/ Crash(w)
    BY OutsideFrame DEF vars, LoopStep, SupervisorStep, Acquire, PollReturns, PollEmpty,
       PollFails, ReadReclaimed, ReadNew, Start, Stop, Stopped, queueModuleVars, slotVars
  <2> QED  BY <2>1, <2>2, <2>3
<1>3. CASE UNCHANGED lease
  BY <1>1, <1>2, <1>3, LeaseKept
<1>4. CASE RedisStep
  <2>1. PICK j \in Job : LeaseTtlEnds(j) \/ LeaseStalls(j) \/ JobExpires(j)
    BY <1>4 DEF RedisStep
  <2>2. CASE LeaseTtlEnds(j)
    <3>1. /\ lease' = [lease EXCEPT ![j] = NoWorker]
          /\ \A s \in Slot : WorkerOf[s] = lease[j] => ~Renewing(s, j)
      BY <2>2 DEF LeaseTtlEnds
    <3>2. ASSUME NEW i \in Job \ stolen', NEW t \in Slot, Renewing(t, i)',
                 budget'["stall"] = MaxFaults["stall"]
          PROVE  lease'[i] = lease[i]
      <4>1. Renewing(t, i) /\ i \in Job \ stolen
        BY <1>1, <1>2, <3>2
      <4>2. lease[i] = WorkerOf[t]
        BY <3>2, <4>1, StallsSpent DEF LeaseInv, LeaseHeld
      <4>3. i # j
        BY <3>1, <4>1, <4>2
      <4> QED  BY <1>0, <3>1, <4>3
    <3> QED  BY <1>1, <1>2, <3>2, LeaseKept
  <2>3. CASE LeaseStalls(j)
    <3>1. budget'["stall"] < budget["stall"]
      BY <1>0, <2>3, SpendType DEF LeaseStalls
    <3>2. budget'["stall"] # MaxFaults["stall"]
      <4>1. budget["stall"] <= MaxFaults["stall"] /\ budget["stall"] \in Nat /\ budget'["stall"] \in Nat
        BY <1>0, <2>3, SpendType DEF LeaseStalls, LeaseInv
      <4> QED  BY <1>0, <3>1, <4>1
    <3> QED  BY <3>2 DEF LeaseHeld
  <2>4. CASE JobExpires(j)
    BY <1>3, <2>4 DEF JobExpires
  <2> QED  BY <2>1, <2>2, <2>3, <2>4
<1>5. UNCHANGED lease \/ RedisStep
  BY DEF Outside, Submit, vars, LoopStep, SupervisorStep, Acquire, PollReturns, PollEmpty,
     PollFails, ReadReclaimed, ReadNew, Start, Stop, Stopped, Crash, CrashWorker,
     queueModuleVars
<1> QED  BY <1>3, <1>4, <1>5

\* A job has one task working under its lease, though the tasks of a process share one
\* token, unless heartbeats stalled or another task's release stole the lease.
THEOREM OneTask == Spec => []OneTaskPerJob
<1>1. Init => LeaseInv
  BY InitTypeInv, ConstantTypes, JobQueueAssumption DEF Init, QueueInit, LeaseInv, LeaseHeld,
     Renewing, FaultKind
<1>2. LeaseInv /\ [Next]_vars => LeaseInv'
  <2> SUFFICES ASSUME LeaseInv, [Next]_vars PROVE LeaseInv'
    OBVIOUS
  <2>1. TypeInv' /\ budget'["stall"] <= MaxFaults["stall"]
    BY NextTypeInv, StallsSpent DEF LeaseInv
  <2>2. LeaseHeld'
    BY NextKinds, RuntimeLease, TaskLease, OtherLease
  <2> QED  BY <2>1, <2>2 DEF LeaseInv
<1>3. LeaseInv => OneTaskPerJob
  BY DEF LeaseInv, LeaseHeld, OneTaskPerJob, Executing, Renewing
<1> QED  BY <1>1, <1>2, <1>3, PTL DEF Spec
=============================================================================
