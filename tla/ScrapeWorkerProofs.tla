------------------------- MODULE ScrapeWorkerProofs -------------------------
(***************************************************************************)
(* Proofs about ScrapeWorker for every number of jobs, workers, requests   *)
(* and faults: the types, that the queue never swallows a job, that a job  *)
(* has one executor at a time while heartbeats reach Redis, that a         *)
(* completion answered as a duplicate was notified, that the system keeps  *)
(* the promises of JobOutcome, and that executions use up attempts.        *)
(***************************************************************************)
EXTENDS ScrapeWorker, FiniteSetTheorems, TLAPS

-----------------------------------------------------------------------------
\* Types

\* Spending a fault leaves a budget of natural numbers.
LEMMA SpendType ==
  ASSUME budget \in [FaultKind -> Nat], NEW kind \in FaultKind, Spend(kind)
  PROVE  budget' \in [FaultKind -> Nat]
BY DEF Spend

\* The saturating attempt counter stays in its range.
LEMMA NextAttemptType ==
  ASSUME NEW n \in 0 .. MaxAttempts + 1
  PROVE  NextAttempt(n) \in 0 .. MaxAttempts + 1
BY JobQueueAssumption DEF NextAttempt

\* The null records of slot, hash and request have their types.
LEMMA ConstantTypes ==
  /\ IdleSlot \in SlotState
  /\ NoState \in StateHash
  /\ FreeCall \in CallState
BY JobQueueAssumption
   DEF IdleSlot, SlotState, SlotPc, NoState, StateHash, FreeCall, CallState, CallPc, Terminal

\* Moving a slot on, with or without an attempt number, keeps its type.
LEMMA SlotUpdateType ==
  ASSUME NEW f \in [Slot -> SlotState], NEW s \in Slot, NEW p \in SlotPc,
         NEW n \in 0 .. MaxAttempts + 1
  PROVE  /\ [f EXCEPT ![s].pc = p] \in [Slot -> SlotState]
         /\ [f EXCEPT ![s].pc = p, ![s].attempt = n] \in [Slot -> SlotState]
BY DEF SlotState

\* write_running_state, complete or cut short, leaves a state hash.
LEMMA RunningStateType ==
  ASSUME NEW h \in StateHash
  PROVE  RunningState(h) \in StateHash /\ [h EXCEPT !.attempts = NextAttempt(@)] \in StateHash
BY NextAttemptType DEF RunningState, StateHash

\* XACK and XDEL keep the types of the pending list and the stream.
LEMMA AckMessageType ==
  ASSUME QueueTypeOK, NEW j \in Job, AckMessage(j)
  PROVE  pel' \in [Job -> Worker \cup {NoWorker}] /\ stream' \subseteq Job
BY DEF QueueTypeOK, AckMessage

\* The release script keeps the type of the leases.
LEMMA ReleaseLeaseType ==
  ASSUME QueueTypeOK, NEW s \in Slot, NEW j \in Job, ReleaseLease(s, j)
  PROVE  lease' \in [Job -> Worker \cup {NoWorker}]
BY DEF QueueTypeOK, ReleaseLease

\* expire_state leaves state hashes.
LEMMA ExpireStateType ==
  ASSUME QueueTypeOK, NEW j \in Job, ExpireState(j) \/ UNCHANGED hash
  PROVE  hash' \in [Job -> StateHash]
BY ConstantTypes DEF QueueTypeOK, ExpireState

\* XADD gives the job an entry id and keeps finitely many entries enqueued.
LEMMA AppendMessageType ==
  ASSUME QueueTypeOK, IsFiniteSet(Enqueued), NEW j \in Job, AppendMessage(j)
  PROVE  stream' \subseteq Job /\ streamId' \in [Job -> Nat] /\ IsFiniteSet(Enqueued')
<1>1. Cardinality(Enqueued) \in Nat
  BY FS_CardinalityType
<1>2. streamId' = [streamId EXCEPT ![j] = Cardinality(Enqueued) + 1]
  BY DEF AppendMessage
<1>3. streamId' \in [Job -> Nat]
  BY <1>1, <1>2 DEF QueueTypeOK
<1>4. Enqueued' \subseteq Enqueued \cup {j}
  BY <1>2 DEF Enqueued, QueueTypeOK
<1>5. IsFiniteSet(Enqueued \cup {j})
  BY FS_AddElement
<1>6. IsFiniteSet(Enqueued')
  BY <1>4, <1>5, FS_Subset
<1>7. stream' \subseteq Job
  BY DEF AppendMessage, QueueTypeOK
<1> QED  BY <1>3, <1>6, <1>7

-----------------------------------------------------------------------------
\* What slots and requests in flight know about each other

\* A slot outside "poll" has a job, and so has a request.
BusySlots == \A s \in Slot : slot[s].pc # "poll" => slot[s].job \in Job
BusyCalls == \A c \in Call : call[c].pc # "free" => call[c].job \in Job

\* A slot waits for a request in flight about its own job.
Waiting ==
  \A s \in Slot : slot[s].pc = "wait" =>
    /\ slot[s].call \in Call
    /\ call[slot[s].call].pc # "free"
    /\ call[slot[s].call].job = slot[s].job

TypeInv == TypeOK /\ IsFiniteSet(Enqueued) /\ BusySlots /\ BusyCalls /\ Waiting

\* Every step of JobWorkerRuntime keeps the types of the queue.
LEMMA QueueStepTypes ==
  ASSUME QueueTypeOK, BusySlots, NEW s \in Slot, QueueStep(s)
  PROVE  QueueTypeOK'
<1> USE JobQueueAssumption
<1>0. /\ slot[s] \in SlotState
      /\ slot[s].pc # "poll" => slot[s].job \in Job
      /\ WorkerOf[s] \in Worker
  BY DEF QueueTypeOK, BusySlots
<1>1. ASSUME NEW S \in SUBSET stream, ReadReclaimed(s, S) PROVE QueueTypeOK'
  BY <1>0, <1>1 DEF QueueTypeOK, ReadReclaimed
<1>2. ASSUME NEW j \in Job, ReadNew(s, j) PROVE QueueTypeOK'
  BY <1>0, <1>2 DEF QueueTypeOK, ReadNew
<1>3. CASE ReadState(s)
  BY <1>0, <1>3 DEF QueueTypeOK, ReadState, queueVars, SlotState, SlotPc
<1>4. CASE DiscardMessage(s)
  <2>1. slot[s].job \in Job
    BY <1>0, <1>4 DEF DiscardMessage
  <2>2. hash' \in [Job -> StateHash]
    BY <1>4, <2>1, ExpireStateType DEF DiscardMessage
  <2>3. pel' \in [Job -> Worker \cup {NoWorker}] /\ stream' \subseteq Job
    BY <1>4, <2>1, AckMessageType DEF DiscardMessage
  <2> QED  BY <1>4, <2>2, <2>3, ConstantTypes DEF QueueTypeOK, DiscardMessage
<1>5. CASE ClaimLease(s)
  <2>1. \/ slot' = [slot EXCEPT ![s].pc = "write"]
        \/ slot' = [slot EXCEPT ![s] = IdleSlot]
    BY <1>5 DEF ClaimLease
  <2>2. slot' \in [Slot -> SlotState]
    <3>1. "write" \in SlotPc
      BY DEF SlotPc
    <3>2. [slot EXCEPT ![s].pc = "write"] \in [Slot -> SlotState]
      BY <1>0, <3>1, SlotUpdateType DEF QueueTypeOK, SlotState
    <3>3. [slot EXCEPT ![s] = IdleSlot] \in [Slot -> SlotState]
      BY ConstantTypes DEF QueueTypeOK
    <3> QED  BY <2>1, <3>2, <3>3, Zenon
  <2>3. lease' \in [Job -> Worker \cup {NoWorker}]
    BY <1>0, <1>5 DEF QueueTypeOK, ClaimLease
  <2> QED  BY <1>5, <2>2, <2>3 DEF QueueTypeOK, ClaimLease, queueVars
<1>6. CASE StartJobFails(s)
  <2>1. budget' \in [FaultKind -> Nat]
    BY <1>6, SpendType DEF QueueTypeOK, StartJobFails, FaultKind
  <2>2. hash' \in [Job -> StateHash]
    BY <1>0, <1>6, ExpireStateType DEF QueueTypeOK, StartJobFails
  <2>3. /\ pel' \in [Job -> Worker \cup {NoWorker}]
        /\ lease' \in [Job -> Worker \cup {NoWorker}]
    BY <1>0, <1>6 DEF QueueTypeOK, StartJobFails
  <2> QED  BY <1>6, <2>1, <2>2, <2>3, ConstantTypes DEF QueueTypeOK, StartJobFails
<1>7. CASE WriteRunningState(s)
  <2>1. slot[s].job \in Job
    BY <1>0, <1>7 DEF WriteRunningState
  <2>2. hash[slot[s].job] \in StateHash
    BY <2>1 DEF QueueTypeOK
  <2>3. NextAttempt(hash[slot[s].job].attempts) \in 0 .. MaxAttempts + 1
    BY <2>2, NextAttemptType DEF StateHash
  <2>4. hash' \in [Job -> StateHash]
    BY <1>7, <2>2, RunningStateType DEF QueueTypeOK, WriteRunningState
  <2>5. slot' \in [Slot -> SlotState]
    <3>1. "execute" \in SlotPc
      BY DEF SlotPc
    <3>2. slot' = [slot EXCEPT ![s].pc = "execute",
                               ![s].attempt = NextAttempt(hash[slot[s].job].attempts)]
      BY <1>7 DEF WriteRunningState
    <3> QED  BY <2>3, <3>1, <3>2, SlotUpdateType DEF QueueTypeOK
  <2> QED  BY <1>7, <2>4, <2>5 DEF QueueTypeOK, WriteRunningState, queueVars
<1>8. CASE WriteRunningStateFails(s)
  BY <1>0, <1>8, RunningStateType, SpendType, ReleaseLeaseType, ConstantTypes
     DEF QueueTypeOK, WriteRunningStateFails, queueVars, FaultKind
<1>9. CASE HeartbeatLosesLease(s)
  BY <1>0, <1>9, SpendType DEF QueueTypeOK, HeartbeatLosesLease, queueVars, FaultKind, SlotState
<1>10. CASE FinishAck(s)
  BY <1>0, <1>10, AckMessageType DEF QueueTypeOK, FinishAck, SlotState, SlotPc
<1>11. CASE FinishAckFails(s)
  BY <1>0, <1>11, SpendType DEF QueueTypeOK, FinishAckFails, SlotState, SlotPc, FaultKind
<1>12. CASE FinishRelease(s)
  BY <1>0, <1>12, ReleaseLeaseType, ExpireStateType, ConstantTypes
     DEF QueueTypeOK, FinishRelease, queueVars
<1>13. CASE FinishReleaseFails(s)
  BY <1>0, <1>13, SpendType, ConstantTypes
     DEF QueueTypeOK, FinishReleaseFails, queueVars, FaultKind
<1> QED
  BY <1>1, <1>2, <1>3, <1>4, <1>5, <1>6, <1>7, <1>8, <1>9, <1>10, <1>11, <1>12, <1>13
     DEF QueueStep

\* What a step of the queue does to the slot that takes it.
SlotMove(s) ==
  \/ slot'[s] = IdleSlot
  \/ /\ slot'[s].job \in Job
     /\ slot[s].pc = "poll" => slot'[s].pc \in {"poll", "discard", "expire", "claim"}
     /\ slot[s].pc # "poll" => slot'[s].job = slot[s].job
     /\ slot'[s].pc = "wait" => slot[s].pc = "wait"
     /\ slot'[s].call = slot[s].call
  \/ slot'[s] = slot[s]

\* A step of the queue at one slot keeps the other slots, and gives a slot that
\* gets past start_job a job.
LEMMA QueueStepSlot ==
  ASSUME QueueTypeOK, BusySlots, NEW s \in Slot, QueueStep(s)
  PROVE  SlotMove(s)
<1> USE JobQueueAssumption
<1>0. /\ slot \in [Slot -> SlotState] /\ batch[s] \subseteq Job
      /\ slot[s].pc # "poll" => slot[s].job \in Job
  BY DEF QueueTypeOK, BusySlots
<1>1. ASSUME NEW S \in SUBSET stream, ReadReclaimed(s, S) PROVE SlotMove(s)
  BY <1>1 DEF ReadReclaimed, SlotMove
<1>2. ASSUME NEW j \in Job, ReadNew(s, j) PROVE SlotMove(s)
  BY <1>2 DEF ReadNew, SlotMove
<1>3. CASE ReadState(s)
  BY <1>0, <1>3 DEF ReadState, SlotMove, SlotState
<1>4. CASE DiscardMessage(s) \/ StartJobFails(s) \/ WriteRunningStateFails(s)
           \/ FinishRelease(s) \/ FinishReleaseFails(s)
  BY <1>0, <1>4 DEF DiscardMessage, StartJobFails, WriteRunningStateFails, FinishRelease,
                    FinishReleaseFails, SlotMove
<1>5. CASE ClaimLease(s)
  BY <1>0, <1>5 DEF ClaimLease, SlotMove, SlotState
<1>6. CASE WriteRunningState(s)
  BY <1>0, <1>6 DEF WriteRunningState, SlotMove, SlotState
<1>7. CASE HeartbeatLosesLease(s)
  BY <1>0, <1>7 DEF HeartbeatLosesLease, SlotMove, SlotState
<1>8. CASE FinishAck(s) \/ FinishAckFails(s)
  BY <1>0, <1>8 DEF FinishAck, FinishAckFails, SlotMove, SlotState
<1> QED  BY <1>1, <1>2, <1>3, <1>4, <1>5, <1>6, <1>7, <1>8 DEF QueueStep

\* What a step of the queue leaves alone.
LEMMA QueueStepFrame ==
  ASSUME QueueTypeOK, NEW s \in Slot, QueueStep(s)
  PROVE  /\ UNCHANGED <<streamId, expired>> /\ UNCHANGED backendVars
         /\ \A t \in Slot : t # s => slot'[t] = slot[t]
<1>1. UNCHANGED <<streamId, expired>> /\ UNCHANGED backendVars
  BY DEF QueueStep, ReadReclaimed, ReadNew, ReadState, DiscardMessage,
         ClaimLease, StartJobFails, WriteRunningState, WriteRunningStateFails,
         HeartbeatLosesLease, FinishAck, FinishAckFails, FinishRelease,
         FinishReleaseFails, queueVars
<1>2. \A t \in Slot : t # s => slot'[t] = slot[t]
  BY DEF QueueTypeOK, QueueStep, ReadReclaimed, ReadNew, ReadState, DiscardMessage,
         ClaimLease, StartJobFails, WriteRunningState, WriteRunningStateFails,
         HeartbeatLosesLease, FinishAck, FinishAckFails, FinishRelease,
         FinishReleaseFails, queueVars
<1> QED  BY <1>1, <1>2

\* A step of the queue starts no request, and a slot it leaves waiting waited before.
LEMMA QueueStepWaiting ==
  ASSUME TypeInv, NEW s \in Slot, QueueStep(s)
  PROVE  IsFiniteSet(Enqueued') /\ BusySlots' /\ BusyCalls' /\ Waiting'
<1> USE JobQueueAssumption
<1>1. UNCHANGED <<call, streamId>>
  BY QueueStepFrame DEF TypeInv, TypeOK, backendVars
<1>2. /\ slot \in [Slot -> SlotState] /\ \A t \in Slot : batch[t] \subseteq Job
      /\ slot[s].pc # "poll" => slot[s].job \in Job
  BY DEF TypeInv, TypeOK, QueueTypeOK, BusySlots
<1>3. \A t \in Slot : t # s => slot'[t] = slot[t]
  BY QueueStepFrame DEF TypeInv, TypeOK
<1>4. /\ slot'[s].pc # "poll" => slot'[s].job \in Job
      /\ slot'[s].pc = "wait" => /\ slot[s].pc = "wait"
                                 /\ slot'[s].job = slot[s].job
                                 /\ slot'[s].call = slot[s].call
  BY <1>2, QueueStepSlot DEF TypeInv, TypeOK, SlotMove, IdleSlot
<1>5. IsFiniteSet(Enqueued')
  BY <1>1 DEF TypeInv, Enqueued
<1> QED  BY <1>1, <1>3, <1>4, <1>5 DEF TypeInv, BusySlots, BusyCalls, Waiting

-----------------------------------------------------------------------------
\* The types are kept by the steps of the worker, the environment and the backend

\* The end of an execution keeps slots and requests typed and consistent.
LEMMA FinalizeTypes ==
  ASSUME TypeInv, NEW s \in Slot, slot[s].pc = "execute",
         NEW outcome \in ExecutionResult, Finalize(s, outcome)
  PROVE  /\ slot' \in [Slot -> SlotState] /\ call' \in [Call -> CallState]
         /\ BusySlots' /\ BusyCalls' /\ Waiting'
<1> USE JobQueueAssumption
<1>1. /\ slot \in [Slot -> SlotState] /\ call \in [Call -> CallState]
      /\ slot[s] \in SlotState /\ slot[s].job \in Job
  BY DEF TypeInv, TypeOK, QueueTypeOK, CompletionTypeOK, BusySlots
<1>2. CASE UNCHANGED call /\ \/ slot' = [slot EXCEPT ![s].pc = "finish"]
                             \/ slot' = [slot EXCEPT ![s].pc = "finish", ![s].ack = TRUE]
  <2>1. slot' \in [Slot -> SlotState]
    BY <1>1, <1>2 DEF SlotState, SlotPc
  <2>2. BusySlots' /\ Waiting'
    BY <1>1, <1>2 DEF TypeInv, BusySlots, Waiting, SlotState
  <2> QED  BY <1>1, <1>2, <2>1, <2>2 DEF TypeInv, BusyCalls
<1>3. ASSUME NEW c \in Call, call[c].pc = "free",
             call' = [call EXCEPT ![c] =
               [pc |-> "arrived", job |-> slot[s].job, status |-> outcome.status,
                charge |-> outcome.charge, attempt |-> slot[s].attempt]],
             slot' = [slot EXCEPT ![s].pc = "wait", ![s].call = c]
      PROVE  /\ slot' \in [Slot -> SlotState] /\ call' \in [Call -> CallState]
             /\ BusySlots' /\ BusyCalls' /\ Waiting'
  <2>1. outcome.status \in Terminal /\ outcome.charge \in BOOLEAN
    BY DEF ExecutionResult, Terminal
  <2>2. slot' \in [Slot -> SlotState]
    BY <1>1, <1>3 DEF SlotState, SlotPc
  <2>3. slot[s].attempt \in 0 .. MaxAttempts + 1
    BY <1>1 DEF SlotState
  <2>4. call' \in [Call -> CallState]
    BY <1>1, <1>3, <2>1, <2>3 DEF CallState, CallPc
  <2>5. BusySlots' /\ BusyCalls'
    BY <1>1, <1>3 DEF TypeInv, BusySlots, BusyCalls, SlotState, CallState
  <2>6. Waiting'
    BY <1>1, <1>3 DEF TypeInv, Waiting, SlotState, CallState
  <2> QED  BY <2>2, <2>4, <2>5, <2>6
<1> QED  BY <1>2, <1>3 DEF Finalize

\* Every step of process_message keeps the types and the links to requests.
LEMMA ProcessStepTypes ==
  ASSUME TypeInv, NEW s \in Slot, ProcessStep(s)
  PROVE  TypeInv'
<1> USE JobQueueAssumption
<1>1. /\ TypeOK /\ slot[s] \in SlotState
      /\ slot[s].pc # "poll" => slot[s].job \in Job
  BY DEF TypeInv, TypeOK, QueueTypeOK, BusySlots
<1>2. CASE Execute(s)
  <2>1. PICK outcome \in ExecutionResult : Finalize(s, outcome)
    BY <1>2 DEF Execute
  <2>2. /\ slot' \in [Slot -> SlotState] /\ call' \in [Call -> CallState]
        /\ BusySlots' /\ BusyCalls' /\ Waiting'
    BY <1>2, <2>1, FinalizeTypes DEF Execute
  <2>3. executions' \in [Job -> Nat]
    BY <1>1, <1>2 DEF Execute, TypeOK, QueueTypeOK
  <2>4. TypeOK' /\ IsFiniteSet(Enqueued')
    BY <1>2, <2>2, <2>3
       DEF Execute, TypeInv, TypeOK, QueueTypeOK, CompletionTypeOK, queueVars, Enqueued
  <2> QED  BY <2>2, <2>4 DEF TypeInv
<1>3. CASE GiveUp(s)
  <2> DEFINE outcome == [status |-> "failed", charge |-> FALSE]
  <2>1. outcome \in ExecutionResult
    BY DEF ExecutionResult
  <2>2. Finalize(s, outcome) /\ slot[s].pc = "execute"
    BY <1>3 DEF GiveUp
  <2> HIDE DEF outcome
  <2>3. /\ slot' \in [Slot -> SlotState] /\ call' \in [Call -> CallState]
        /\ BusySlots' /\ BusyCalls' /\ Waiting'
    BY <2>1, <2>2, FinalizeTypes
  <2>4. TypeOK' /\ IsFiniteSet(Enqueued')
    BY <1>3, <2>3
       DEF GiveUp, TypeInv, TypeOK, QueueTypeOK, CompletionTypeOK, queueVars, Enqueued
  <2> QED  BY <2>3, <2>4 DEF TypeInv
<1>4. CASE ExecuteDependencyFails(s) \/ RequestTimesOut(s)
  <2>1. budget' \in [FaultKind -> Nat]
    BY <1>1, <1>4, SpendType
       DEF ExecuteDependencyFails, RequestTimesOut, FaultKind, TypeOK, QueueTypeOK
  <2>2. slot' \in [Slot -> SlotState]
    <3>1. CASE ExecuteDependencyFails(s)
      BY <1>1, <3>1 DEF ExecuteDependencyFails, TypeOK, QueueTypeOK, SlotState, SlotPc
    <3>2. CASE RequestTimesOut(s)
      BY <1>1, <3>2 DEF RequestTimesOut, TypeOK, QueueTypeOK, SlotState, SlotPc
    <3> QED  BY <1>4, <3>1, <3>2
  <2>3. executions' \in [Job -> Nat]
    BY <1>1, <1>4 DEF ExecuteDependencyFails, RequestTimesOut, TypeOK, QueueTypeOK
  <2>4. TypeOK' /\ IsFiniteSet(Enqueued') /\ UNCHANGED call
    BY <1>4, <2>1, <2>2, <2>3
       DEF ExecuteDependencyFails, RequestTimesOut, TypeInv, TypeOK, QueueTypeOK,
           CompletionTypeOK, queueVars, backendVars, Enqueued
  <2>5. /\ slot[s].pc # "poll" /\ slot \in [Slot -> SlotState]
        /\ \A t \in Slot : t # s => slot'[t] = slot[t]
        /\ slot'[s].pc = "finish" /\ slot'[s].job = slot[s].job
    BY <1>1, <1>4
       DEF ExecuteDependencyFails, RequestTimesOut, TypeOK, QueueTypeOK, SlotState
  <2>6. BusySlots' /\ Waiting' /\ BusyCalls'
    BY <1>1, <2>4, <2>5 DEF TypeInv, BusySlots, BusyCalls, Waiting
  <2> QED  BY <2>4, <2>6 DEF TypeInv
<1> QED  BY <1>2, <1>3, <1>4 DEF ProcessStep

\* Lapsing leases, expiry and crashes keep the types and the links to requests.
LEMMA EnvironmentStepTypes ==
  ASSUME TypeInv, EnvironmentStep
  PROVE  TypeInv'
<1> USE JobQueueAssumption
<1>1. CompletionTypeOK' /\ UNCHANGED call
  BY DEF TypeInv, TypeOK, CompletionTypeOK, EnvironmentStep, backendVars
<1>2. ASSUME NEW j \in Job, LeaseTtlEnds(j) \/ LeaseStalls(j) \/ JobExpires(j) PROVE TypeInv'
  <2>1. budget' \in [FaultKind -> Nat]
    BY <1>2, SpendType
       DEF LeaseTtlEnds, LeaseStalls, JobExpires, FaultKind, TypeInv, TypeOK, QueueTypeOK
  <2>2. UNCHANGED <<stream, streamId, delivered, pel, slot, batch, executions>>
    BY <1>2 DEF LeaseTtlEnds, LeaseStalls, JobExpires, queueVars, slotVars
  <2>3. /\ lease' \in [Job -> Worker \cup {NoWorker}]
        /\ hash' \in [Job -> StateHash] /\ expired' \subseteq Job
    BY <1>2, ConstantTypes
       DEF LeaseTtlEnds, LeaseStalls, JobExpires, TypeInv, TypeOK, QueueTypeOK
  <2> QED  BY <1>1, <2>1, <2>2, <2>3
              DEF TypeInv, TypeOK, QueueTypeOK, Enqueued, BusySlots, BusyCalls, Waiting
<1>3. ASSUME NEW w \in Worker, CrashWorker(w) PROVE TypeInv'
  <2>1. budget' \in [FaultKind -> Nat]
    BY <1>3, SpendType DEF CrashWorker, FaultKind, TypeInv, TypeOK, QueueTypeOK
  <2>2. UNCHANGED <<stream, streamId, delivered, pel, hash, lease, expired, executions>>
    BY <1>3 DEF CrashWorker, queueVars
  <2>3. slot' \in [Slot -> SlotState] /\ batch' \in [Slot -> SUBSET Job]
    BY <1>3, ConstantTypes DEF CrashWorker, TypeInv, TypeOK, QueueTypeOK
  <2>4. \A s \in Slot : slot'[s] = slot[s] \/ slot'[s] = IdleSlot
    BY <1>3 DEF CrashWorker
  <2>5. BusySlots' /\ Waiting' /\ BusyCalls'
    BY <1>1, <2>4 DEF TypeInv, BusySlots, BusyCalls, Waiting, IdleSlot
  <2> QED  BY <1>1, <2>1, <2>2, <2>3, <2>5 DEF TypeInv, TypeOK, QueueTypeOK, Enqueued
<1> QED  BY <1>2, <1>3 DEF EnvironmentStep

\* The strengthened type invariant under steps of the queue.
LEMMA QueueStepTypeInv ==
  ASSUME TypeInv, NEW s \in Slot, QueueStep(s)
  PROVE  TypeInv'
<1>1. QueueTypeOK'
  BY QueueStepTypes DEF TypeInv, TypeOK
<1>2. CompletionTypeOK'
  BY DEF TypeInv, TypeOK, CompletionTypeOK, QueueStep, backendVars
<1> QED  BY <1>1, <1>2, QueueStepWaiting DEF TypeInv, TypeOK

\* The strengthened type invariant under the creation of a job.
LEMMA CreateStepTypeInv ==
  ASSUME TypeInv, NEW j \in Job, CreateStep(j)
  PROVE  TypeInv'
<1> USE JobQueueAssumption
<1>1. UNCHANGED <<delivered, pel, lease, expired, slot, batch, executions, events, accepted, call>>
  BY DEF CreateStep, ReserveUsage, InsertProjection, WriteQueuedState, EnqueueMessage,
         EnqueueFails, DeleteProjection, ReleaseReservation, AttachJobId, CrashRequest,
         queueVars, slotVars
<1>2. /\ create' \in [Job -> CreatePc]
      /\ projection' \in [Job -> {"absent", "queued"} \cup Terminal]
      /\ reservation' \in [Job -> ReservationState]
  BY DEF CreateStep, ReserveUsage, InsertProjection, WriteQueuedState, EnqueueMessage,
         EnqueueFails, DeleteProjection, ReleaseReservation, AttachJobId, CrashRequest,
         TypeInv, TypeOK, CompletionTypeOK, CreatePc, ReservationState
<1>3. hash' \in [Job -> StateHash]
  <2>1. [status |-> "queued", attempts |-> 0, event |-> FALSE] \in StateHash
    BY DEF StateHash
  <2>2. hash \in [Job -> StateHash]
    BY DEF TypeInv, TypeOK, QueueTypeOK
  <2> QED
    BY <2>1, <2>2, ConstantTypes
       DEF CreateStep, ReserveUsage, InsertProjection, WriteQueuedState, EnqueueMessage,
         EnqueueFails, DeleteProjection, ReleaseReservation, AttachJobId, CrashRequest
<1>4. budget' \in [FaultKind -> Nat]
  <2>1. UNCHANGED budget \/ Spend("enqueue") \/ Spend("crash")
    BY DEF CreateStep, ReserveUsage, InsertProjection, WriteQueuedState, EnqueueMessage,
         EnqueueFails, DeleteProjection, ReleaseReservation, AttachJobId, CrashRequest
  <2> QED  BY <2>1, SpendType DEF TypeInv, TypeOK, QueueTypeOK, FaultKind
<1>5. stream' \subseteq Job /\ streamId' \in [Job -> Nat] /\ IsFiniteSet(Enqueued')
  <2>1. UNCHANGED <<stream, streamId>> \/ AppendMessage(j)
    BY DEF CreateStep, ReserveUsage, InsertProjection, WriteQueuedState, EnqueueMessage,
         EnqueueFails, DeleteProjection, ReleaseReservation, AttachJobId, CrashRequest,
         queueVars
  <2>2. CASE UNCHANGED <<stream, streamId>>
    BY <2>2 DEF TypeInv, TypeOK, QueueTypeOK, Enqueued
  <2>3. CASE AppendMessage(j)
    BY <2>3, AppendMessageType DEF TypeInv, TypeOK
  <2> QED  BY <2>1, <2>2, <2>3
<1> QED
  BY <1>1, <1>2, <1>3, <1>4, <1>5
     DEF TypeInv, TypeOK, QueueTypeOK, CompletionTypeOK, BusySlots, BusyCalls, Waiting

\* What a response does to a slot: the one that waits for it goes on to finish.
LEMMA ReplySlot ==
  ASSUME slot \in [Slot -> SlotState], NEW c \in Call, NEW ack \in BOOLEAN,
         NEW drop \in BOOLEAN, Reply(c, ack, drop), NEW s \in Slot
  PROVE  \/ /\ ~(slot[s].pc = "wait" /\ slot[s].call = c)
            /\ slot'[s] = slot[s]
         \/ /\ slot[s].pc = "wait" /\ slot[s].call = c
            /\ slot'[s] \in SlotState /\ slot'[s].pc = "finish"
            /\ slot'[s].job = slot[s].job /\ slot'[s].ack = ack
<1> USE JobQueueAssumption
<1>1. CASE slot[s].pc = "wait" /\ slot[s].call = c
  <2>1. slot'[s] = [slot[s] EXCEPT !.pc = "finish", !.ack = ack,
                                   !.drop = drop, !.call = NoCall]
    BY <1>1 DEF Reply
  <2>2. slot[s] \in SlotState
    OBVIOUS
  <2> DEFINE r == slot[s]
             a == slot'[s]
  <2>3. r \in SlotState /\ a = [r EXCEPT !.pc = "finish", !.ack = ack,
                                         !.drop = drop, !.call = NoCall]
    BY <2>1, <2>2
  <2> HIDE DEF r, a
  <2>4. a \in SlotState /\ a.pc = "finish" /\ a.job = r.job /\ a.ack = ack
    BY <2>3 DEF SlotState, SlotPc
  <2> QED  BY <1>1, <2>4 DEF r, a
<1>2. CASE ~(slot[s].pc = "wait" /\ slot[s].call = c)
  BY <1>2 DEF Reply
<1> QED  BY <1>1, <1>2

\* A response leaves slots and requests consistent.
LEMMA ReplyTypes ==
  ASSUME TypeInv, NEW c \in Call, NEW ack \in BOOLEAN, NEW drop \in BOOLEAN,
         Reply(c, ack, drop)
  PROVE  /\ slot' \in [Slot -> SlotState] /\ call' \in [Call -> CallState]
         /\ BusySlots' /\ BusyCalls' /\ Waiting'
<1> USE JobQueueAssumption
<1>1. /\ slot \in [Slot -> SlotState] /\ call \in [Call -> CallState]
  BY DEF TypeInv, TypeOK, QueueTypeOK, CompletionTypeOK
<1>2. ASSUME NEW s \in Slot
      PROVE  /\ slot'[s] \in SlotState
             /\ slot'[s].job = slot[s].job
             /\ slot'[s].pc # "poll" => slot[s].pc # "poll"
             /\ slot'[s].pc = "wait" => slot'[s] = slot[s] /\ slot[s].call # c
  <2>1. slot[s] \in SlotState
    BY <1>1
  <2>2. CASE slot'[s] = slot[s] /\ ~(slot[s].pc = "wait" /\ slot[s].call = c)
    BY <2>1, <2>2
  <2>3. CASE /\ slot[s].pc = "wait" /\ slot'[s] \in SlotState
             /\ slot'[s].pc = "finish" /\ slot'[s].job = slot[s].job
    BY <2>3
  <2> QED  BY <1>1, <2>2, <2>3, ReplySlot
<1>3. slot' \in [Slot -> SlotState]
  <2>1. slot' = [s \in Slot |-> slot'[s]]
    BY DEF Reply
  <2> QED  BY <1>2, <2>1
<1>4. call' \in [Call -> CallState]
  BY <1>1, ConstantTypes DEF Reply
<1>5. BusySlots'
  BY <1>2 DEF TypeInv, BusySlots
<1>6. BusyCalls'
  BY <1>1 DEF TypeInv, BusyCalls, Reply, FreeCall
<1>7. Waiting'
  BY <1>1, <1>2 DEF TypeInv, Waiting, Reply
<1> QED  BY <1>3, <1>4, <1>5, <1>6, <1>7

\* The strengthened type invariant under the steps of complete_job.
LEMMA CallStepTypeInv ==
  ASSUME TypeInv, NEW c \in Call, CallStep(c)
  PROVE  TypeInv'
<1> USE JobQueueAssumption
<1>1. UNCHANGED <<stream, streamId, delivered, pel, lease, expired, batch, executions, create>>
  BY DEF CallStep, ClaimTerminalState, UpdateProjection, FinalizeBilling, PublishEvent,
         CompleteTerminalState, CallFails, queueVars, slotVars
<1>2. /\ call[c] \in CallState /\ call \in [Call -> CallState]
      /\ hash \in [Job -> StateHash] /\ slot \in [Slot -> SlotState]
      /\ budget \in [FaultKind -> Nat]
  BY DEF TypeInv, TypeOK, QueueTypeOK, CompletionTypeOK
<1>3. call[c].pc # "free"
  BY DEF CallStep, ClaimTerminalState, UpdateProjection, FinalizeBilling, PublishEvent,
         CompleteTerminalState, CallFails
<1>4. call[c].job \in Job
  BY <1>3 DEF TypeInv, BusyCalls
<1>5. /\ slot' \in [Slot -> SlotState] /\ call' \in [Call -> CallState]
      /\ BusySlots' /\ BusyCalls' /\ Waiting'
  <2>1. \/ \E ack, drop \in BOOLEAN : Reply(c, ack, drop)
        \/ /\ UNCHANGED slot
           /\ \E pc \in CallPc \ {"free"} : call' = [call EXCEPT ![c].pc = pc]
    BY DEF CallStep, ClaimTerminalState, UpdateProjection, FinalizeBilling, PublishEvent,
         CompleteTerminalState, CallFails, CallPc, slotVars
  <2>2. CASE \E ack, drop \in BOOLEAN : Reply(c, ack, drop)
    BY <2>2, ReplyTypes
  <2>3. ASSUME NEW pc \in CallPc \ {"free"}, UNCHANGED slot,
               call' = [call EXCEPT ![c].pc = pc]
        PROVE  /\ slot' \in [Slot -> SlotState] /\ call' \in [Call -> CallState]
               /\ BusySlots' /\ BusyCalls' /\ Waiting'
    <3>1. call' \in [Call -> CallState]
      BY <1>2, <2>3 DEF CallState
    <3>2. \A d \in Call : /\ call'[d].job = call[d].job
                          /\ call'[d].pc = IF d = c THEN pc ELSE call[d].pc
      BY <1>2, <2>3 DEF CallState
    <3> QED  BY <1>2, <1>4, <2>3, <3>1, <3>2 DEF TypeInv, BusySlots, BusyCalls, Waiting
  <2> QED  BY <2>1, <2>2, <2>3
<1>6. hash' \in [Job -> StateHash]
  <2>1. TerminalState(c) \in StateHash
    BY <1>2 DEF TerminalState, CallState, StateHash
  <2>2. \/ UNCHANGED hash
        \/ hash' = [hash EXCEPT ![call[c].job] = TerminalState(c)]
        \/ hash' = [hash EXCEPT ![call[c].job].event = TRUE]
    BY DEF CallStep, ClaimTerminalState, UpdateProjection, FinalizeBilling, PublishEvent,
         CompleteTerminalState, CallFails
  <2>3. [hash EXCEPT ![call[c].job].event = TRUE] \in [Job -> StateHash]
    BY <1>2 DEF StateHash
  <2> QED  BY <1>2, <1>4, <2>1, <2>2, <2>3
<1>7. budget' \in [FaultKind -> Nat]
  <2>1. UNCHANGED budget \/ Spend("handler")
    BY DEF CallStep, ClaimTerminalState, UpdateProjection, FinalizeBilling, PublishEvent,
         CompleteTerminalState, CallFails
  <2> QED  BY <1>2, <2>1, SpendType DEF FaultKind
<1>8. accepted' \subseteq Job
  BY <1>4 DEF CallStep, ClaimTerminalState, UpdateProjection, FinalizeBilling, PublishEvent,
         CompleteTerminalState, CallFails, TypeInv, TypeOK, CompletionTypeOK
<1>9. /\ projection' \in [Job -> {"absent", "queued"} \cup Terminal]
      /\ reservation' \in [Job -> ReservationState]
      /\ events' \in [Job -> Seq(Terminal)]
  <2>1. call[c].status \in Terminal
    BY <1>2 DEF CallState
  <2>2. <<call[c].status>> \in Seq(Terminal)
    BY <2>1
  <2>3. projection' \in [Job -> {"absent", "queued"} \cup Terminal]
    BY <1>4, <2>1 DEF CallStep, ClaimTerminalState, UpdateProjection, FinalizeBilling,
         PublishEvent, CompleteTerminalState, CallFails, TypeInv, TypeOK, CompletionTypeOK
  <2>4. reservation' \in [Job -> ReservationState]
    BY <1>4 DEF CallStep, ClaimTerminalState, UpdateProjection, FinalizeBilling,
         PublishEvent, CompleteTerminalState, CallFails, TypeInv, TypeOK, CompletionTypeOK,
         ReservationState
  <2>5. events' \in [Job -> Seq(Terminal)]
    BY <1>4, <2>2 DEF CallStep, ClaimTerminalState, UpdateProjection, FinalizeBilling,
         PublishEvent, CompleteTerminalState, CallFails, TypeInv, TypeOK, CompletionTypeOK
  <2> QED  BY <2>3, <2>4, <2>5
<1> QED
  BY <1>1, <1>5, <1>6, <1>7, <1>8, <1>9
     DEF TypeInv, TypeOK, QueueTypeOK, CompletionTypeOK, Enqueued

\* The strengthened type invariant holds initially ...
LEMMA InitTypeInv == Init => TypeInv
<1> SUFFICES ASSUME Init PROVE TypeInv
  OBVIOUS
<1> USE JobQueueAssumption
<1>1. QueueTypeOK
  BY ConstantTypes DEF Init, QueueInit, QueueTypeOK
<1>2. CompletionTypeOK
  BY ConstantTypes DEF Init, CompletionInit, CompletionTypeOK, CreatePc, ReservationState
<1>3. Enqueued = {}
  BY DEF Init, QueueInit, Enqueued
<1>4. IsFiniteSet(Enqueued)
  BY <1>3, FS_EmptySet
<1>5. BusySlots /\ BusyCalls /\ Waiting
  BY DEF Init, QueueInit, CompletionInit, BusySlots, BusyCalls, Waiting, IdleSlot, FreeCall
<1> QED  BY <1>1, <1>2, <1>4, <1>5 DEF TypeInv, TypeOK

\* ... and every step keeps it.
LEMMA NextTypeInv == TypeInv /\ [Next]_vars => TypeInv'
<1> SUFFICES ASSUME TypeInv, [Next]_vars PROVE TypeInv'
  OBVIOUS
<1>1. CASE UNCHANGED vars
  BY <1>1 DEF TypeInv, TypeOK, QueueTypeOK, CompletionTypeOK, BusySlots, BusyCalls, Waiting,
              Enqueued, vars, queueVars, slotVars, backendVars
<1>2. CASE Next
  BY <1>2, QueueStepTypeInv, ProcessStepTypes, CreateStepTypeInv, CallStepTypeInv,
     EnvironmentStepTypes DEF Next
<1> QED  BY <1>1, <1>2

\* Type correctness: in every reachable state, whatever the number of jobs,
\* workers, requests and faults, every variable holds a value of its type, a busy
\* slot or request has a job, and a waiting slot waits for a live request.
THEOREM TypeCorrect == Spec => []TypeOK
<1>1. TypeInv => TypeOK
  BY DEF TypeInv
<1> QED  BY <1>1, InitTypeInv, NextTypeInv, PTL DEF Spec

-----------------------------------------------------------------------------
\* The queue never swallows a job

\* Where the permission to ack comes from: a terminal hash, a claim in progress
\* and a pending ack all mean that the backend accepted the job, and a slot only
\* discards what it saw terminal or expired.
TerminalAccepted == \A j \in Job : hash[j].status \in Terminal => j \in accepted
ClaimAccepted ==
  \A c \in Call : call[c].pc \in CallPc \ {"free", "arrived"} => call[c].job \in accepted
AckJustified ==
  \A s \in Slot :
    /\ slot[s].pc = "discard" => slot[s].job \in accepted
    /\ slot[s].pc = "expire" => slot[s].job \in expired
    /\ slot[s].ack => /\ slot[s].pc \in {"finish", "release"}
                      /\ slot[s].job \in accepted \cup InternalJob

AckInv == TypeInv /\ TerminalAccepted /\ ClaimAccepted /\ AckJustified /\ NoJobSwallowed

\* The queue makes no state hash terminal: only an acceptance does.
LEMMA QueueStepHash ==
  ASSUME QueueTypeOK, NEW s \in Slot, QueueStep(s)
  PROVE  \A j \in Job : hash'[j].status \in Terminal => hash[j].status \in Terminal
<1> USE JobQueueAssumption
<1>1. hash \in [Job -> StateHash]
  BY DEF QueueTypeOK
<1>2. \A j \in Job : /\ RunningState(hash[j]).status = "running"
                     /\ [hash[j] EXCEPT !.attempts = NextAttempt(@)].status = hash[j].status
  BY <1>1 DEF StateHash, RunningState
<1>3. NoState.status \notin Terminal /\ "running" \notin Terminal
  BY DEF NoState, Terminal
<1>4. CASE UNCHANGED hash
  BY <1>4
<1>5. ASSUME NEW j \in Job \cup {NoJob},
             \/ hash' = [hash EXCEPT ![j] = NoState]
             \/ hash' = [hash EXCEPT ![j] = RunningState(@)]
             \/ hash' = [hash EXCEPT ![j].attempts = NextAttempt(@)]
      PROVE  \A k \in Job : hash'[k].status \in Terminal => hash[k].status \in Terminal
  BY <1>1, <1>2, <1>3, <1>5
<1>6. slot[s].job \in Job \cup {NoJob}
  BY DEF QueueTypeOK, SlotState
<1>7. \/ UNCHANGED hash
      \/ hash' = [hash EXCEPT ![slot[s].job] = NoState]
      \/ hash' = [hash EXCEPT ![slot[s].job] = RunningState(@)]
      \/ hash' = [hash EXCEPT ![slot[s].job].attempts = NextAttempt(@)]
  BY DEF QueueStep, ReadReclaimed, ReadNew, ReadState, DiscardMessage, ExpireState,
         ClaimLease, StartJobFails, WriteRunningState, WriteRunningStateFails,
         HeartbeatLosesLease, FinishAck, FinishAckFails, FinishRelease,
         FinishReleaseFails, queueVars
<1> QED  BY <1>4, <1>5, <1>6, <1>7

\* A slot of the queue is about to ack only for a reason.
LEMMA QueueStepAckJustified ==
  ASSUME AckInv, NEW s \in Slot, QueueStep(s)
  PROVE  AckJustified'
<1> USE JobQueueAssumption
<1>1. /\ slot \in [Slot -> SlotState] /\ batch[s] \subseteq Job
      /\ TerminalAccepted /\ AckJustified
  BY DEF AckInv, TypeInv, TypeOK, QueueTypeOK
<1>2. /\ UNCHANGED <<accepted, expired>>
      /\ \A t \in Slot : t # s => slot'[t] = slot[t]
  BY QueueStepFrame DEF AckInv, TypeInv, TypeOK, backendVars
<1>3. \/ slot'[s] = slot[s] \/ slot'[s] = IdleSlot
      \/ /\ ~slot'[s].ack
         /\ slot'[s].pc = "discard" => slot'[s].job \in accepted
         /\ slot'[s].pc = "expire" => slot'[s].job \in expired
      \/ /\ slot[s].pc = "finish" /\ slot'[s].pc = "release"
         /\ slot'[s].job = slot[s].job /\ slot'[s].ack = slot[s].ack
  <2>1. CASE ReadState(s)
    <3>1. ~slot[s].ack
      BY <1>1, <2>1 DEF ReadState, AckJustified
    <3> QED  BY <1>1, <2>1, <3>1 DEF ReadState, SlotState, TerminalAccepted
  <2>2. CASE ClaimLease(s) \/ WriteRunningState(s) \/ HeartbeatLosesLease(s)
    <3>1. ~slot[s].ack
      BY <1>1, <2>2 DEF ClaimLease, WriteRunningState, HeartbeatLosesLease, AckJustified
    <3>2. CASE ClaimLease(s)
      BY <1>1, <3>1, <3>2 DEF ClaimLease, SlotState
    <3>3. CASE WriteRunningState(s)
      BY <1>1, <3>1, <3>3 DEF WriteRunningState, SlotState
    <3>4. CASE HeartbeatLosesLease(s)
      BY <1>1, <3>1, <3>4 DEF HeartbeatLosesLease, SlotState
    <3> QED  BY <2>2, <3>2, <3>3, <3>4
  <2>3. CASE FinishAck(s) \/ FinishAckFails(s)
    BY <1>1, <2>3 DEF FinishAck, FinishAckFails, SlotState
  <2>4. CASE DiscardMessage(s) \/ StartJobFails(s) \/ WriteRunningStateFails(s)
             \/ FinishRelease(s) \/ FinishReleaseFails(s)
    BY <1>1, <2>4 DEF DiscardMessage, StartJobFails, WriteRunningStateFails, FinishRelease,
                      FinishReleaseFails
  <2>5. CASE \/ \E S \in SUBSET stream : ReadReclaimed(s, S)
             \/ \E j \in Job : ReadNew(s, j)
    BY <2>5 DEF ReadReclaimed, ReadNew
  <2> QED  BY <2>1, <2>2, <2>3, <2>4, <2>5 DEF QueueStep
<1> QED  BY <1>1, <1>2, <1>3 DEF AckJustified, IdleSlot

\* Every message the queue acks had that reason.
LEMMA QueueStepSwallows ==
  ASSUME AckInv, NEW s \in Slot, QueueStep(s)
  PROVE  NoJobSwallowed'
<1> USE JobQueueAssumption
<1>1. /\ pel \in [Job -> Worker \cup {NoWorker}]
      /\ AckJustified /\ NoJobSwallowed
      /\ WorkerOf[s] # NoWorker
      /\ slot[s].pc # "poll" => slot[s].job \in Job
  BY DEF AckInv, TypeInv, TypeOK, QueueTypeOK, BusySlots
<1>2. UNCHANGED <<accepted, expired>>
  BY QueueStepFrame DEF AckInv, TypeInv, TypeOK, backendVars
<1>3. \A j \in Job : Acked(j)' =>
        \/ Acked(j)
        \/ j = slot[s].job /\ slot[s].pc \in {"discard", "expire"}
        \/ j = slot[s].job /\ slot[s].ack
  <2>1. ASSUME NEW S \in SUBSET stream, ReadReclaimed(s, S)
        PROVE  \A j \in Job : Acked(j)' => Acked(j)
    BY <1>1, <2>1 DEF ReadReclaimed, Acked
  <2>2. ASSUME NEW j \in Job, ReadNew(s, j)
        PROVE  \A k \in Job : Acked(k)' => Acked(k)
    BY <1>1, <2>2 DEF ReadNew, Acked
  <2>3. CASE DiscardMessage(s)
    BY <1>1, <2>3 DEF DiscardMessage, AckMessage, Acked
  <2>4. CASE StartJobFails(s)
    BY <1>1, <2>4 DEF StartJobFails, Acked
  <2>5. CASE FinishAck(s) \/ FinishAckFails(s)
    BY <1>1, <2>5 DEF FinishAck, FinishAckFails, AckMessage, Acked
  <2>6. CASE ReadState(s) \/ ClaimLease(s) \/ WriteRunningState(s)
             \/ WriteRunningStateFails(s) \/ HeartbeatLosesLease(s)
             \/ FinishRelease(s) \/ FinishReleaseFails(s)
    BY <2>6 DEF ReadState, ClaimLease, WriteRunningState, WriteRunningStateFails,
                HeartbeatLosesLease, FinishRelease, FinishReleaseFails, queueVars, Acked
  <2> QED  BY <2>1, <2>2, <2>3, <2>4, <2>5, <2>6 DEF QueueStep
<1> QED  BY <1>1, <1>2, <1>3 DEF NoJobSwallowed, AckJustified

\* The inductive invariant behind NoJobSwallowed under steps of the queue ...
LEMMA QueueStepAckInv ==
  ASSUME AckInv, NEW s \in Slot, QueueStep(s)
  PROVE  AckInv'
<1>1. TypeInv'
  BY QueueStepTypeInv DEF AckInv
<1>2. UNCHANGED <<accepted, call>>
  BY QueueStepFrame DEF AckInv, TypeInv, TypeOK, backendVars
<1>3. TerminalAccepted' /\ ClaimAccepted'
  BY <1>2, QueueStepHash DEF AckInv, TypeInv, TypeOK, TerminalAccepted, ClaimAccepted
<1> QED  BY <1>1, <1>3, QueueStepAckJustified, QueueStepSwallows DEF AckInv

\* What a step of a worker does to its slot.
LEMMA ProcessStepSlot ==
  ASSUME slot \in [Slot -> SlotState], NEW s \in Slot, ProcessStep(s)
  PROVE  /\ \A t \in Slot : t # s => slot'[t] = slot[t]
         /\ slot[s].pc \in {"execute", "wait"} /\ slot'[s].pc \in {"finish", "wait"}
         /\ slot'[s].job = slot[s].job /\ slot'[s].lost = slot[s].lost
<1>1. \A t \in Slot : t # s => slot'[t] = slot[t]
  BY DEF ProcessStep, Execute, GiveUp, ExecuteDependencyFails, RequestTimesOut, Finalize
<1>2. slot[s].pc \in {"execute", "wait"}
  BY DEF ProcessStep, Execute, GiveUp, ExecuteDependencyFails, RequestTimesOut
<1>3. \/ slot' = [slot EXCEPT ![s].pc = "finish"]
      \/ slot' = [slot EXCEPT ![s].pc = "finish", ![s].ack = TRUE]
      \/ \E c \in Call : slot' = [slot EXCEPT ![s].pc = "wait", ![s].call = c]
      \/ slot' = [slot EXCEPT ![s].pc = "finish", ![s].drop = TRUE]
      \/ slot' = [slot EXCEPT ![s].pc = "finish", ![s].drop = TRUE, ![s].call = NoCall]
  BY DEF ProcessStep, Execute, GiveUp, ExecuteDependencyFails, RequestTimesOut, Finalize
<1>4. CASE slot' = [slot EXCEPT ![s].pc = "finish"]
  BY <1>1, <1>2, <1>4 DEF SlotState
<1>5. CASE slot' = [slot EXCEPT ![s].pc = "finish", ![s].ack = TRUE]
  BY <1>1, <1>2, <1>5 DEF SlotState
<1>6. CASE \E c \in Call : slot' = [slot EXCEPT ![s].pc = "wait", ![s].call = c]
  BY <1>1, <1>2, <1>6 DEF SlotState
<1>7. CASE slot' = [slot EXCEPT ![s].pc = "finish", ![s].drop = TRUE]
  BY <1>1, <1>2, <1>7 DEF SlotState
<1>8. CASE slot' = [slot EXCEPT ![s].pc = "finish", ![s].drop = TRUE, ![s].call = NoCall]
  BY <1>1, <1>2, <1>8 DEF SlotState
<1> QED  BY <1>1, <1>2, <1>3, <1>4, <1>5, <1>6, <1>7, <1>8

\* ... under steps of process_message ...
LEMMA ProcessStepAckInv ==
  ASSUME AckInv, NEW s \in Slot, ProcessStep(s)
  PROVE  AckInv'
<1>1. TypeInv'
  BY ProcessStepTypes DEF AckInv
<1>2. UNCHANGED <<hash, accepted, expired, delivered, pel>>
  BY DEF ProcessStep, Execute, GiveUp, ExecuteDependencyFails, RequestTimesOut,
         queueVars, backendVars
<1>3. slot \in [Slot -> SlotState] /\ call \in [Call -> CallState]
  BY DEF AckInv, TypeInv, TypeOK, QueueTypeOK, CompletionTypeOK
<1>4. /\ \A t \in Slot : t # s => slot'[t] = slot[t]
      /\ slot[s].pc \in {"execute", "wait"} /\ slot'[s].pc \in {"finish", "wait"}
      /\ slot'[s].job = slot[s].job
      /\ slot'[s].ack => slot[s].ack \/ slot[s].job \in InternalJob
  BY <1>3 DEF ProcessStep, Execute, GiveUp, ExecuteDependencyFails, RequestTimesOut,
              Finalize, SlotState
<1>5. slot'[s].pc = "wait" => ~slot'[s].ack
  <2>1. ~slot[s].ack
    BY <1>4 DEF AckInv, AckJustified
  <2> QED
    BY <1>3, <2>1 DEF ProcessStep, Execute, GiveUp, ExecuteDependencyFails, RequestTimesOut,
              Finalize, SlotState
<1>9. AckJustified'
  <2>1. ~slot[s].ack
    BY <1>4 DEF AckInv, AckJustified
  <2>2. slot'[s].ack => slot[s].job \in InternalJob
    BY <1>4, <2>1
  <2> SUFFICES ASSUME NEW t \in Slot
               PROVE  /\ slot'[t].pc = "discard" => slot'[t].job \in accepted
                      /\ slot'[t].pc = "expire" => slot'[t].job \in expired
                      /\ slot'[t].ack => /\ slot'[t].pc \in {"finish", "release"}
                                         /\ slot'[t].job \in accepted \cup InternalJob
    BY <1>2 DEF AckJustified
  <2>3. CASE t # s
    <3>1. slot'[t] = slot[t]
      BY <1>4, <2>3
    <3> QED  BY <3>1 DEF AckInv, AckJustified
  <2>4. CASE t = s /\ slot'[s].pc = "finish"
    BY <1>4, <2>2, <2>4
  <2>5. CASE t = s /\ slot'[s].pc = "wait"
    <3>1. ~slot'[s].ack
      BY <1>5, <2>5
    <3> QED  BY <2>5, <3>1
  <2> QED  BY <1>4, <2>3, <2>4, <2>5
<1>6. \A c \in Call : call'[c] = call[c] \/ call'[c].pc = "arrived"
  BY <1>3 DEF ProcessStep, Execute, GiveUp, ExecuteDependencyFails, RequestTimesOut,
              Finalize, backendVars
<1>7. ClaimAccepted'
  BY <1>2, <1>6 DEF AckInv, ClaimAccepted
<1>8. TerminalAccepted' /\ NoJobSwallowed'
  BY <1>2 DEF AckInv, TerminalAccepted, NoJobSwallowed, Acked
<1> QED  BY <1>1, <1>9, <1>7, <1>8 DEF AckInv

\* ... under the creation of a job ...
LEMMA CreateStepAckInv ==
  ASSUME AckInv, NEW j \in Job, CreateStep(j)
  PROVE  AckInv'
<1>1. TypeInv'
  BY CreateStepTypeInv DEF AckInv
<1>2. UNCHANGED <<accepted, expired, delivered, pel, slot, call>>
  BY DEF CreateStep, ReserveUsage, InsertProjection, WriteQueuedState, EnqueueMessage,
         EnqueueFails, DeleteProjection, ReleaseReservation, AttachJobId, CrashRequest,
         queueVars, slotVars
<1>3. \A k \in Job : hash'[k].status \in Terminal => hash[k].status \in Terminal
  <2>1. hash \in [Job -> StateHash]
    BY DEF AckInv, TypeInv, TypeOK, QueueTypeOK
  <2> QED
    BY <2>1 DEF CreateStep, ReserveUsage, InsertProjection, WriteQueuedState, EnqueueMessage,
         EnqueueFails, DeleteProjection, ReleaseReservation, AttachJobId, CrashRequest,
         Terminal, NoState
<1>4. TerminalAccepted' /\ ClaimAccepted' /\ AckJustified' /\ NoJobSwallowed'
  BY <1>2, <1>3 DEF AckInv, TerminalAccepted, ClaimAccepted, AckJustified, NoJobSwallowed, Acked
<1> QED  BY <1>1, <1>4 DEF AckInv

\* ... under the steps of complete_job, where acceptances come from ...
LEMMA CallStepAckInv ==
  ASSUME AckInv, NEW c \in Call, CallStep(c)
  PROVE  AckInv'
<1> USE JobQueueAssumption
<1>1. TypeInv'
  BY CallStepTypeInv DEF AckInv
<1>2. /\ UNCHANGED <<expired, delivered, pel>>
      /\ accepted \subseteq accepted'
  BY DEF CallStep, ClaimTerminalState, UpdateProjection, FinalizeBilling, PublishEvent,
         CompleteTerminalState, CallFails, queueVars
<1>3. /\ slot \in [Slot -> SlotState] /\ call \in [Call -> CallState]
      /\ hash \in [Job -> StateHash]
      /\ BusyCalls /\ Waiting /\ TerminalAccepted /\ ClaimAccepted /\ AckJustified
  BY DEF AckInv, TypeInv, TypeOK, QueueTypeOK, CompletionTypeOK
<1>4. call[c].job \in Job
  BY <1>3 DEF CallStep, ClaimTerminalState, UpdateProjection, FinalizeBilling, PublishEvent,
              CompleteTerminalState, CallFails, BusyCalls
<1>5. TerminalAccepted'
  <2>1. CASE ClaimTerminalState(c)
    BY <1>3, <1>4, <2>1 DEF ClaimTerminalState, TerminalAccepted
  <2>2. CASE CompleteTerminalState(c)
    BY <1>3, <2>2 DEF CompleteTerminalState, TerminalAccepted, StateHash
  <2>3. CASE UpdateProjection(c) \/ FinalizeBilling(c) \/ PublishEvent(c) \/ CallFails(c)
    BY <1>3, <2>3 DEF UpdateProjection, FinalizeBilling, PublishEvent, CallFails, TerminalAccepted
  <2> QED  BY <2>1, <2>2, <2>3 DEF CallStep
<1>6. /\ \A d \in Call : d # c => call'[d] = call[d]
      /\ \/ call'[c].pc = "free"
         \/ call'[c].job = call[c].job /\ call[c].job \in accepted'
  <2>5. FreeCall.pc = "free"
    BY DEF FreeCall
  <2>6. ASSUME NEW p \in CallPc, call' = [call EXCEPT ![c].pc = p]
        PROVE  /\ \A d \in Call : d # c => call'[d] = call[d]
               /\ call'[c].job = call[c].job
    BY <1>3, <2>6 DEF CallState
  <2>1. CASE ClaimTerminalState(c)
    <3>1. call[c].status \in Terminal
      BY <1>3 DEF CallState
    <3>2. \/ call' = [call EXCEPT ![c] = FreeCall]
          \/ /\ call' = [call EXCEPT ![c].pc = "claimed"]
             /\ call[c].job \in accepted'
      BY <1>3, <1>4, <2>1, <3>1 DEF ClaimTerminalState, Reply, TerminalAccepted
    <3>3. CASE call' = [call EXCEPT ![c] = FreeCall]
      BY <1>3, <2>5, <3>3
    <3>4. CASE /\ call' = [call EXCEPT ![c].pc = "claimed"]
               /\ call[c].job \in accepted'
      BY <2>6, <3>4 DEF CallPc
    <3> QED  BY <3>2, <3>3, <3>4
  <2>2. CASE UpdateProjection(c) \/ FinalizeBilling(c) \/ PublishEvent(c)
    <3>1. call[c].job \in accepted
      BY <1>3, <2>2 DEF UpdateProjection, FinalizeBilling, PublishEvent, ClaimAccepted, CallPc
    <3>2. \E p \in CallPc : call' = [call EXCEPT ![c].pc = p]
      BY <2>2 DEF UpdateProjection, FinalizeBilling, PublishEvent, CallPc
    <3> QED  BY <1>2, <2>6, <3>1, <3>2
  <2>3. CASE CompleteTerminalState(c) \/ CallFails(c)
    <3>1. call' = [call EXCEPT ![c] = FreeCall]
      BY <2>3 DEF CompleteTerminalState, CallFails, Reply
    <3> QED  BY <1>3, <2>5, <3>1
  <2> QED  BY <2>1, <2>2, <2>3 DEF CallStep
<1>7. ClaimAccepted'
  BY <1>2, <1>3, <1>6 DEF ClaimAccepted
<1>8. \A s \in Slot :
        \/ slot'[s] = slot[s]
        \/ /\ slot'[s].pc = "finish" /\ slot'[s].job = slot[s].job
           /\ slot'[s].ack => slot[s].job \in accepted'
  <2>1. \/ UNCHANGED slot \/ Reply(c, FALSE, FALSE) \/ Reply(c, FALSE, TRUE)
        \/ Reply(c, TRUE, FALSE) /\ call[c].job \in accepted'
    <3>1. CASE ClaimTerminalState(c)
      BY <1>3, <1>4, <3>1 DEF ClaimTerminalState, TerminalAccepted
    <3>2. CASE CompleteTerminalState(c)
      BY <1>2, <1>3, <3>2 DEF CompleteTerminalState, ClaimAccepted, CallPc
    <3>3. CASE UpdateProjection(c) \/ FinalizeBilling(c) \/ PublishEvent(c) \/ CallFails(c)
      BY <3>3 DEF UpdateProjection, FinalizeBilling, PublishEvent, CallFails, slotVars
    <3> QED  BY <3>1, <3>2, <3>3 DEF CallStep
  <2>2. ASSUME NEW ack \in BOOLEAN, NEW drop \in BOOLEAN, Reply(c, ack, drop),
               ack => call[c].job \in accepted', NEW s \in Slot
        PROVE  \/ slot'[s] = slot[s]
               \/ /\ slot'[s].pc = "finish" /\ slot'[s].job = slot[s].job
                  /\ slot'[s].ack => slot[s].job \in accepted'
    <3>1. slot[s].pc = "wait" /\ slot[s].call = c => slot[s].job = call[c].job
      BY <1>3 DEF Waiting
    <3>2. slot'[s].pc = "finish" /\ slot'[s].ack = ack => (slot'[s].ack <=> ack)
      OBVIOUS
    <3> QED  BY <1>3, <2>2, <3>1, ReplySlot
  <2> QED  BY <2>1, <2>2
<1>9. AckJustified'
  BY <1>2, <1>3, <1>8 DEF AckJustified
<1>10. NoJobSwallowed'
  BY <1>2 DEF AckInv, NoJobSwallowed, Acked
<1> QED  BY <1>1, <1>5, <1>7, <1>9, <1>10 DEF AckInv

\* ... and under the steps of the environment.
LEMMA EnvironmentStepAckInv ==
  ASSUME AckInv, EnvironmentStep
  PROVE  AckInv'
<1>1. TypeInv'
  BY EnvironmentStepTypes DEF AckInv
<1>2. UNCHANGED <<delivered, pel, accepted, call>> /\ expired \subseteq expired'
  BY DEF EnvironmentStep, LeaseTtlEnds, LeaseStalls, JobExpires, CrashWorker, queueVars,
         backendVars
<1>3. \A s \in Slot : slot'[s] = slot[s] \/ slot'[s] = IdleSlot
  BY DEF EnvironmentStep, LeaseTtlEnds, LeaseStalls, JobExpires, CrashWorker, slotVars
<1>4. \A k \in Job : hash'[k].status \in Terminal => hash[k].status \in Terminal
  <2>1. hash \in [Job -> StateHash]
    BY DEF AckInv, TypeInv, TypeOK, QueueTypeOK
  <2> QED  BY <2>1 DEF EnvironmentStep, LeaseTtlEnds, LeaseStalls, JobExpires, CrashWorker,
                       Terminal, NoState
<1>5. TerminalAccepted' /\ ClaimAccepted' /\ AckJustified' /\ NoJobSwallowed'
  BY <1>2, <1>3, <1>4
     DEF AckInv, TerminalAccepted, ClaimAccepted, AckJustified, NoJobSwallowed, Acked, IdleSlot
<1> QED  BY <1>1, <1>5 DEF AckInv

\* The inductive invariant behind NoJobSwallowed holds initially ...
LEMMA InitAckInv == Init => AckInv
<1> SUFFICES ASSUME Init PROVE AckInv
  OBVIOUS
<1>1. TypeInv
  BY InitTypeInv
<1>2. TerminalAccepted /\ ClaimAccepted /\ AckJustified /\ NoJobSwallowed
  BY DEF Init, QueueInit, CompletionInit, TerminalAccepted, ClaimAccepted, AckJustified,
         NoJobSwallowed, Acked, NoState, Terminal, IdleSlot, FreeCall
<1> QED  BY <1>1, <1>2 DEF AckInv

\* ... and every step keeps it.
LEMMA NextAckInv == AckInv /\ [Next]_vars => AckInv'
<1> SUFFICES ASSUME AckInv, [Next]_vars PROVE AckInv'
  OBVIOUS
<1>1. CASE UNCHANGED vars
  <2>1. TypeInv'
    BY <1>1, NextTypeInv DEF AckInv
  <2>2. TerminalAccepted' /\ ClaimAccepted' /\ AckJustified' /\ NoJobSwallowed'
    BY <1>1 DEF AckInv, TerminalAccepted, ClaimAccepted, AckJustified, NoJobSwallowed,
                Acked, vars, queueVars, slotVars, backendVars
  <2> QED  BY <2>1, <2>2 DEF AckInv
<1>2. CASE Next
  BY <1>2, QueueStepAckInv, ProcessStepAckInv, CreateStepAckInv, CallStepAckInv,
     EnvironmentStepAckInv DEF Next
<1> QED  BY <1>1, <1>2

\* The queue never swallows a job: under any interleaving of any number of
\* workers and requests, with crashes, lost leases, duplicated and late
\* completions, an acked message is one whose job was accepted or has expired.
THEOREM NothingSwallowed == Spec => []NoJobSwallowed
<1>1. AckInv => NoJobSwallowed
  BY DEF AckInv
<1> QED  BY <1>1, InitAckInv, NextAckInv, PTL DEF Spec

-----------------------------------------------------------------------------
\* One executor at a time

\* Until heartbeats fail to arrive, every slot that renews a lease holds it.
LeaseHeld == \A s \in Slot, j \in Job : Renewing(s, j) => lease[j] = WorkerOf[s]
LeaseInv ==
  /\ TypeInv
  /\ budget["stall"] <= MaxFaults["stall"]
  /\ budget["stall"] = MaxFaults["stall"] => LeaseHeld

\* Each slot is a worker process with a worker id of its own.
OneSlotPerWorker == \A s, t \in Slot : WorkerOf[s] = WorkerOf[t] => s = t

\* A budget only shrinks.
LEMMA SpendLess ==
  ASSUME budget \in [FaultKind -> Nat], NEW kind \in FaultKind, Spend(kind)
  PROVE  /\ budget'["stall"] <= budget["stall"]
         /\ kind = "stall" => budget'["stall"] < budget["stall"]
BY DEF Spend, FaultKind

\* A queue step makes a slot renew only a lease that it just took; what it
\* deletes is its own lease.
LEMMA QueueStepLease ==
  ASSUME TypeInv, LeaseHeld, OneSlotPerWorker, NEW s \in Slot, QueueStep(s)
  PROVE  LeaseHeld'
<1> USE JobQueueAssumption
<1>1. /\ slot \in [Slot -> SlotState] /\ lease \in [Job -> Worker \cup {NoWorker}]
      /\ slot[s].pc # "poll" => slot[s].job \in Job
      /\ \A t \in Slot : WorkerOf[t] \in Worker
      /\ LeaseHeld
  BY DEF TypeInv, TypeOK, QueueTypeOK, BusySlots
<1>2. \A t \in Slot : t # s => slot'[t] = slot[t]
  BY QueueStepFrame DEF TypeInv, TypeOK
<1>3. \A t \in Slot, j \in Job : t # s => (Renewing(t, j)' <=> Renewing(t, j))
  BY <1>2 DEF Renewing
<1>4. \A j \in Job : \/ ~Renewing(s, j)' \/ Renewing(s, j)
                     \/ ClaimLease(s) /\ lease'[j] = WorkerOf[s]
  <2>1. ~(\E j \in Job : IdleSlot.job = j /\ IdleSlot.pc \in {"write", "execute", "wait"})
    BY DEF IdleSlot
  <2>2. CASE DiscardMessage(s) \/ StartJobFails(s) \/ WriteRunningStateFails(s)
             \/ FinishRelease(s) \/ FinishReleaseFails(s)
    <3>1. slot'[s] = IdleSlot
      BY <1>1, <2>2 DEF DiscardMessage, StartJobFails, WriteRunningStateFails, FinishRelease,
                        FinishReleaseFails
    <3> QED  BY <2>1, <3>1 DEF Renewing
  <2>3. CASE ClaimLease(s)
    <3>1. CASE slot' = [slot EXCEPT ![s] = IdleSlot]
      <4>1. slot'[s] = IdleSlot
        BY <1>1, <3>1
      <4> QED  BY <2>1, <4>1 DEF Renewing
    <3>2. CASE /\ lease' = [lease EXCEPT ![slot[s].job] = WorkerOf[s]]
               /\ slot' = [slot EXCEPT ![s].pc = "write"]
      <4>1. slot'[s].job = slot[s].job
        BY <1>1, <3>2 DEF SlotState
      <4>2. \A j \in Job : Renewing(s, j)' => j = slot[s].job
        BY <4>1 DEF Renewing
      <4>3. slot[s].job \in Job
        BY <1>1, <2>3 DEF ClaimLease
      <4>4. lease'[slot[s].job] = WorkerOf[s]
        BY <1>1, <3>2, <4>3
      <4> QED  BY <2>3, <4>2, <4>4
    <3> QED  BY <2>3, <3>1, <3>2 DEF ClaimLease
  <2>4. CASE ReadState(s) \/ FinishAck(s) \/ FinishAckFails(s) \/ HeartbeatLosesLease(s)
    <3>1. CASE ReadState(s)
      <4>1. slot'[s].pc \in {"discard", "expire", "claim"}
        BY <1>1, <3>1 DEF ReadState, SlotState
      <4> QED  BY <4>1 DEF Renewing
    <3>3. CASE FinishAck(s) \/ FinishAckFails(s)
      <4>1. slot'[s].pc = "release"
        BY <1>1, <3>3 DEF FinishAck, FinishAckFails, SlotState
      <4> QED  BY <4>1 DEF Renewing
    <3>2. CASE HeartbeatLosesLease(s)
      <4>1. slot'[s].lost
        BY <1>1, <3>2 DEF HeartbeatLosesLease, SlotState
      <4> QED  BY <4>1 DEF Renewing
    <3> QED  BY <2>4, <3>1, <3>2, <3>3
  <2>5. CASE WriteRunningState(s)
    <3>1. /\ slot[s].pc = "write"
          /\ slot'[s].job = slot[s].job /\ slot'[s].lost = slot[s].lost
      BY <1>1, <2>5 DEF WriteRunningState, SlotState
    <3> QED  BY <3>1 DEF Renewing
  <2>6. CASE \/ \E S \in SUBSET stream : ReadReclaimed(s, S)
             \/ \E j \in Job : ReadNew(s, j)
    BY <2>6 DEF ReadReclaimed, ReadNew, Renewing
  <2> QED  BY <2>2, <2>3, <2>4, <2>5, <2>6 DEF QueueStep
<1>5. \A j \in Job : lease'[j] = lease[j] \/ lease[j] = NoWorker
                     \/ (lease[j] = WorkerOf[s] /\ slot'[s] = IdleSlot)
  BY <1>1 DEF QueueStep, ReadReclaimed, ReadNew, ReadState, DiscardMessage, ReleaseLease,
         ClaimLease, StartJobFails, WriteRunningState, WriteRunningStateFails,
         HeartbeatLosesLease, FinishAck, FinishAckFails, FinishRelease,
         FinishReleaseFails
<1>6. SUFFICES ASSUME NEW t \in Slot, NEW j \in Job, Renewing(t, j)'
               PROVE  lease'[j] = WorkerOf[t]
  BY DEF LeaseHeld
<1>7. CASE t # s
  <2>1. lease[j] = WorkerOf[t] /\ WorkerOf[t] # WorkerOf[s] /\ WorkerOf[t] # NoWorker
    BY <1>1, <1>3, <1>6, <1>7 DEF LeaseHeld, OneSlotPerWorker
  <2> QED  BY <1>5, <2>1
<1>8. CASE t = s
  <2>1. slot'[s] # IdleSlot
    BY <1>6, <1>8 DEF Renewing, IdleSlot
  <2>2. CASE Renewing(s, j)
    <3>1. lease[j] = WorkerOf[s] /\ WorkerOf[s] # NoWorker
      BY <1>1, <2>2 DEF LeaseHeld
    <3> QED  BY <1>5, <1>8, <2>1, <3>1
  <2> QED  BY <1>4, <1>6, <1>8, <2>2
<1> QED  BY <1>7, <1>8

\* Everything but the queue leaves the leases to those who renew them.
LEMMA OtherStepLease ==
  ASSUME TypeInv, LeaseHeld, budget'["stall"] = budget["stall"],
         \/ \E s \in Slot : ProcessStep(s)
         \/ \E j \in Job : CreateStep(j)
         \/ \E c \in Call : CallStep(c)
         \/ EnvironmentStep
  PROVE  LeaseHeld'
<1>1. slot \in [Slot -> SlotState] /\ LeaseHeld /\ budget \in [FaultKind -> Nat]
  BY DEF TypeInv, TypeOK, QueueTypeOK
<1>2. SUFFICES ASSUME NEW t \in Slot, NEW j \in Job
               PROVE  /\ Renewing(t, j)' => Renewing(t, j)
                      /\ Renewing(t, j)' /\ Renewing(t, j) => lease'[j] = lease[j]
  BY <1>1 DEF LeaseHeld
<1>3. ASSUME NEW s \in Slot, ProcessStep(s)
      PROVE  (Renewing(t, j)' => Renewing(t, j)) /\ UNCHANGED lease
  <2>1. UNCHANGED lease
    BY <1>3 DEF ProcessStep, Execute, GiveUp, ExecuteDependencyFails, RequestTimesOut
  <2> QED  BY <1>1, <1>3, <2>1, ProcessStepSlot DEF Renewing
<1>4. ASSUME NEW k \in Job, CreateStep(k)
      PROVE  (Renewing(t, j)' => Renewing(t, j)) /\ UNCHANGED lease
  BY <1>4 DEF Renewing, CreateStep, ReserveUsage, InsertProjection, WriteQueuedState,
         EnqueueMessage, EnqueueFails, DeleteProjection, ReleaseReservation, AttachJobId,
         CrashRequest, queueVars, slotVars
<1>5. ASSUME NEW c \in Call, CallStep(c)
      PROVE  (Renewing(t, j)' => Renewing(t, j)) /\ UNCHANGED lease
  <2>1. UNCHANGED lease
    BY <1>5 DEF CallStep, ClaimTerminalState, UpdateProjection, FinalizeBilling, PublishEvent,
         CompleteTerminalState, CallFails
  <2>2. UNCHANGED slot \/ \E ack, drop \in BOOLEAN : Reply(c, ack, drop)
    BY <1>5 DEF CallStep, ClaimTerminalState, UpdateProjection, FinalizeBilling, PublishEvent,
         CompleteTerminalState, CallFails, slotVars
  <2>3. slot'[t] = slot[t] \/ slot'[t].pc = "finish"
    BY <1>1, <2>2, ReplySlot
  <2> QED  BY <2>1, <2>3 DEF Renewing
<1>6. CASE EnvironmentStep
  <2>1. slot'[t] = slot[t] \/ slot'[t] = IdleSlot
    BY <1>6 DEF EnvironmentStep, LeaseTtlEnds, LeaseStalls, JobExpires, CrashWorker, slotVars
  <2>2. Renewing(t, j)' => Renewing(t, j)
    BY <2>1 DEF Renewing, IdleSlot
  <2>3. Renewing(t, j) => lease'[j] = lease[j]
    <3>1. CASE \E k \in Job : LeaseTtlEnds(k)
      BY <1>1, <3>1 DEF LeaseTtlEnds, LeaseHeld, TypeInv, TypeOK, QueueTypeOK
    <3>2. CASE \E k \in Job : LeaseStalls(k)
      <4>1. budget'["stall"] < budget["stall"] /\ budget["stall"] \in Nat
        BY <1>1, <3>2, SpendLess DEF LeaseStalls, FaultKind
      <4> QED  BY <1>1, <4>1
    <3>3. CASE (\E k \in Job : JobExpires(k)) \/ \E w \in Worker : CrashWorker(w)
      BY <3>3 DEF JobExpires, CrashWorker
    <3> QED  BY <1>6, <3>1, <3>2, <3>3 DEF EnvironmentStep
  <2> QED  BY <2>2, <2>3
<1> QED  BY <1>3, <1>4, <1>5, <1>6

\* No step gives budget back.
LEMMA NextStall ==
  ASSUME TypeInv, Next
  PROVE  budget'["stall"] <= budget["stall"]
<1>1. UNCHANGED budget \/ \E kind \in FaultKind : Spend(kind)
  BY DEF Next, QueueStep, ReadReclaimed, ReadNew, ReadState, DiscardMessage,
         ClaimLease, StartJobFails, WriteRunningState, WriteRunningStateFails,
         HeartbeatLosesLease, FinishAck, FinishAckFails, FinishRelease,
         FinishReleaseFails, ProcessStep, Execute, GiveUp, ExecuteDependencyFails,
         RequestTimesOut, CreateStep, ReserveUsage, InsertProjection, WriteQueuedState,
         EnqueueMessage, EnqueueFails, DeleteProjection, ReleaseReservation, AttachJobId,
         CrashRequest, CallStep, ClaimTerminalState, UpdateProjection, FinalizeBilling,
         PublishEvent, CompleteTerminalState, CallFails, EnvironmentStep, LeaseTtlEnds,
         LeaseStalls, JobExpires, CrashWorker, FaultKind
<1>2. budget["stall"] \in Nat
  BY DEF TypeInv, TypeOK, QueueTypeOK, FaultKind
<1> QED  BY <1>1, <1>2, SpendLess DEF TypeInv, TypeOK, QueueTypeOK

\* One executor at a time: as long as the heartbeats of living workers reach
\* Redis before the lease runs out, no job is worked on by two workers at once,
\* for any number of workers, jobs, crashes, reclaims and dependency failures.
THEOREM ExecutorsExclude ==
  ASSUME OneSlotPerWorker
  PROVE  Spec => []OneExecutor
<1>1. Init => LeaseInv
  <2> SUFFICES ASSUME Init PROVE LeaseInv
    OBVIOUS
  <2>1. TypeInv
    BY InitTypeInv
  <2>2. budget["stall"] = MaxFaults["stall"] /\ MaxFaults["stall"] \in Nat
    BY JobQueueAssumption DEF Init, QueueInit, FaultKind
  <2>3. LeaseHeld
    BY DEF Init, QueueInit, LeaseHeld, Renewing, IdleSlot
  <2> QED  BY <2>1, <2>2, <2>3 DEF LeaseInv
<1>2. LeaseInv /\ [Next]_vars => LeaseInv'
  <2> SUFFICES ASSUME LeaseInv, [Next]_vars PROVE LeaseInv'
    OBVIOUS
  <2>1. TypeInv' /\ budget["stall"] \in Nat /\ MaxFaults["stall"] \in Nat
    BY NextTypeInv, JobQueueAssumption DEF LeaseInv, TypeInv, TypeOK, QueueTypeOK, FaultKind
  <2>2. CASE UNCHANGED vars
    BY <2>1, <2>2 DEF LeaseInv, LeaseHeld, Renewing, vars, slotVars
  <2>3. CASE Next
    <3>1. budget'["stall"] <= budget["stall"]
      BY <2>3, NextStall DEF LeaseInv
    <3>2. budget'["stall"] \in Nat
      BY <2>1 DEF TypeInv, TypeOK, QueueTypeOK, FaultKind
    <3>3. budget'["stall"] <= MaxFaults["stall"]
      BY <2>1, <3>1, <3>2 DEF LeaseInv
    <3>4. ASSUME budget'["stall"] = MaxFaults["stall"] PROVE LeaseHeld'
      <4>1. budget'["stall"] = budget["stall"] /\ LeaseHeld /\ TypeInv
        BY <2>1, <3>1, <3>2, <3>4 DEF LeaseInv
      <4> QED  BY <2>3, <4>1, QueueStepLease, OtherStepLease DEF Next
    <3> QED  BY <2>1, <3>3, <3>4 DEF LeaseInv
  <2> QED  BY <2>2, <2>3
<1>3. LeaseInv => OneExecutor
  BY DEF LeaseInv, LeaseHeld, OneExecutor, OneSlotPerWorker, Executing, Renewing
<1> QED  BY <1>1, <1>2, <1>3, PTL DEF Spec

-----------------------------------------------------------------------------
\* A duplicate has been notified

\* What a completion request may do in a step: it is answered, or goes on by one.
CallPhases == {<<"arrived", "claimed">>, <<"claimed", "projected">>, <<"projected", "billed">>,
               <<"billed", "published">>}
CallMove(c) ==
  \/ call'[c] = call[c]
  \/ call'[c].pc = "free"
  \/ call[c].pc = "free" /\ call'[c].pc = "arrived"
  \/ /\ <<call[c].pc, call'[c].pc>> \in CallPhases
     /\ call'[c].job = call[c].job /\ call'[c].status = call[c].status

\* A step of complete_job moves its request only.
LEMMA CallStepMoves ==
  ASSUME TypeInv, NEW c \in Call, CallStep(c)
  PROVE  /\ \A d \in Call : d # c => call'[d] = call[d]
         /\ CallMove(c) /\ call[c].pc # "free" /\ call[c].job \in Job
<1>0. call \in [Call -> CallState] /\ FreeCall.pc = "free"
  BY DEF TypeInv, TypeOK, CompletionTypeOK, FreeCall
<1>1. \/ call' = [call EXCEPT ![c] = FreeCall]
      \/ call[c].pc = "arrived" /\ call' = [call EXCEPT ![c].pc = "claimed"]
      \/ call[c].pc = "claimed" /\ call' = [call EXCEPT ![c].pc = "projected"]
      \/ call[c].pc = "projected" /\ call' = [call EXCEPT ![c].pc = "billed"]
      \/ call[c].pc = "billed" /\ call' = [call EXCEPT ![c].pc = "published"]
  BY DEF CallStep, ClaimTerminalState, UpdateProjection, FinalizeBilling, PublishEvent,
         CompleteTerminalState, CallFails, Reply
<1>2. call[c].pc # "free"
  BY DEF CallStep, ClaimTerminalState, UpdateProjection, FinalizeBilling, PublishEvent,
         CompleteTerminalState, CallFails
<1>3. call[c].job \in Job
  BY <1>2 DEF TypeInv, BusyCalls
<1>4. ASSUME NEW p \in CallPc, call' = [call EXCEPT ![c].pc = p]
      PROVE  /\ \A d \in Call : d # c => call'[d] = call[d]
             /\ call'[c].pc = p /\ call'[c].job = call[c].job
             /\ call'[c].status = call[c].status
  BY <1>0, <1>4 DEF CallState
<1>5. CASE call' = [call EXCEPT ![c] = FreeCall]
  BY <1>0, <1>2, <1>3, <1>5 DEF CallMove
<1>6. CASE call[c].pc = "arrived" /\ call' = [call EXCEPT ![c].pc = "claimed"]
  BY <1>2, <1>3, <1>4, <1>6 DEF CallMove, CallPhases, CallPc
<1>7. CASE call[c].pc = "claimed" /\ call' = [call EXCEPT ![c].pc = "projected"]
  BY <1>2, <1>3, <1>4, <1>7 DEF CallMove, CallPhases, CallPc
<1>8. CASE call[c].pc = "projected" /\ call' = [call EXCEPT ![c].pc = "billed"]
  BY <1>2, <1>3, <1>4, <1>8 DEF CallMove, CallPhases, CallPc
<1>9. CASE call[c].pc = "billed" /\ call' = [call EXCEPT ![c].pc = "published"]
  BY <1>2, <1>3, <1>4, <1>9 DEF CallMove, CallPhases, CallPc
<1> QED  BY <1>1, <1>5, <1>6, <1>7, <1>8, <1>9

\* A worker may only start a request.
LEMMA ProcessStepCalls ==
  ASSUME TypeInv, NEW s \in Slot, ProcessStep(s)
  PROVE  /\ UNCHANGED <<hash, create, projection, reservation, events, accepted>>
         /\ \A c \in Call : \/ call'[c] = call[c]
                            \/ call[c].pc = "free" /\ call'[c].pc = "arrived"
<1>1. call \in [Call -> CallState]
  BY DEF TypeInv, TypeOK, CompletionTypeOK
<1>2. UNCHANGED <<hash, create, projection, reservation, events, accepted>>
  BY DEF ProcessStep, Execute, GiveUp, ExecuteDependencyFails, RequestTimesOut, backendVars
<1>3. \A c \in Call : \/ call'[c] = call[c]
                      \/ call[c].pc = "free" /\ call'[c].pc = "arrived"
  BY <1>1 DEF ProcessStep, Execute, GiveUp, ExecuteDependencyFails, RequestTimesOut,
              Finalize, backendVars
<1> QED  BY <1>2, <1>3

\* The mark on a state hash is set by the last step of complete_job alone.
LEMMA NextEventMark ==
  ASSUME TypeInv, Next, NEW j \in Job, hash'[j].event
  PROVE  \/ hash[j].event
         \/ \E c \in Call : CompleteTerminalState(c) /\ call[c].job = j
<1>0. /\ hash \in [Job -> StateHash] /\ NoState.event = FALSE
      /\ \A k \in Job : RunningState(hash[k]).event = hash[k].event
      /\ \A k \in Job : [hash[k] EXCEPT !.attempts = NextAttempt(@)].event = hash[k].event
      /\ \A c \in Call : TerminalState(c).event = FALSE
  BY DEF TypeInv, TypeOK, QueueTypeOK, NoState, RunningState, TerminalState, StateHash
<1>1. ASSUME NEW s \in Slot, QueueStep(s)
      PROVE  hash[j].event
  <2>1. \/ UNCHANGED hash
        \/ hash' = [hash EXCEPT ![slot[s].job] = NoState]
        \/ hash' = [hash EXCEPT ![slot[s].job] = RunningState(@)]
        \/ hash' = [hash EXCEPT ![slot[s].job].attempts = NextAttempt(@)]
    BY <1>1 DEF QueueStep, ReadReclaimed, ReadNew, ReadState, DiscardMessage, ExpireState,
           ClaimLease, StartJobFails, WriteRunningState, WriteRunningStateFails,
           HeartbeatLosesLease, FinishAck, FinishAckFails, FinishRelease,
           FinishReleaseFails, queueVars
  <2> QED  BY <1>0, <2>1
<1>2. ASSUME NEW s \in Slot, ProcessStep(s)
      PROVE  hash[j].event
  BY <1>2, ProcessStepCalls
<1>3. ASSUME NEW k \in Job, CreateStep(k)
      PROVE  hash[j].event
  BY <1>0, <1>3 DEF CreateStep, ReserveUsage, InsertProjection, WriteQueuedState,
         EnqueueMessage, EnqueueFails, DeleteProjection, ReleaseReservation, AttachJobId,
         CrashRequest
<1>4. ASSUME NEW c \in Call, CallStep(c)
      PROVE  \/ hash[j].event
             \/ /\ CompleteTerminalState(c)
                /\ call[c].job = j
  <2>1. CASE CompleteTerminalState(c)
    BY <1>0, <2>1 DEF CompleteTerminalState, StateHash
  <2>2. CASE ClaimTerminalState(c)
    BY <1>0, <2>2 DEF ClaimTerminalState
  <2>3. CASE UpdateProjection(c) \/ FinalizeBilling(c) \/ PublishEvent(c) \/ CallFails(c)
    BY <2>3 DEF UpdateProjection, FinalizeBilling, PublishEvent, CallFails
  <2> QED  BY <1>4, <2>1, <2>2, <2>3 DEF CallStep
<1>5. CASE EnvironmentStep
  BY <1>0, <1>5 DEF EnvironmentStep, LeaseTtlEnds, LeaseStalls, JobExpires, CrashWorker
<1> QED  BY <1>1, <1>2, <1>3, <1>4, <1>5 DEF Next

\* A notification stays, and is there once the request has got past it.
PublishedNotified ==
  \A c \in Call : call[c].pc = "published" => events[call[c].job] # <<>>
NotifiedInv == PublishedNotified /\ DuplicateMeansNotified

LEMMA NotifiedStep ==
  ASSUME TypeInv, NotifiedInv, Next
  PROVE  NotifiedInv'
<1>0. events \in [Job -> Seq(Terminal)] /\ PublishedNotified /\ DuplicateMeansNotified
  BY DEF TypeInv, TypeOK, CompletionTypeOK, NotifiedInv
<1>1. /\ UNCHANGED events
      /\ \A c \in Call : call'[c] = call[c] \/ call'[c].pc \in {"free", "arrived"}
      => PublishedNotified'
  BY <1>0 DEF PublishedNotified
<1>2. ASSUME NEW c \in Call, CallStep(c)
      PROVE  /\ \A j \in Job : events[j] # <<>> => events'[j] # <<>>
             /\ PublishedNotified'
  <2>1. /\ \A d \in Call : d # c => call'[d] = call[d]
        /\ CallMove(c) /\ call[c].pc # "free" /\ call[c].job \in Job
    BY <1>2, CallStepMoves
  <2>2. \A j \in Job : events[j] # <<>> => events'[j] # <<>>
    BY <1>0, <1>2, <2>1 DEF CallStep, ClaimTerminalState, UpdateProjection, FinalizeBilling,
         PublishEvent, CompleteTerminalState, CallFails
  <2>3. call'[c].pc = "published" /\ call[c].pc # "published" => PublishEvent(c)
    <3>1. call'[c].pc = "published" /\ call[c].pc # "published" => call[c].pc = "billed"
      BY <2>1 DEF CallMove, CallPhases
    <3>2. CASE CallFails(c)
      <4>1. call' = [call EXCEPT ![c] = FreeCall]
        BY <3>2 DEF CallFails, Reply
      <4>2. call'[c].pc = "free"
        BY <4>1 DEF FreeCall, TypeInv, TypeOK, CompletionTypeOK
      <4> QED  BY <4>2
    <3> QED
      BY <1>2, <3>1, <3>2 DEF CallStep, ClaimTerminalState, UpdateProjection, FinalizeBilling,
         CompleteTerminalState
  <2>4. PublishEvent(c) => events'[call[c].job] # <<>>
    BY <1>0, <2>1 DEF PublishEvent
  <2>5. call'[c].pc = "published" => call'[c].job = call[c].job
    BY <2>1 DEF CallMove
  <2>6. ASSUME NEW d \in Call, call'[d].pc = "published"
        PROVE  events'[call'[d].job] # <<>>
    <3>1. CASE d = c
      BY <1>0, <2>1, <2>2, <2>3, <2>4, <2>5, <2>6, <3>1 DEF PublishedNotified
    <3>2. CASE d # c
      <4>1. call[d].job \in Job
        BY <2>1, <2>6, <3>2 DEF TypeInv, BusyCalls
      <4> QED  BY <1>0, <2>1, <2>2, <2>6, <3>2, <4>1 DEF PublishedNotified
    <3> QED  BY <3>1, <3>2
  <2> QED  BY <2>2, <2>6 DEF PublishedNotified
<1>3. /\ \A j \in Job : events[j] # <<>> => events'[j] # <<>>
      /\ PublishedNotified'
  <2>1. ASSUME NEW s \in Slot, QueueStep(s) PROVE UNCHANGED <<events, call>>
    BY <2>1, QueueStepFrame DEF TypeInv, TypeOK, backendVars
  <2>2. ASSUME NEW s \in Slot, ProcessStep(s)
        PROVE  /\ UNCHANGED events
               /\ \A c \in Call : call'[c] = call[c] \/ call'[c].pc \in {"free", "arrived"}
    BY <2>2, ProcessStepCalls
  <2>3. ASSUME NEW j \in Job, CreateStep(j) PROVE UNCHANGED <<events, call>>
    BY <2>3 DEF CreateStep, ReserveUsage, InsertProjection, WriteQueuedState, EnqueueMessage,
         EnqueueFails, DeleteProjection, ReleaseReservation, AttachJobId, CrashRequest
  <2>4. CASE EnvironmentStep
    BY <1>1, <2>4 DEF EnvironmentStep, backendVars
  <2> QED  BY <1>1, <1>2, <2>1, <2>2, <2>3, <2>4 DEF Next
<1>4. ASSUME NEW j \in Job, hash'[j].event PROVE events'[j] # <<>>
  <2>1. CASE hash[j].event
    BY <1>0, <1>3, <2>1 DEF DuplicateMeansNotified
  <2>2. ASSUME NEW c \in Call, CompleteTerminalState(c), call[c].job = j
        PROVE  events'[j] # <<>>
    BY <1>0, <1>3, <2>2 DEF CompleteTerminalState, PublishedNotified
  <2> QED  BY <1>4, <2>1, <2>2, NextEventMark
<1> QED  BY <1>3, <1>4 DEF NotifiedInv, DuplicateMeansNotified

\* A completion is answered as a duplicate only if an earlier one got as far as the
\* notification, whatever requests are repeated, cut off or late.
THEOREM DuplicatesNotified == Spec => []DuplicateMeansNotified
<1>1. Init => NotifiedInv
  BY DEF Init, QueueInit, CompletionInit, NotifiedInv, PublishedNotified,
         DuplicateMeansNotified, NoState, FreeCall
<1>2. TypeInv /\ NotifiedInv /\ [Next]_vars => NotifiedInv'
  <2>1. NotifiedInv /\ UNCHANGED vars => NotifiedInv'
    BY DEF NotifiedInv, PublishedNotified, DuplicateMeansNotified, vars, backendVars
  <2> QED  BY <2>1, NotifiedStep
<1>3. NotifiedInv => DuplicateMeansNotified
  BY DEF NotifiedInv
<1> QED  BY <1>1, <1>2, <1>3, InitTypeInv, NextTypeInv, PTL DEF Spec

-----------------------------------------------------------------------------
\* What the creating request, the row and the reservation know about each other

\* A recommended job has neither row nor reservation; of any other job both follow
\* how far the request that creates it has come.
CreationInv ==
  /\ \A j \in InternalJob : reservation[j] = "none" /\ projection[j] = "absent"
  /\ \A j \in Job \ InternalJob :
       /\ create[j] = "none" => reservation[j] = "none" /\ projection[j] = "absent"
       /\ create[j] \in {"reserved", "release"} =>
            reservation[j] = "reserved" /\ projection[j] = "absent"
       /\ create[j] \in {"inserted", "stated", "enqueued", "rollback"} =>
            reservation[j] = "reserved" /\ projection[j] # "absent"
       /\ create[j] = "withdrawn" => reservation[j] = "released"
       /\ create[j] = "attached" =>
            /\ reservation[j] \in {"attached", "finalized", "released"}
            /\ projection[j] # "absent"
       /\ create[j] = "crashed" => reservation[j] = "reserved"

\* A request the script let through is about a job with a row, past whose decision
\* the row no longer says queued.
DecidedCalls ==
  \A c \in Call :
    /\ call[c].pc \in {"claimed", "projected", "billed", "published"} =>
         call[c].job \notin InternalJob /\ create[call[c].job] \notin {"none", "reserved"}
    /\ call[c].pc \in {"projected", "billed", "published"} =>
         projection[call[c].job] # "queued"

OutcomeInv == CreationInv /\ DecidedCalls

\* The queue and the workers touch no job's row, reservation or notification.
LEMMA OutcomeFrame ==
  ASSUME TypeInv, NEW s \in Slot, QueueStep(s) \/ ProcessStep(s)
  PROVE  /\ UNCHANGED <<create, projection, reservation, events>>
         /\ \A c \in Call : call'[c] = call[c] \/ call'[c].pc = "arrived"
<1>1. CASE QueueStep(s)
  BY <1>1, QueueStepFrame DEF TypeInv, TypeOK, backendVars
<1>2. CASE ProcessStep(s)
  BY <1>2, ProcessStepCalls
<1> QED  BY <1>1, <1>2

\* What the request that creates a job may do to it, step by step.
CreateMove(j, cr, pr, rv) ==
  \/ cr = "reserved" /\ create[j] = "none" /\ j \notin InternalJob
     /\ pr = projection[j] /\ rv = "reserved"
  \/ /\ cr = "inserted" /\ rv = reservation[j]
     /\ \/ j \in InternalJob /\ pr = projection[j]
        \/ j \notin InternalJob /\ create[j] = "reserved" /\ pr = "queued"
  \/ /\ <<create[j], cr>> \in {<<"inserted", "stated">>, <<"stated", "enqueued">>,
                               <<"inserted", "rollback">>, <<"stated", "rollback">>}
     /\ pr = projection[j] /\ rv = reservation[j]
  \/ create[j] = "rollback" /\ cr = "release" /\ pr = "absent" /\ rv = reservation[j]
  \/ /\ create[j] = "release" /\ cr = "withdrawn" /\ pr = projection[j]
     /\ rv = IF reservation[j] = "reserved" THEN "released" ELSE reservation[j]
  \/ /\ create[j] = "enqueued" /\ cr = "attached" /\ j \notin InternalJob /\ pr = projection[j]
     /\ rv = IF reservation[j] = "reserved" THEN "attached" ELSE reservation[j]
  \/ /\ cr = "crashed" /\ pr = projection[j] /\ rv = reservation[j]
     /\ \/ create[j] \in {"reserved", "inserted", "stated", "rollback", "release"}
        \/ create[j] = "enqueued" /\ j \notin InternalJob

\* A creating request touches its own job only, in one of those ways.
LEMMA CreateStepMoves ==
  ASSUME TypeInv, NEW j \in Job, CreateStep(j)
  PROVE  /\ UNCHANGED <<events, call>>
         /\ \E cr \in CreatePc, pr \in {"absent", "queued"} \cup Terminal, rv \in ReservationState :
              /\ create' = [create EXCEPT ![j] = cr]
              /\ projection' = [projection EXCEPT ![j] = pr]
              /\ reservation' = [reservation EXCEPT ![j] = rv]
              /\ CreateMove(j, cr, pr, rv)
<1> DEFINE Goal == \E cr \in CreatePc, pr \in {"absent", "queued"} \cup Terminal,
                      rv \in ReservationState :
              /\ create' = [create EXCEPT ![j] = cr]
              /\ projection' = [projection EXCEPT ![j] = pr]
              /\ reservation' = [reservation EXCEPT ![j] = rv]
              /\ CreateMove(j, cr, pr, rv)
<1>1. UNCHANGED <<events, call>>
  BY DEF CreateStep, ReserveUsage, InsertProjection, WriteQueuedState, EnqueueMessage,
         EnqueueFails, DeleteProjection, ReleaseReservation, AttachJobId, CrashRequest
<1>0. /\ create \in [Job -> CreatePc] /\ reservation \in [Job -> ReservationState]
      /\ projection \in [Job -> {"absent", "queued"} \cup Terminal]
      /\ projection = [projection EXCEPT ![j] = projection[j]]
      /\ reservation = [reservation EXCEPT ![j] = reservation[j]]
  BY DEF TypeInv, TypeOK, CompletionTypeOK
<1>w. ASSUME NEW cr \in CreatePc, NEW pr \in {"absent", "queued"} \cup Terminal,
             NEW rv \in ReservationState,
             create' = [create EXCEPT ![j] = cr], projection' = [projection EXCEPT ![j] = pr],
             reservation' = [reservation EXCEPT ![j] = rv], CreateMove(j, cr, pr, rv)
      PROVE  Goal
  BY <1>w
<1> HIDE DEF Goal
<1>2. CASE ReserveUsage(j)
  <2>1. CreateMove(j, "reserved", projection[j], "reserved")
    BY <1>2 DEF ReserveUsage, CreateMove
  <2> QED  BY <1>0, <1>2, <1>w, <2>1 DEF ReserveUsage, CreatePc, ReservationState
<1>3. CASE InsertProjection(j)
  <2>1. CASE j \in InternalJob
    <3>1. CreateMove(j, "inserted", projection[j], reservation[j])
      BY <1>3, <2>1 DEF InsertProjection, CreateMove
    <3> QED  BY <1>0, <1>3, <1>w, <2>1, <3>1 DEF InsertProjection, CreatePc
  <2>2. CASE j \notin InternalJob
    <3>1. CreateMove(j, "inserted", "queued", reservation[j])
      BY <1>3, <2>2 DEF InsertProjection, CreateMove
    <3> QED  BY <1>0, <1>3, <1>w, <2>2, <3>1 DEF InsertProjection, CreatePc
  <2> QED  BY <2>1, <2>2
<1>4. CASE WriteQueuedState(j)
  <2>1. CreateMove(j, "stated", projection[j], reservation[j])
    BY <1>4 DEF WriteQueuedState, CreateMove
  <2> QED  BY <1>0, <1>4, <1>w, <2>1 DEF WriteQueuedState, CreatePc
<1>5. CASE EnqueueMessage(j)
  <2>1. CreateMove(j, "enqueued", projection[j], reservation[j])
    BY <1>5 DEF EnqueueMessage, CreateMove
  <2> QED  BY <1>0, <1>5, <1>w, <2>1 DEF EnqueueMessage, CreatePc
<1>6. CASE EnqueueFails(j)
  <2>1. CreateMove(j, "rollback", projection[j], reservation[j])
    BY <1>6 DEF EnqueueFails, CreateMove
  <2> QED  BY <1>0, <1>6, <1>w, <2>1 DEF EnqueueFails, CreatePc
<1>7. CASE DeleteProjection(j)
  <2>1. CreateMove(j, "release", "absent", reservation[j])
    BY <1>7 DEF DeleteProjection, CreateMove
  <2> QED  BY <1>0, <1>7, <1>w, <2>1 DEF DeleteProjection, CreatePc
<1>8. CASE ReleaseReservation(j)
  <2> DEFINE rv == IF reservation[j] = "reserved" THEN "released" ELSE reservation[j]
  <2>1. CreateMove(j, "withdrawn", projection[j], rv) /\ rv \in ReservationState
    BY <1>0, <1>8 DEF ReleaseReservation, CreateMove, ReservationState
  <2>2. reservation' = [reservation EXCEPT ![j] = rv]
    BY <1>0, <1>8 DEF ReleaseReservation
  <2> HIDE DEF rv
  <2> QED  BY <1>0, <1>8, <1>w, <2>1, <2>2 DEF ReleaseReservation, CreatePc
<1>9. CASE AttachJobId(j)
  <2> DEFINE rv == IF reservation[j] = "reserved" THEN "attached" ELSE reservation[j]
  <2>1. CreateMove(j, "attached", projection[j], rv) /\ rv \in ReservationState
    BY <1>0, <1>9 DEF AttachJobId, CreateMove, ReservationState
  <2>2. reservation' = [reservation EXCEPT ![j] = rv]
    BY <1>0, <1>9 DEF AttachJobId
  <2> HIDE DEF rv
  <2> QED  BY <1>0, <1>9, <1>w, <2>1, <2>2 DEF AttachJobId, CreatePc
<1>10. CASE CrashRequest(j)
  <2>1. CreateMove(j, "crashed", projection[j], reservation[j])
    BY <1>10 DEF CrashRequest, CreateMove
  <2> QED  BY <1>0, <1>10, <1>w, <2>1 DEF CrashRequest, CreatePc
<1> QED
  BY <1>1, <1>2, <1>3, <1>4, <1>5, <1>6, <1>7, <1>8, <1>9, <1>10 DEF CreateStep, Goal

\* A creating request keeps the invariant and takes a step of JobOutcome, or none.
LEMMA CreateStepOutcome ==
  ASSUME TypeInv, OutcomeInv, NEW j \in Job, CreateStep(j)
  PROVE  OutcomeInv' /\ (Outcomes!Next \/ UNCHANGED <<projection, reservation, events>>)
<1>1. UNCHANGED <<events, call>>
  BY CreateStepMoves
<1>2. PICK cr \in CreatePc, pr \in {"absent", "queued"} \cup Terminal, rv \in ReservationState :
        /\ create' = [create EXCEPT ![j] = cr]
        /\ projection' = [projection EXCEPT ![j] = pr]
        /\ reservation' = [reservation EXCEPT ![j] = rv]
        /\ CreateMove(j, cr, pr, rv)
  BY CreateStepMoves
<1>0. /\ create \in [Job -> CreatePc] /\ reservation \in [Job -> ReservationState]
      /\ projection \in [Job -> {"absent", "queued"} \cup Terminal]
      /\ CreationInv /\ DecidedCalls /\ InternalJob \subseteq Job
  BY JobQueueAssumption DEF TypeInv, TypeOK, CompletionTypeOK, OutcomeInv
<1>3. /\ create'[j] = cr /\ projection'[j] = pr /\ reservation'[j] = rv
      /\ \A k \in Job : k # j => /\ create'[k] = create[k] /\ projection'[k] = projection[k]
                                 /\ reservation'[k] = reservation[k]
  BY <1>0, <1>2
<1>4. CASE j \in InternalJob
  <2>1. pr = "absent" /\ rv = "none"
    BY <1>0, <1>2, <1>4 DEF CreateMove, CreationInv
  <2>2. UNCHANGED <<projection, reservation, events>>
    BY <1>0, <1>1, <1>2, <1>4, <2>1 DEF CreationInv
  <2>3. CreationInv'
    BY <1>0, <1>3, <1>4, <2>1 DEF CreationInv
  <2>4. DecidedCalls'
    BY <1>0, <1>1, <1>3, <1>4, <2>2 DEF DecidedCalls, TypeInv, BusyCalls
  <2> QED  BY <2>2, <2>3, <2>4 DEF OutcomeInv
<1>5. CASE j \notin InternalJob
  <2>1. CreationInv'
    <3>1. /\ cr # "none"
          /\ cr \in {"reserved", "release"} => rv = "reserved" /\ pr = "absent"
          /\ cr \in {"inserted", "stated", "enqueued", "rollback"} =>
               rv = "reserved" /\ pr # "absent"
          /\ cr = "withdrawn" => rv = "released"
          /\ cr = "attached" => rv \in {"attached", "finalized", "released"} /\ pr # "absent"
          /\ cr = "crashed" => rv = "reserved"
      BY <1>0, <1>2, <1>5 DEF CreateMove, CreationInv
    <3> QED  BY <1>0, <1>3, <1>5, <3>1 DEF CreationInv
  <2>2. DecidedCalls'
    <3>1. create[j] \notin {"none", "reserved"} =>
            cr \notin {"none", "reserved"} /\ (pr = projection[j] \/ pr = "absent")
      BY <1>0, <1>2, <1>5 DEF CreateMove
    <3> QED  BY <1>0, <1>1, <1>3, <3>1 DEF DecidedCalls, TypeInv, BusyCalls
  <2>3. Outcomes!Next \/ UNCHANGED <<projection, reservation, events>>
    <3>1. \/ /\ pr = projection[j] /\ reservation[j] = "none" /\ rv = "reserved"
          \/ /\ reservation[j] = "reserved" /\ rv = "reserved"
             /\ projection[j] = "absent" /\ pr = "queued"
          \/ /\ reservation[j] = "reserved" /\ rv = "reserved" /\ pr = "absent"
          \/ /\ reservation[j] = "reserved" /\ projection[j] = pr
             /\ pr = "absent" /\ rv = "released"
          \/ /\ reservation[j] = "reserved" /\ projection[j] = pr
             /\ pr # "absent" /\ rv = "attached"
          \/ /\ pr = projection[j] /\ rv = reservation[j]
      BY <1>0, <1>2, <1>5 DEF CreateMove, CreationInv
    <3>2. pr = projection[j] => UNCHANGED projection
      BY <1>0, <1>2
    <3>3. rv = reservation[j] => UNCHANGED reservation
      BY <1>0, <1>2
    <3>4. CASE pr = projection[j] /\ reservation[j] = "none" /\ rv = "reserved"
      BY <1>1, <1>2, <1>5, <3>2, <3>4 DEF Outcomes!Next, Outcomes!Reserve
    <3>5. CASE /\ reservation[j] = "reserved" /\ rv = "reserved"
               /\ projection[j] = "absent" /\ pr = "queued"
      BY <1>1, <1>2, <3>3, <3>5 DEF Outcomes!Next, Outcomes!Submit
    <3>6. CASE /\ reservation[j] = "reserved" /\ rv = "reserved" /\ pr = "absent"
      BY <1>1, <1>2, <3>3, <3>6 DEF Outcomes!Next, Outcomes!Withdraw
    <3>7. CASE /\ reservation[j] = "reserved" /\ projection[j] = pr
               /\ pr = "absent" /\ rv = "released"
      BY <1>1, <1>2, <3>2, <3>7 DEF Outcomes!Next, Outcomes!Settle
    <3>8. CASE /\ reservation[j] = "reserved" /\ projection[j] = pr
               /\ pr # "absent" /\ rv = "attached"
      BY <1>1, <1>2, <3>2, <3>8 DEF Outcomes!Next, Outcomes!Bind
    <3>9. CASE pr = projection[j] /\ rv = reservation[j]
      BY <1>1, <3>2, <3>3, <3>9
    <3> QED  BY <3>1, <3>4, <3>5, <3>6, <3>7, <3>8, <3>9
  <2> QED  BY <2>1, <2>2, <2>3 DEF OutcomeInv
<1> QED  BY <1>4, <1>5

\* A step of complete_job keeps the invariant and takes a step of JobOutcome, or none.
LEMMA CallStepOutcome ==
  ASSUME TypeInv, OutcomeInv, NEW c \in Call, CallStep(c)
  PROVE  OutcomeInv' /\ (Outcomes!Next \/ UNCHANGED <<projection, reservation, events>>)
<1> DEFINE j == call[c].job
<1>0. /\ create \in [Job -> CreatePc] /\ reservation \in [Job -> ReservationState]
      /\ projection \in [Job -> {"absent", "queued"} \cup Terminal]
      /\ call[c] \in CallState /\ call \in [Call -> CallState] /\ BusyCalls
      /\ CreationInv /\ DecidedCalls /\ InternalJob \subseteq Job
  BY JobQueueAssumption DEF TypeInv, TypeOK, CompletionTypeOK, OutcomeInv
<1>1. /\ \A d \in Call : d # c => call'[d] = call[d]
      /\ CallMove(c) /\ call[c].pc # "free" /\ j \in Job
  BY CallStepMoves
<1>2. call[c].status \in Terminal /\ Terminal = {"done", "failed"}
      /\ Outcomes!Decision = Terminal
  BY <1>0 DEF CallState, Terminal, Outcomes!Decision
<1>3. UNCHANGED create
  BY DEF CallStep, ClaimTerminalState, UpdateProjection, FinalizeBilling, PublishEvent,
         CompleteTerminalState, CallFails
<1>b. FreeCall.pc = "free"
  BY DEF FreeCall
<1> HIDE DEF j
<1>4. CASE ClaimTerminalState(c)
  <2>1. UNCHANGED <<projection, reservation, events>>
    BY <1>4 DEF ClaimTerminalState
  <2>2. call'[c].pc = "claimed" => projection[j] # "absent"
    BY <1>0, <1>4, <1>b DEF ClaimTerminalState, Reply, j
  <2>3. projection[j] # "absent" => j \notin InternalJob /\ create[j] \notin {"none", "reserved"}
    BY <1>0, <1>1 DEF CreationInv
  <2>4. /\ call'[c].pc \in {"free", "claimed"}
        /\ call'[c].pc = "claimed" => call'[c].job = j
    BY <1>0, <1>4, <1>b DEF ClaimTerminalState, Reply, CallState, j
  <2>5. DecidedCalls'
    BY <1>0, <1>1, <1>3, <2>1, <2>2, <2>3, <2>4 DEF DecidedCalls
  <2>6. CreationInv'
    BY <1>0, <1>3, <2>1 DEF CreationInv
  <2> QED  BY <2>1, <2>5, <2>6 DEF OutcomeInv
<1>5. CASE CompleteTerminalState(c) \/ CallFails(c)
  <2>1. UNCHANGED <<projection, reservation, events>>
    BY <1>5 DEF CompleteTerminalState, CallFails
  <2>2. call' = [call EXCEPT ![c] = FreeCall]
    BY <1>5 DEF CompleteTerminalState, CallFails, Reply
  <2>3. call'[c].pc = "free"
    BY <1>0, <1>b, <2>2
  <2>4. DecidedCalls'
    BY <1>0, <1>1, <1>3, <2>1, <2>3 DEF DecidedCalls
  <2>5. CreationInv'
    BY <1>0, <1>3, <2>1 DEF CreationInv
  <2> QED  BY <2>1, <2>4, <2>5 DEF OutcomeInv
<1>6. CASE UpdateProjection(c)
  <2>1. /\ UNCHANGED <<reservation, events>>
        /\ projection' = [projection EXCEPT ![j] = IF @ = "absent" THEN @ ELSE call[c].status]
        /\ call' = [call EXCEPT ![c].pc = "projected"] /\ call[c].pc = "claimed"
    BY <1>6 DEF UpdateProjection, j
  <2>2. j \notin InternalJob /\ create[j] \notin {"none", "reserved"}
    BY <1>0, <2>1 DEF DecidedCalls, j
  <2>3. /\ \A k \in Job : k # j => projection'[k] = projection[k]
        /\ projection[j] = "absent" => projection'[j] = "absent"
        /\ projection[j] # "absent" => projection'[j] = call[c].status
    BY <1>0, <1>1, <2>1
  <2>4. CreationInv'
    BY <1>0, <1>1, <1>2, <1>3, <2>1, <2>2, <2>3 DEF CreationInv
  <2>5. call'[c].job = j /\ call'[c].pc = "projected"
    BY <1>0, <2>1 DEF CallState, j
  <2>6. projection'[j] # "queued"
    BY <1>2, <2>3
  <2>7. ASSUME NEW d \in Call, d # c, call[d].pc \in {"projected", "billed", "published"}
        PROVE  projection'[call[d].job] # "queued"
    <3>1. call[d].job \in Job /\ projection[call[d].job] # "queued"
      BY <1>0, <2>7 DEF DecidedCalls, BusyCalls
    <3> QED  BY <2>3, <2>6, <3>1
  <2>8. DecidedCalls'
    BY <1>0, <1>1, <1>3, <2>2, <2>5, <2>6, <2>7 DEF DecidedCalls
  <2>9. Outcomes!Next \/ UNCHANGED <<projection, reservation, events>>
    <3>1. CASE projection[j] = "absent"
      BY <1>0, <1>1, <2>1, <3>1
    <3>2. CASE projection[j] # "absent"
      <4>1. projection' = [projection EXCEPT ![j] = call[c].status]
        BY <1>0, <2>1, <3>2
      <4>2. Outcomes!Decide(j)
        BY <1>2, <2>1, <3>2, <4>1 DEF Outcomes!Decide
      <4> QED  BY <1>1, <4>2 DEF Outcomes!Next
    <3> QED  BY <3>1, <3>2
  <2> QED  BY <2>4, <2>8, <2>9 DEF OutcomeInv
<1>7. CASE FinalizeBilling(c)
  <2> DEFINE rv == IF reservation[j] # "attached" THEN reservation[j]
                   ELSE IF call[c].charge THEN "finalized" ELSE "released"
  <2>1. /\ UNCHANGED <<projection, events>>
        /\ call' = [call EXCEPT ![c].pc = "billed"] /\ call[c].pc = "projected"
    BY <1>7 DEF FinalizeBilling
  <2>2. reservation' = [reservation EXCEPT ![j] = rv]
    BY <1>0, <1>1, <1>7 DEF FinalizeBilling, j
  <2>3. /\ reservation[j] # "attached" => rv = reservation[j]
        /\ rv # reservation[j] => rv \in {"finalized", "released"}
    OBVIOUS
  <2> HIDE DEF rv
  <2>4. /\ j \notin InternalJob /\ create[j] \notin {"none", "reserved"}
        /\ projection[j] # "queued"
    BY <1>0, <2>1 DEF DecidedCalls, j
  <2>5. reservation[j] = "attached" => create[j] = "attached" /\ projection[j] # "absent"
    BY <1>0, <1>1, <2>4 DEF CreationInv, CreatePc
  <2>6. CreationInv'
    BY <1>0, <1>1, <1>3, <2>1, <2>2, <2>3, <2>4, <2>5 DEF CreationInv
  <2>7. call'[c].job = j /\ call'[c].pc = "billed"
    BY <1>0, <2>1 DEF CallState, j
  <2>8. DecidedCalls'
    BY <1>0, <1>1, <1>3, <2>1, <2>4, <2>7 DEF DecidedCalls
  <2>9. Outcomes!Next \/ UNCHANGED <<projection, reservation, events>>
    <3>1. CASE rv = reservation[j]
      BY <1>0, <2>1, <2>2, <3>1
    <3>2. CASE rv # reservation[j]
      <4>1. projection[j] \in Terminal
        BY <1>0, <1>1, <2>3, <2>4, <2>5, <3>2
      <4>2. Outcomes!Settle(j)
        BY <1>2, <2>1, <2>2, <2>3, <3>2, <4>1 DEF Outcomes!Settle
      <4> QED  BY <1>1, <4>2 DEF Outcomes!Next
    <3> QED  BY <3>1, <3>2
  <2> QED  BY <2>6, <2>8, <2>9 DEF OutcomeInv
<1>8. CASE PublishEvent(c)
  <2>1. /\ UNCHANGED <<projection, reservation>>
        /\ events' = IF events[j] = <<>>
                     THEN [events EXCEPT ![j] = <<call[c].status>>] ELSE events
        /\ call' = [call EXCEPT ![c].pc = "published"] /\ call[c].pc = "billed"
    BY <1>8 DEF PublishEvent, j
  <2>2. /\ j \notin InternalJob /\ create[j] \notin {"none", "reserved"}
        /\ projection[j] # "queued"
    BY <1>0, <2>1 DEF DecidedCalls, j
  <2>3. call'[c].job = j /\ call'[c].pc = "published"
    BY <1>0, <2>1 DEF CallState, j
  <2>4. DecidedCalls'
    BY <1>0, <1>1, <1>3, <2>1, <2>2, <2>3 DEF DecidedCalls
  <2>5. CreationInv'
    BY <1>0, <1>3, <2>1 DEF CreationInv
  <2>6. events[j] = <<>> => Outcomes!Notify(j)
    BY <1>2, <2>1, <2>2 DEF Outcomes!Notify
  <2>7. Outcomes!Next \/ UNCHANGED <<projection, reservation, events>>
    BY <1>1, <2>1, <2>6 DEF Outcomes!Next
  <2> QED  BY <2>4, <2>5, <2>7 DEF OutcomeInv
<1> QED  BY <1>4, <1>5, <1>6, <1>7, <1>8 DEF CallStep

\* The system keeps JobOutcome's promises: for every number of jobs, workers and
\* requests, whatever fails and is repeated, the row, the reservation and the
\* notification of a job change only in the ways JobOutcome lists.
THEOREM OutcomesImplemented == Spec => ImplementsJobOutcome
<1>1. Init => OutcomeInv /\ Outcomes!Init
  <2> SUFFICES ASSUME Init PROVE OutcomeInv /\ Outcomes!Init
    OBVIOUS
  <2>1. CreationInv /\ DecidedCalls
    BY JobQueueAssumption
       DEF Init, QueueInit, CompletionInit, CreationInv, DecidedCalls, FreeCall
  <2> QED  BY <2>1 DEF Init, CompletionInit, OutcomeInv, Outcomes!Init
<1>2. ASSUME TypeInv, OutcomeInv, [Next]_vars
      PROVE  OutcomeInv' /\ [Outcomes!Next]_<<projection, reservation, events>>
  <2>1. CASE UNCHANGED vars
    BY <1>2, <2>1 DEF vars, backendVars, OutcomeInv, CreationInv, DecidedCalls
  <2>2. ASSUME NEW s \in Slot, QueueStep(s) \/ ProcessStep(s)
        PROVE  OutcomeInv' /\ UNCHANGED <<projection, reservation, events>>
    <3>1. /\ UNCHANGED <<create, projection, reservation, events>>
          /\ \A c \in Call : call'[c] = call[c] \/ call'[c].pc = "arrived"
      BY <1>2, <2>2, OutcomeFrame
    <3> QED  BY <1>2, <3>1 DEF OutcomeInv, CreationInv, DecidedCalls
  <2>3. CASE EnvironmentStep
    <3>1. UNCHANGED <<create, projection, reservation, events, call>>
      BY <2>3 DEF EnvironmentStep, backendVars
    <3> QED  BY <1>2, <3>1 DEF OutcomeInv, CreationInv, DecidedCalls
  <2>4. ASSUME NEW j \in Job, CreateStep(j)
        PROVE  OutcomeInv' /\ (Outcomes!Next \/ UNCHANGED <<projection, reservation, events>>)
    BY <1>2, <2>4, CreateStepOutcome
  <2>5. ASSUME NEW c \in Call, CallStep(c)
        PROVE  OutcomeInv' /\ (Outcomes!Next \/ UNCHANGED <<projection, reservation, events>>)
    BY <1>2, <2>5, CallStepOutcome
  <2> QED  BY <1>2, <2>1, <2>2, <2>3, <2>4, <2>5 DEF Next
<1> QED
  BY <1>1, <1>2, InitTypeInv, NextTypeInv, PTL
     DEF Spec, ImplementsJobOutcome, Outcomes!Spec, Outcomes!outcomeVars

-----------------------------------------------------------------------------
\* Executions are bounded by the attempts that were counted

\* Of a job that has no message yet the workers know nothing.
Unstarted(j) ==
  /\ executions[j] = 0 /\ j \notin stream
  /\ \A s \in Slot : j \notin batch[s] /\ slot[s].job # j
StartInv ==
  \A j \in Job :
    /\ create[j] \in {"none", "reserved", "inserted", "stated"} => streamId[j] = 0
    /\ streamId[j] = 0 => Unstarted(j)

\* The slots that have counted an attempt and have not executed it yet.
Pending(j) ==
  {s \in Slot : slot[s].job = j /\ slot[s].pc = "execute" /\ slot[s].attempt <= MaxAttempts}

\* Executions and pending ones fit into the attempts counted so far.
Counted(j) ==
  /\ IsFiniteSet(Pending(j))
  /\ executions[j] + Cardinality(Pending(j)) <= hash[j].attempts
  /\ executions[j] + Cardinality(Pending(j)) <= MaxAttempts
Uncertain == InternalJob \cup accepted \cup expired
CountInv == \A j \in Job \ Uncertain : Counted(j)

\* Executions and attempts may go on together, as long as the pending slots go down
\* with the executions and the counter does not.
LEMMA CountedKeeps ==
  ASSUME TypeInv, TypeInv', NEW j \in Job, Counted(j), hash'[j].attempts >= hash[j].attempts,
         \/ executions'[j] = executions[j] /\ Pending(j)' \subseteq Pending(j)
         \/ /\ executions'[j] = executions[j] + 1
            /\ \E s \in Pending(j) : Pending(j)' \subseteq Pending(j) \ {s}
  PROVE  Counted(j)'
<1> DEFINE P == Pending(j)
           Q == Pending(j)'
<1>1. /\ executions[j] \in Nat /\ executions'[j] \in Nat
      /\ hash[j].attempts \in Nat /\ hash'[j].attempts \in Nat /\ MaxAttempts \in Nat
  BY JobQueueAssumption DEF TypeInv, TypeOK, QueueTypeOK, StateHash
<1>2. /\ IsFiniteSet(P) /\ Cardinality(P) \in Nat
      /\ executions[j] + Cardinality(P) <= hash[j].attempts
      /\ executions[j] + Cardinality(P) <= MaxAttempts
  BY FS_CardinalityType DEF Counted
<1>3. /\ IsFiniteSet(Q) /\ Cardinality(Q) \in Nat
      /\ executions'[j] + Cardinality(Q) <= executions[j] + Cardinality(P)
  <2>1. CASE executions'[j] = executions[j] /\ Q \subseteq P
    <3>1. IsFiniteSet(Q) /\ Cardinality(Q) <= Cardinality(P)
      BY <1>2, <2>1, FS_Subset
    <3>2. Cardinality(Q) \in Nat
      BY <3>1, FS_CardinalityType
    <3> QED  BY <1>1, <1>2, <2>1, <3>1, <3>2
  <2>2. ASSUME NEW s \in P, Q \subseteq P \ {s}, executions'[j] = executions[j] + 1
        PROVE  /\ IsFiniteSet(Q) /\ Cardinality(Q) \in Nat
               /\ executions'[j] + Cardinality(Q) <= executions[j] + Cardinality(P)
    <3> HIDE DEF P, Q
    <3>1. IsFiniteSet(P \ {s}) /\ Cardinality(P \ {s}) = Cardinality(P) - 1
      BY <1>2, <2>2, FS_RemoveElement
    <3>2. IsFiniteSet(Q) /\ Cardinality(Q) <= Cardinality(P \ {s})
      BY <2>2, <3>1, FS_Subset
    <3>3. Cardinality(Q) \in Nat
      BY <3>2, FS_CardinalityType
    <3> QED  BY <1>1, <1>2, <2>2, <3>1, <3>2, <3>3
  <2> QED  BY <2>1, <2>2
<1> HIDE DEF P, Q
<1>4. /\ executions'[j] + Cardinality(Q) <= hash'[j].attempts
      /\ executions'[j] + Cardinality(Q) <= MaxAttempts
  BY <1>1, <1>2, <1>3
<1> QED  BY <1>3, <1>4 DEF Counted, P, Q

\* write_running_state counts an attempt for the one slot that may now execute.
LEMMA CountedStarts ==
  ASSUME TypeInv, TypeInv', NEW j \in Job, Counted(j), NEW s \in Slot, WriteRunningState(s),
         slot[s].job = j
  PROVE  Counted(j)'
<1> DEFINE P == Pending(j)
           Q == Pending(j)'
           n == hash[j].attempts
<1>1. /\ executions[j] \in Nat /\ n \in 0 .. MaxAttempts + 1 /\ MaxAttempts \in Nat
      /\ slot \in [Slot -> SlotState] /\ hash \in [Job -> StateHash]
  BY JobQueueAssumption DEF TypeInv, TypeOK, QueueTypeOK, StateHash
<1>2. /\ IsFiniteSet(P) /\ Cardinality(P) \in Nat
      /\ executions[j] + Cardinality(P) <= n
      /\ executions[j] + Cardinality(P) <= MaxAttempts
  BY FS_CardinalityType DEF Counted
<1>3. /\ UNCHANGED executions /\ hash'[j].attempts = NextAttempt(n)
      /\ slot'[s].pc = "execute" /\ slot'[s].job = j /\ slot'[s].attempt = NextAttempt(n)
      /\ \A t \in Slot : t # s => slot'[t] = slot[t]
  BY <1>1 DEF WriteRunningState, RunningState, StateHash, SlotState
<1>4. Q \subseteq P \cup {s} /\ (NextAttempt(n) > MaxAttempts => Q \subseteq P)
  <2>1. NextAttempt(n) \in 0 .. MaxAttempts + 1
    BY <1>1, NextAttemptType
  <2> QED  BY <1>1, <1>3, <2>1 DEF Pending
<1> HIDE DEF P, Q, n
<1>5. CASE n < MaxAttempts
  <2>1. NextAttempt(n) = n + 1
    BY <1>1, <1>5 DEF NextAttempt
  <2>2. /\ IsFiniteSet(P \cup {s})
        /\ Cardinality(P \cup {s}) = Cardinality(P) \/ Cardinality(P \cup {s}) = Cardinality(P) + 1
    BY <1>2, FS_AddElement
  <2>3. IsFiniteSet(Q) /\ Cardinality(Q) <= Cardinality(P \cup {s})
    BY <1>4, <2>2, FS_Subset
  <2>4. Cardinality(Q) \in Nat
    BY <2>3, FS_CardinalityType
  <2>5. /\ executions'[j] + Cardinality(Q) <= hash'[j].attempts
        /\ executions'[j] + Cardinality(Q) <= MaxAttempts
    BY <1>1, <1>2, <1>3, <1>5, <2>1, <2>2, <2>3, <2>4
  <2> QED  BY <2>3, <2>5 DEF Counted, Q
<1>6. CASE n >= MaxAttempts
  <2>1. NextAttempt(n) >= n /\ NextAttempt(n) > MaxAttempts /\ NextAttempt(n) \in Nat
    BY <1>1, <1>6 DEF NextAttempt
  <2>2. IsFiniteSet(Q) /\ Cardinality(Q) <= Cardinality(P)
    BY <1>2, <1>4, <2>1, FS_Subset
  <2>3. Cardinality(Q) \in Nat
    BY <2>2, FS_CardinalityType
  <2>4. /\ executions'[j] + Cardinality(Q) <= hash'[j].attempts
        /\ executions'[j] + Cardinality(Q) <= MaxAttempts
    BY <1>1, <1>2, <1>3, <2>1, <2>2, <2>3
  <2> QED  BY <2>2, <2>4 DEF Counted, Q
<1> QED  BY <1>1, <1>5, <1>6

\* A job that has no message yet is counted correctly, whatever its hash says.
LEMMA UnstartedCounted ==
  ASSUME TypeInv, NEW j \in Job, Unstarted(j)
  PROVE  Counted(j)
<1>1. Pending(j) = {}
  BY DEF Pending, Unstarted
<1>2. IsFiniteSet(Pending(j)) /\ Cardinality(Pending(j)) = 0
  BY <1>1, FS_EmptySet
<1>3. executions[j] = 0 /\ hash[j].attempts \in Nat /\ MaxAttempts \in Nat
  BY JobQueueAssumption DEF Unstarted, TypeInv, TypeOK, QueueTypeOK, StateHash
<1> QED  BY <1>2, <1>3 DEF Counted

\* The queue hands out what is in the stream, and a slot works on what it was handed.
LEMMA QueueStepKnows ==
  ASSUME TypeInv, NEW s \in Slot, QueueStep(s)
  PROVE  /\ stream' \subseteq stream /\ UNCHANGED executions
         /\ \A t \in Slot : /\ batch'[t] \subseteq batch[t] \cup stream
                            /\ slot'[t].job \in {slot[t].job, NoJob} \cup batch[t]
<1>0. /\ slot \in [Slot -> SlotState] /\ batch \in [Slot -> SUBSET Job]
      /\ IdleSlot.job = NoJob
  BY DEF TypeInv, TypeOK, QueueTypeOK, IdleSlot
<1>1. stream' \subseteq stream /\ UNCHANGED executions
  BY DEF QueueStep, ReadReclaimed, ReadNew, ReadState, DiscardMessage, AckMessage,
         ClaimLease, StartJobFails, WriteRunningState, WriteRunningStateFails,
         HeartbeatLosesLease, FinishAck, FinishAckFails, FinishRelease,
         FinishReleaseFails, queueVars
<1>2. \A t \in Slot : batch'[t] \subseteq batch[t] \cup stream
  <2>1. ASSUME NEW S \in SUBSET stream, ReadReclaimed(s, S)
        PROVE  \A t \in Slot : batch'[t] \subseteq batch[t] \cup stream
    BY <1>0, <2>1 DEF ReadReclaimed
  <2>2. ASSUME NEW j \in Job, ReadNew(s, j)
        PROVE  \A t \in Slot : batch'[t] \subseteq batch[t] \cup stream
    BY <1>0, <2>2 DEF ReadNew, Oldest
  <2>3. CASE ReadState(s)
    BY <1>0, <2>3 DEF ReadState
  <2>4. CASE StartJobFails(s) \/ WriteRunningStateFails(s) \/ FinishRelease(s)
             \/ FinishReleaseFails(s)
    BY <1>0, <2>4 DEF StartJobFails, WriteRunningStateFails, FinishRelease, FinishReleaseFails
  <2>5. CASE DiscardMessage(s) \/ ClaimLease(s) \/ WriteRunningState(s) \/ FinishAck(s)
             \/ HeartbeatLosesLease(s) \/ FinishAckFails(s)
    BY <2>5 DEF DiscardMessage, ClaimLease, WriteRunningState, HeartbeatLosesLease, FinishAck,
                FinishAckFails
  <2> QED  BY <2>1, <2>2, <2>3, <2>4, <2>5 DEF QueueStep
<1>3. \A t \in Slot : t # s => slot'[t] = slot[t]
  BY QueueStepFrame DEF TypeInv, TypeOK
<1>4. slot'[s].job \in {slot[s].job, NoJob} \cup batch[s]
  <2>1. CASE ReadState(s)
    BY <1>0, <2>1 DEF ReadState, SlotState
  <2>2. CASE slot[s].pc # "poll" \/ ~ReadState(s)
    <3>1. SlotMove(s)
      BY QueueStepSlot DEF TypeInv, TypeOK
    <3>2. slot[s].pc = "poll" /\ ~ReadState(s) => UNCHANGED slot \/ slot'[s] = IdleSlot
      BY <1>0 DEF QueueStep, ReadReclaimed, ReadNew, DiscardMessage,
         ClaimLease, StartJobFails, WriteRunningState, WriteRunningStateFails,
         HeartbeatLosesLease, FinishAck, FinishAckFails, FinishRelease, FinishReleaseFails
    <3> QED  BY <1>0, <2>2, <3>1, <3>2 DEF SlotMove
  <2> QED  BY <2>1, <2>2
<1> QED  BY <1>1, <1>2, <1>3, <1>4

\* Of an unfinished job the queue neither takes attempts back nor starts an execution
\* but by write_running_state.
LEMMA QueueStepCounts ==
  ASSUME AckInv, NEW s \in Slot, QueueStep(s), NEW j \in Job \ Uncertain,
         ~(WriteRunningState(s) /\ slot[s].job = j)
  PROVE  hash'[j].attempts >= hash[j].attempts /\ Pending(j)' \subseteq Pending(j)
<1>0. /\ slot \in [Slot -> SlotState] /\ hash \in [Job -> StateHash]
      /\ TypeInv /\ AckJustified /\ MaxAttempts \in Nat
      /\ \A t \in Slot : t # s => slot'[t] = slot[t]
  BY JobQueueAssumption, QueueStepFrame DEF AckInv, TypeInv, TypeOK, QueueTypeOK
<1>1. hash'[j].attempts >= hash[j].attempts
  <2>1. hash[j].attempts \in 0 .. MaxAttempts + 1
    BY <1>0 DEF StateHash
  <2>2. NextAttempt(hash[j].attempts) >= hash[j].attempts
    BY <1>0, <2>1 DEF NextAttempt
  <2>3. \/ UNCHANGED hash
        \/ hash' = [hash EXCEPT ![slot[s].job] = NoState] /\ slot[s].job \in Uncertain
        \/ hash' = [hash EXCEPT ![slot[s].job] = RunningState(@)]
        \/ hash' = [hash EXCEPT ![slot[s].job].attempts = NextAttempt(@)]
    BY <1>0 DEF QueueStep, ReadReclaimed, ReadNew, ReadState, DiscardMessage, ExpireState,
           ClaimLease, StartJobFails, WriteRunningState, WriteRunningStateFails,
           HeartbeatLosesLease, FinishAck, FinishAckFails, FinishRelease,
           FinishReleaseFails, queueVars, AckJustified, Uncertain
  <2>4. /\ RunningState(hash[j]).attempts = NextAttempt(hash[j].attempts)
        /\ [hash[j] EXCEPT !.attempts = NextAttempt(@)].attempts = NextAttempt(hash[j].attempts)
    BY <1>0 DEF RunningState, StateHash
  <2>5. \/ hash'[j] \in {hash[j], RunningState(hash[j])}
        \/ hash'[j] = [hash[j] EXCEPT !.attempts = NextAttempt(@)]
    BY <1>0, <2>3
  <2>6. hash[j].attempts \in Nat /\ NextAttempt(hash[j].attempts) \in Nat
    BY <1>0, <2>1 DEF NextAttempt
  <2>7. hash'[j] = hash[j] \/ hash'[j].attempts = NextAttempt(hash[j].attempts)
    BY <2>4, <2>5
  <2> QED  BY <2>2, <2>6, <2>7
<1>2. slot'[s].pc = "execute" /\ slot'[s].job = j =>
        slot[s].pc = "execute" /\ slot[s].job = j /\ slot'[s].attempt = slot[s].attempt
  <2>1. CASE WriteRunningState(s)
    BY <1>0, <2>1 DEF WriteRunningState, SlotState
  <2>2. CASE HeartbeatLosesLease(s)
    BY <1>0, <2>2 DEF HeartbeatLosesLease, SlotState
  <2>3. slot'[s].pc # "execute" \/ ~ReadState(s)
    BY <1>0 DEF ReadState, SlotState
  <2>6. slot'[s].pc # "execute" \/ ~ClaimLease(s)
    BY <1>0 DEF ClaimLease, SlotState, IdleSlot
  <2>7. slot'[s].pc # "execute" \/ ~(FinishAck(s) \/ FinishAckFails(s))
    BY <1>0 DEF FinishAck, FinishAckFails, SlotState
  <2>4. CASE DiscardMessage(s) \/ StartJobFails(s) \/ WriteRunningStateFails(s)
             \/ FinishRelease(s) \/ FinishReleaseFails(s)
    BY <1>0, <2>4 DEF DiscardMessage, StartJobFails, WriteRunningStateFails, FinishRelease,
                      FinishReleaseFails, IdleSlot
  <2>5. CASE \/ \E S \in SUBSET stream : ReadReclaimed(s, S)
             \/ \E k \in Job : ReadNew(s, k)
    BY <2>5 DEF ReadReclaimed, ReadNew
  <2> QED  BY <2>1, <2>2, <2>3, <2>4, <2>5, <2>6, <2>7 DEF QueueStep
<1> QED  BY <1>0, <1>1, <1>2 DEF Pending

\* Executions stay bounded under steps of the queue ...
LEMMA QueueStepBounded ==
  ASSUME AckInv, TypeInv', StartInv, CountInv, NEW s \in Slot, QueueStep(s)
  PROVE  StartInv' /\ CountInv'
<1>1. UNCHANGED <<streamId, expired, accepted, create, executions>> /\ TypeInv
  BY QueueStepFrame, QueueStepKnows DEF AckInv, TypeInv, TypeOK, backendVars
<1>2. StartInv'
  BY <1>1, QueueStepKnows, JobQueueAssumption DEF StartInv, Unstarted
<1>3. ASSUME NEW j \in Job \ Uncertain PROVE Counted(j)'
  <2>1. Counted(j)
    BY <1>3 DEF CountInv
  <2>2. CASE WriteRunningState(s) /\ slot[s].job = j
    BY <1>1, <2>1, <2>2, CountedStarts
  <2>3. CASE ~(WriteRunningState(s) /\ slot[s].job = j)
    <3>1. hash'[j].attempts >= hash[j].attempts /\ Pending(j)' \subseteq Pending(j)
      BY <2>3, QueueStepCounts
    <3> QED  BY <1>1, <2>1, <3>1, CountedKeeps
  <2> QED  BY <2>2, <2>3
<1> QED  BY <1>1, <1>2, <1>3 DEF CountInv, Uncertain

\* ... of process_message, where an execution uses up a pending attempt ...
LEMMA ProcessStepBounded ==
  ASSUME AckInv, TypeInv', StartInv, CountInv, NEW s \in Slot, ProcessStep(s)
  PROVE  StartInv' /\ CountInv'
<1>0. /\ slot \in [Slot -> SlotState] /\ executions \in [Job -> Nat] /\ TypeInv
      /\ hash \in [Job -> StateHash]
  BY DEF AckInv, TypeInv, TypeOK, QueueTypeOK
<1>1. /\ UNCHANGED <<stream, streamId, batch, expired, accepted, create, hash>>
      /\ \/ UNCHANGED executions
         \/ /\ executions' = [executions EXCEPT ![slot[s].job] = @ + 1]
            /\ slot[s].pc = "execute" /\ slot[s].attempt <= MaxAttempts
  BY DEF ProcessStep, Execute, GiveUp, ExecuteDependencyFails, RequestTimesOut,
         queueVars, backendVars
<1>2. /\ \A t \in Slot : t # s => slot'[t] = slot[t]
      /\ slot[s].pc \in {"execute", "wait"} /\ slot'[s].pc \in {"finish", "wait"}
      /\ slot'[s].job = slot[s].job
  BY <1>0, ProcessStepSlot
<1>3. StartInv'
  BY <1>0, <1>1, <1>2 DEF StartInv, Unstarted
<1>4. ASSUME NEW j \in Job \ Uncertain PROVE Counted(j)'
  <2>1. Counted(j) /\ Pending(j)' \subseteq Pending(j) \ {s}
    BY <1>2, <1>4 DEF CountInv, Pending
  <2>2. hash[j].attempts \in Nat /\ hash'[j].attempts >= hash[j].attempts
    BY <1>0, <1>1, JobQueueAssumption DEF StateHash
  <2>3. CASE UNCHANGED executions
    BY <1>0, <2>1, <2>2, <2>3, CountedKeeps
  <2>4. CASE /\ executions' = [executions EXCEPT ![slot[s].job] = @ + 1]
             /\ slot[s].pc = "execute" /\ slot[s].attempt <= MaxAttempts
    <3>1. CASE slot[s].job = j
      <4>1. s \in Pending(j) /\ executions'[j] = executions[j] + 1
        BY <1>0, <2>4, <3>1 DEF Pending
      <4> QED  BY <1>0, <2>1, <2>2, <4>1, CountedKeeps
    <3>2. CASE slot[s].job # j
      <4>1. executions'[j] = executions[j]
        BY <1>0, <2>4, <3>2
      <4>2. Pending(j)' \subseteq Pending(j)
        BY <2>1
      <4> QED  BY <1>0, <2>1, <2>2, <4>1, <4>2, CountedKeeps
    <3> QED  BY <3>1, <3>2
  <2> QED  BY <1>1, <2>3, <2>4
<1> QED  BY <1>1, <1>3, <1>4 DEF CountInv, Uncertain

\* ... of the request that creates a job, which resets no counter in use ...
LEMMA CreateStepBounded ==
  ASSUME AckInv, TypeInv', StartInv, CountInv, NEW j \in Job, CreateStep(j)
  PROVE  StartInv' /\ CountInv'
<1>0. /\ streamId \in [Job -> Nat] /\ create \in [Job -> CreatePc] /\ TypeInv
      /\ hash \in [Job -> StateHash] /\ IsFiniteSet(Enqueued)
  BY DEF AckInv, TypeInv, TypeOK, QueueTypeOK, CompletionTypeOK
<1>1. UNCHANGED <<expired, accepted, slot, batch, executions>>
  BY DEF CreateStep, ReserveUsage, InsertProjection, WriteQueuedState, EnqueueMessage,
         EnqueueFails, DeleteProjection, ReleaseReservation, AttachJobId, CrashRequest,
         queueVars, slotVars
<1>2. \/ /\ UNCHANGED <<stream, streamId>>
         /\ create'[j] \in {"none", "reserved", "inserted", "stated"} =>
              create[j] \in {"none", "reserved", "inserted", "stated"}
      \/ AppendMessage(j) /\ create'[j] \notin {"none", "reserved", "inserted", "stated"}
  BY <1>0 DEF CreateStep, ReserveUsage, InsertProjection, WriteQueuedState, EnqueueMessage,
         EnqueueFails, DeleteProjection, ReleaseReservation, AttachJobId, CrashRequest,
         queueVars, slotVars
<1>3. \A k \in Job : k # j => create'[k] = create[k]
  BY <1>0 DEF CreateStep, ReserveUsage, InsertProjection, WriteQueuedState, EnqueueMessage,
         EnqueueFails, DeleteProjection, ReleaseReservation, AttachJobId, CrashRequest
<1>4. StartInv'
  <2>1. CASE /\ UNCHANGED <<stream, streamId>>
             /\ create'[j] \in {"none", "reserved", "inserted", "stated"} =>
                  create[j] \in {"none", "reserved", "inserted", "stated"}
    BY <1>0, <1>1, <1>3, <2>1 DEF StartInv, Unstarted
  <2>2. CASE AppendMessage(j) /\ create'[j] \notin {"none", "reserved", "inserted", "stated"}
    <3>1. Cardinality(Enqueued) \in Nat
      BY <1>0, FS_CardinalityType
    <3>2. /\ streamId'[j] # 0 /\ \A k \in Job : k # j => streamId'[k] = streamId[k]
          /\ stream' \subseteq stream \cup {j}
      BY <1>0, <2>2, <3>1 DEF AppendMessage
    <3> QED  BY <1>1, <1>3, <2>2, <3>2 DEF StartInv, Unstarted
  <2> QED  BY <1>2, <2>1, <2>2
<1>5. ASSUME NEW k \in Job \ Uncertain PROVE Counted(k)'
  <2>1. CASE hash'[k] = hash[k]
    <3>1. Counted(k) /\ Pending(k)' \subseteq Pending(k)
      BY <1>1, <1>5 DEF CountInv, Pending
    <3>2. hash[k].attempts \in Nat
      BY <1>0, JobQueueAssumption DEF StateHash
    <3> QED  BY <1>0, <1>1, <2>1, <3>1, <3>2, CountedKeeps
  <2>2. CASE hash'[k] # hash[k]
    <3>1. k = j /\ create[j] \in {"inserted", "stated"}
      BY <1>0, <2>2 DEF CreateStep, ReserveUsage, InsertProjection, WriteQueuedState,
         EnqueueMessage, EnqueueFails, DeleteProjection, ReleaseReservation, AttachJobId,
         CrashRequest
    <3>2. executions[k] = 0 /\ \A s \in Slot : slot[s].job # k
      BY <3>1 DEF StartInv, Unstarted
    <3>3. Pending(k)' = {} /\ executions'[k] = 0
      BY <1>1, <3>2 DEF Pending
    <3>4. IsFiniteSet(Pending(k)') /\ Cardinality(Pending(k)') = 0
      BY <3>3, FS_EmptySet
    <3>5. hash'[k].attempts \in Nat /\ MaxAttempts \in Nat
      BY JobQueueAssumption DEF TypeInv, TypeOK, QueueTypeOK, StateHash
    <3> QED  BY <3>3, <3>4, <3>5 DEF Counted
  <2> QED  BY <2>1, <2>2
<1> QED  BY <1>1, <1>4, <1>5 DEF CountInv, Uncertain

\* ... of complete_job, which makes a job uncertain before it sets the counter ...
LEMMA CallStepBounded ==
  ASSUME AckInv, TypeInv', StartInv, CountInv, NEW c \in Call, CallStep(c)
  PROVE  StartInv' /\ CountInv'
<1>0. /\ slot \in [Slot -> SlotState] /\ hash \in [Job -> StateHash] /\ TypeInv
      /\ BusyCalls
  BY DEF AckInv, TypeInv, TypeOK, QueueTypeOK
<1>1. /\ UNCHANGED <<stream, streamId, batch, expired, executions, create>>
      /\ accepted \subseteq accepted'
      /\ \A j \in Job : j \notin accepted' => hash'[j].attempts = hash[j].attempts
  <2>1. CASE ClaimTerminalState(c)
    BY <1>0, <2>1 DEF ClaimTerminalState, BusyCalls, queueVars
  <2>2. CASE CompleteTerminalState(c)
    BY <1>0, <2>2 DEF CompleteTerminalState, StateHash, queueVars
  <2>3. CASE UpdateProjection(c) \/ FinalizeBilling(c) \/ PublishEvent(c) \/ CallFails(c)
    BY <2>3 DEF UpdateProjection, FinalizeBilling, PublishEvent, CallFails, queueVars, slotVars
  <2> QED  BY <2>1, <2>2, <2>3 DEF CallStep
<1>2. UNCHANGED slot \/ \E ack, drop \in BOOLEAN : Reply(c, ack, drop)
  BY DEF CallStep, ClaimTerminalState, UpdateProjection, FinalizeBilling, PublishEvent,
         CompleteTerminalState, CallFails, slotVars
<1>3. \A t \in Slot : slot'[t] = slot[t] \/ (slot'[t].pc = "finish" /\ slot'[t].job = slot[t].job)
  BY <1>0, <1>2, ReplySlot
<1>4. StartInv'
  BY <1>1, <1>3 DEF StartInv, Unstarted
<1>5. ASSUME NEW j \in Job \ Uncertain' PROVE Counted(j)'
  <2>1. j \in Job \ Uncertain
    BY <1>1, <1>5 DEF Uncertain
  <2>2. Counted(j) /\ Pending(j)' \subseteq Pending(j)
    BY <1>3, <2>1 DEF CountInv, Pending
  <2>3. hash'[j].attempts >= hash[j].attempts
    <3>1. hash[j].attempts \in Nat
      BY <1>0, JobQueueAssumption DEF StateHash
    <3> QED  BY <1>1, <1>5, <3>1 DEF Uncertain
  <2> QED  BY <1>0, <1>1, <2>2, <2>3, CountedKeeps
<1> QED  BY <1>4, <1>5 DEF CountInv

\* ... and of the environment, where an expiry does the same.
LEMMA EnvironmentStepBounded ==
  ASSUME AckInv, TypeInv', StartInv, CountInv, EnvironmentStep
  PROVE  StartInv' /\ CountInv'
<1>0. hash \in [Job -> StateHash] /\ TypeInv /\ IdleSlot.job = NoJob /\ NoJob \notin Job
  BY JobQueueAssumption DEF AckInv, TypeInv, TypeOK, QueueTypeOK, IdleSlot
<1>1. /\ UNCHANGED <<stream, streamId, executions, accepted, create>>
      /\ expired \subseteq expired'
      /\ \A j \in Job : j \notin expired' => hash'[j] = hash[j]
      /\ \A t \in Slot : /\ slot'[t] = slot[t] \/ slot'[t] = IdleSlot
                         /\ batch'[t] \subseteq batch[t]
  BY <1>0 DEF EnvironmentStep, LeaseTtlEnds, LeaseStalls, JobExpires, CrashWorker, queueVars,
         slotVars, backendVars
<1>2. StartInv'
  BY <1>0, <1>1 DEF StartInv, Unstarted
<1>3. ASSUME NEW j \in Job \ Uncertain' PROVE Counted(j)'
  <2>1. j \in Job \ Uncertain
    BY <1>1, <1>3 DEF Uncertain
  <2>2. Counted(j) /\ Pending(j)' \subseteq Pending(j)
    BY <1>0, <1>1, <2>1 DEF CountInv, Pending
  <2>3. hash'[j].attempts >= hash[j].attempts
    <3>1. hash[j].attempts \in Nat
      BY <1>0, JobQueueAssumption DEF StateHash
    <3> QED  BY <1>1, <1>3, <3>1 DEF Uncertain
  <2> QED  BY <1>0, <1>1, <2>2, <2>3, CountedKeeps
<1> QED  BY <1>2, <1>3 DEF CountInv

\* A job that never completes is executed at most max_attempts times, whatever crashes,
\* lost leases, timeouts and redeliveries do: every execution used up an attempt that
\* write_running_state had counted for it.
THEOREM ExecutionsLimited == Spec => []ExecutionsBounded
<1>1. Init => AckInv /\ StartInv /\ CountInv
  <2> SUFFICES ASSUME Init PROVE AckInv /\ StartInv /\ CountInv
    OBVIOUS
  <2>1. TypeInv /\ AckInv
    BY InitTypeInv, InitAckInv
  <2>2. StartInv /\ \A j \in Job : Unstarted(j)
    BY JobQueueAssumption
       DEF Init, QueueInit, CompletionInit, StartInv, Unstarted, IdleSlot
  <2>3. CountInv
    BY <2>1, <2>2, UnstartedCounted DEF CountInv
  <2> QED  BY <2>1, <2>2, <2>3
<1>2. AckInv /\ StartInv /\ CountInv /\ [Next]_vars => (StartInv /\ CountInv)'
  <2> SUFFICES ASSUME AckInv, StartInv, CountInv, [Next]_vars PROVE StartInv' /\ CountInv'
    OBVIOUS
  <2>1. TypeInv'
    BY NextTypeInv DEF AckInv
  <2>2. CASE UNCHANGED vars
    <3>1. /\ UNCHANGED <<stream, streamId, executions, accepted, expired, create, hash, slot, batch>>
      BY <2>2 DEF vars, queueVars, slotVars, backendVars
    <3> QED  BY <3>1 DEF StartInv, Unstarted, CountInv, Counted, Pending, Uncertain
  <2> QED
    BY <2>1, <2>2, QueueStepBounded, ProcessStepBounded, CreateStepBounded, CallStepBounded,
       EnvironmentStepBounded DEF Next
<1>3. AckInv /\ CountInv => ExecutionsBounded
  <2> SUFFICES ASSUME AckInv, CountInv, NEW j \in Job \ InternalJob,
                      j \notin accepted \cup expired
               PROVE  executions[j] <= MaxAttempts
    BY DEF ExecutionsBounded
  <2>1. Counted(j) /\ Cardinality(Pending(j)) \in Nat
    BY FS_CardinalityType DEF CountInv, Counted, Uncertain
  <2>2. executions[j] \in Nat /\ MaxAttempts \in Nat
    BY JobQueueAssumption DEF AckInv, TypeInv, TypeOK, QueueTypeOK
  <2> QED  BY <2>1, <2>2 DEF Counted
<1> QED  BY <1>1, <1>2, <1>3, NextAckInv, PTL DEF Spec
=============================================================================
