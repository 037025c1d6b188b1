------------------------- MODULE CustomerSyncProofs -------------------------
(***************************************************************************)
(* Proofs about CustomerSync for every number of processes, addresses,     *)
(* changes and faults: the types, that a task has one attempt at a time    *)
(* unless a change was put into it, and that Stripe has the user's address *)
(* when all tasks are done and no change fell into a known window.         *)
(***************************************************************************)
EXTENDS CustomerSync, SequenceTheorems, FiniteSetTheorems, WellFoundedInduction, TLAPS

-----------------------------------------------------------------------------
\* The invariants

Alive == user_email # NoEmail
Busy(p) == attempt[p].pc # "idle"
Queueing(p) == request[p].pc \in {"changed", "found"}

\* A change that may yet append a task.
Coming == {p \in Process : request[p].pc \in {"changing", "changed", "found"}}

\* Values and relations of TypeOK that do not count the tasks.
Values ==
  /\ user_email \in Email \cup {NoEmail}
  /\ account \in BOOLEAN
  /\ tasks \in Seq(Task)
  /\ request \in [Process -> Request]
  /\ attempt \in [Process -> Attempt]
  /\ customer \in [email : Email \cup {NoEmail}, keys : SUBSET Key]
  /\ late \subseteq Key
  /\ missed \subseteq Window
  /\ changes \in 0 .. MaxChanges /\ faults \in 0 .. MaxFaults

\* A billing account has its user, and the tasks have their account.
Owned == (account => Alive) /\ (~account => tasks = <<>>)

\* A request has the address it is about; a task it found is one of the account's; and
\* one process at a time makes the customer of a user who has none.
RequestShape(p) ==
  LET r == request[p] IN
  /\ r.pc \in {"changing", "changed", "found", "loaded", "inserting", "creating"} => r.email \in Email
  /\ r.pc = "creating" => Alive /\ ~account
  /\ r.pc \in {"changed", "found"} /\ Alive => account
  /\ r.pc = "found" /\ Alive =>
       r.task \in 0 .. Len(tasks) /\ (r.task # 0 => r.status \in {"pending", "processing"})

OneCreating == \A p, q \in Process : request[p].pc = "creating" /\ request[q].pc = "creating" => p = q

\* An attempt is one of a task of the account, until the account is deleted.
AttemptShape(p) ==
  LET a == attempt[p] IN
  IF a.pc = "idle" THEN a = NoAttempt
  ELSE /\ a.task \in 1 .. MaxChanges /\ a.email \in Email
       /\ Alive => account /\ a.task \in 1 .. Len(tasks)

LateShape == \A k \in late : Alive => account /\ k[1] \in 1 .. Len(tasks)

\* Every change appends one task at most.
Budget == Len(tasks) + Cardinality(Coming) + changes <= MaxChanges

ShapeInv ==
  /\ Values /\ Owned /\ OneCreating /\ LateShape /\ Budget
  /\ \A p \in Process : RequestShape(p) /\ AttemptShape(p)

\* A task that is attempted is processing and not stale, and attempted once, unless a
\* change was put into an attempted task.
Held ==
  /\ \A p \in Process : Busy(p) /\ Alive =>
       tasks[attempt[p].task].status = "processing" /\ ~tasks[attempt[p].task].stale
  /\ \A p, q \in Process : Busy(p) /\ Busy(q) /\ attempt[p].task = attempt[q].task => p = q

ExclusiveInv == "coalesced" \in missed \/ Held

\* The address that Stripe is to have.
Last == IF tasks = <<>> THEN customer.email ELSE tasks[Len(tasks)].email

\* Only the last task is open; it has the user's address once no change is on its way
\* to the tasks; if it succeeded Stripe has its address; and Stripe has handled what
\* an attempt is about to call done.
LastOpen == \A t \in 1 .. Len(tasks) : Open(t) => t = Len(tasks)
LastQueued == (\A p \in Process : ~Queueing(p)) => Normalized[Last] = Normalized[user_email]
LastArrived ==
  tasks # <<>> /\ tasks[Len(tasks)].status = "succeeded" =>
    customer.email = Last /\ <<Len(tasks), Last>> \in customer.keys
AnswersTrue ==
  \A p \in Process : attempt[p].pc = "ok" => <<attempt[p].task, attempt[p].email>> \in customer.keys

\* There is a customer, and no change fell into a window that loses it.
Mailed == account /\ customer.email # NoEmail /\ missed \subseteq {"coalesced"}

MailInv == Mailed => LastOpen /\ LastQueued /\ LastArrived /\ AnswersTrue

-----------------------------------------------------------------------------
\* The tasks, and the budget of changes

LEMMA TaskFacts ==
  ASSUME Values
  PROVE  /\ Len(tasks) \in Nat /\ DOMAIN tasks = 1 .. Len(tasks)
         /\ \A t \in 1 .. Len(tasks) : tasks[t] \in Task
         /\ tasks = <<>> <=> Len(tasks) = 0
<1>1. tasks \in Seq(Task)
  BY DEF Values
<1>2. Len(tasks) \in Nat /\ DOMAIN tasks = 1 .. Len(tasks)
  BY <1>1, LenProperties
<1>3. \A t \in 1 .. Len(tasks) : tasks[t] \in Task
  BY <1>1, ElementOfSeq
<1>4. tasks = <<>> <=> Len(tasks) = 0
  BY <1>1, EmptySeq
<1> QED  BY <1>2, <1>3, <1>4

\* A task that is written in place.
LEMMA TaskWritten ==
  ASSUME Values, NEW t \in 1 .. Len(tasks), NEW v \in Task, tasks' = [tasks EXCEPT ![t] = v]
  PROVE  /\ tasks' \in Seq(Task) /\ Len(tasks') = Len(tasks)
         /\ \A u \in 1 .. Len(tasks) : tasks'[u] = IF u = t THEN v ELSE tasks[u]
<1>1. tasks \in Seq(Task)
  BY DEF Values
<1> QED  BY <1>1, ExceptSeq

\* A task that is appended.
LEMMA TaskAppended ==
  ASSUME Values, NEW v \in Task, tasks' = Append(tasks, v)
  PROVE  /\ tasks' \in Seq(Task) /\ Len(tasks') = Len(tasks) + 1 /\ tasks' # <<>>
         /\ \A u \in 1 .. Len(tasks) : tasks'[u] = tasks[u]
         /\ tasks'[Len(tasks) + 1] = v
<1>1. tasks \in Seq(Task)
  BY DEF Values
<1> QED  BY <1>1, AppendProperties

\* A set of tasks has a newest one.
LEMMA Smallest ==
  ASSUME NEW S, S \subseteq Nat, S # {}
  PROVE  \E i \in S : \A j \in S : i <= j
<1>1. PICK i \in S : \A j \in S : <<j, i>> \notin OpToRel(<, Nat)
  BY NatLessThanWellFounded, WFMin, Zenon
<1>2. \A j \in S : ~(j < i)
  BY <1>1 DEF OpToRel
<1> QED
  BY <1>2

LEMMA Largest ==
  ASSUME NEW n \in Nat, NEW S, S \subseteq 1 .. n, S # {}
  PROVE  \E i \in S : \A j \in S : j <= i
<1> DEFINE T == {n - i : i \in S}
<1>1. T \subseteq Nat /\ T # {}
  <2>1. \A i \in S : n - i \in Nat
    OBVIOUS
  <2> QED
    BY <2>1
<1> HIDE DEF T
<1>2. PICK x \in T : \A y \in T : x <= y
  BY <1>1, Smallest
<1>3. PICK i \in S : x = n - i
  BY <1>2 DEF T
<1>4. \A j \in S : n - i <= n - j
  BY <1>2, <1>3 DEF T
<1> QED
  BY <1>4

\* How many changes may yet append a task, when one request moves on.
LEMMA ComingFacts ==
  ASSUME Values
  PROVE  /\ IsFiniteSet(Coming) /\ Cardinality(Coming) \in Nat
         /\ \A p \in Process : p \in Coming => Cardinality(Coming) >= 1
<1>1. IsFiniteSet(Coming)
  BY CustomerSyncAssumption, FS_Subset DEF Coming
<1>2. Cardinality(Coming) \in Nat
  BY <1>1, FS_CardinalityType
<1>3. ASSUME NEW p \in Process, p \in Coming
      PROVE  Cardinality(Coming) >= 1
  BY <1>1, <1>2, <1>3, FS_EmptySet
<1> QED  BY <1>1, <1>2, <1>3

LEMMA ComingMoves ==
  ASSUME Values, NEW p \in Process, NEW r \in Request, request' = [request EXCEPT ![p] = r]
  PROVE  LET moving == {"changing", "changed", "found"} IN
         /\ Cardinality(Coming') \in Nat
         /\ Cardinality(Coming') =
              Cardinality(Coming) + (IF r.pc \in moving /\ p \notin Coming THEN 1 ELSE 0)
                                  - (IF r.pc \notin moving /\ p \in Coming THEN 1 ELSE 0)
<1> DEFINE moving == {"changing", "changed", "found"}
<1>1. IsFiniteSet(Coming) /\ Cardinality(Coming) \in Nat
  BY ComingFacts
<1>2. request \in [Process -> Request] /\ request'[p] = r
      /\ \A q \in Process \ {p} : request'[q] = request[q]
  BY DEF Values
<1>3. CASE r.pc \in moving
  <2>1. Coming' = Coming \cup {p}
    BY <1>2, <1>3 DEF Coming
  <2>2. Cardinality(Coming \cup {p}) = IF p \in Coming THEN Cardinality(Coming) ELSE Cardinality(Coming) + 1
    BY <1>1, FS_AddElement
  <2> QED  BY <1>1, <1>3, <2>1, <2>2
<1>4. CASE r.pc \notin moving
  <2>1. Coming' = Coming \ {p}
    BY <1>2, <1>4 DEF Coming
  <2>2. Cardinality(Coming \ {p}) = IF p \in Coming THEN Cardinality(Coming) - 1 ELSE Cardinality(Coming)
    BY <1>1, FS_RemoveElement
  <2>3. p \in Coming => Cardinality(Coming) >= 1
    BY ComingFacts
  <2> QED  BY <1>1, <1>4, <2>1, <2>2, <2>3
<1> QED  BY <1>3, <1>4

\* What a step of processes P, or of none, is to show for the shape.
LEMMA ShapeKept ==
  ASSUME ShapeInv, Values', Budget', NEW P \in SUBSET Process,
         Alive' <=> Alive, account' <=> account, Len(tasks') >= Len(tasks),
         tasks = <<>> /\ ~account => tasks' = <<>>,
         \A q \in Process \ P : request'[q] = request[q] /\ attempt'[q] = attempt[q],
         \A p \in P : RequestShape(p)' /\ AttemptShape(p)',
         \A p \in P : request'[p].pc = "creating" =>
           request[p].pc = "creating" \/ (P = {p} /\ ~Locked(p)),
         \A k \in late' : k \in late \/ \E p \in P : Busy(p) /\ k = <<attempt[p].task, attempt[p].email>>
  PROVE  ShapeInv'
<1>1. Len(tasks) \in Nat /\ Len(tasks') \in Nat
  <2>1. tasks \in Seq(Task) /\ tasks' \in Seq(Task)
    BY DEF ShapeInv, Values
  <2> QED  BY <2>1, LenProperties
<1>2. Owned'
  BY DEF ShapeInv, Owned
<1>3. OneCreating'
  BY DEF ShapeInv, OneCreating, Locked
<1>4. ASSUME NEW k \in late'
      PROVE  Alive' => account' /\ k[1] \in 1 .. Len(tasks')
  <2>1. CASE k \in late
    BY <1>1, <2>1 DEF ShapeInv, LateShape
  <2>2. CASE \E p \in P : Busy(p) /\ k = <<attempt[p].task, attempt[p].email>>
    BY <1>1, <2>2 DEF ShapeInv, AttemptShape, Busy
  <2> QED  BY <2>1, <2>2
<1>5. ASSUME NEW q \in Process \ P
      PROVE  RequestShape(q)' /\ AttemptShape(q)'
  <2>1. RequestShape(q) /\ AttemptShape(q)
    BY DEF ShapeInv
  <2>2. RequestShape(q)'
    BY <1>1, <2>1 DEF RequestShape
  <2>3. AttemptShape(q)'
    BY <1>1, <2>1 DEF AttemptShape
  <2> QED  BY <2>2, <2>3
<1>6. LateShape'
  BY <1>4 DEF LateShape
<1>7. \A p \in Process : RequestShape(p)' /\ AttemptShape(p)'
  BY <1>5
<1> QED  BY <1>2, <1>3, <1>6, <1>7 DEF ShapeInv

-----------------------------------------------------------------------------
\* Types and shape

LEMMA ConstantTypes ==
  /\ Idle \in Request /\ Idle.pc = "idle"
  /\ NoAttempt \in Attempt /\ NoAttempt.pc = "idle" /\ NoAttempt.task = 0
<1>1. Idle \in Request /\ Idle.pc = "idle"
  BY DEF Idle, Request
<1>2. NoAttempt \in Attempt /\ NoAttempt.pc = "idle" /\ NoAttempt.task = 0
  BY DEF NoAttempt, Attempt
<1> QED  BY <1>1, <1>2

\* A request that ends appends no more tasks.
LEMMA BudgetSpared ==
  ASSUME Values, Budget, NEW p \in Process, request' = [request EXCEPT ![p] = Idle], changes' = changes,
         Len(tasks') \in Nat, Len(tasks') <= Len(tasks)
  PROVE  Budget'
<1>1. Idle \in Request /\ Idle.pc = "idle"
  BY ConstantTypes
<1>2. /\ Len(tasks) \in Nat /\ Cardinality(Coming) \in Nat
      /\ changes \in 0 .. MaxChanges /\ MaxChanges \in Nat
  BY TaskFacts, ComingFacts, CustomerSyncAssumption DEF Values
<1>3. Cardinality(Coming') \in Nat /\ Cardinality(Coming') <= Cardinality(Coming)
  <2>1. /\ Cardinality(Coming') \in Nat
        /\ Cardinality(Coming') =
             Cardinality(Coming) + (IF Idle.pc \in {"changing", "changed", "found"} /\ p \notin Coming THEN 1 ELSE 0)
                                 - (IF Idle.pc \notin {"changing", "changed", "found"} /\ p \in Coming THEN 1 ELSE 0)
    BY <1>1, ComingMoves
  <2> QED  BY <1>1, <1>2, <2>1
<1>4. Budget' = (Len(tasks') + Cardinality(Coming') + changes' <= MaxChanges)
  BY DEF Budget
<1>5. Len(tasks) + Cardinality(Coming) + changes <= MaxChanges
  BY DEF Budget
<1> HIDE DEF Coming
<1>6. Len(tasks') + Cardinality(Coming') + changes' <= MaxChanges
  BY <1>2, <1>3, <1>5
<1> QED  BY <1>4, <1>6

\* A step of a request that leaves tasks and attempts alone.
LEMMA RequestMoves ==
  ASSUME ShapeInv, NEW p \in Process, NEW r \in Request, request' = [request EXCEPT ![p] = r],
         UNCHANGED <<account, tasks, attempt, late>>,
         user_email' \in Email \cup {NoEmail}, Alive' <=> Alive,
         changes' \in 0 .. MaxChanges, faults' \in 0 .. MaxFaults, missed' \subseteq Window,
         customer' \in [email : Email \cup {NoEmail}, keys : SUBSET Key],
         \/ changes' = changes /\ (p \in Coming \/ r.pc \notin {"changing", "changed", "found"})
         \/ changes' = changes - 1,
         r.pc \in {"changing", "changed", "found", "loaded", "inserting", "creating"} => r.email \in Email,
         r.pc = "creating" => ~Locked(p) /\ Alive /\ ~account,
         r.pc \in {"changed", "found"} /\ Alive => account,
         r.pc = "found" /\ Alive =>
           r.task \in 0 .. Len(tasks) /\ (r.task # 0 => r.status \in {"pending", "processing"})
  PROVE  ShapeInv'
<1>1. Values /\ Budget
  BY DEF ShapeInv
<1>2. request' \in [Process -> Request] /\ request'[p] = r
      /\ \A q \in Process \ {p} : request'[q] = request[q]
  BY <1>1 DEF Values
<1>3. Values'
  BY <1>1, <1>2 DEF Values
<1>4. Budget'
  <2>1. Len(tasks) \in Nat /\ Cardinality(Coming) \in Nat
    BY <1>1, TaskFacts, ComingFacts
  <2>2. Cardinality(Coming') \in Nat /\ changes \in Nat /\ MaxChanges \in Nat /\ changes' \in Nat
    <3>1. changes \in 0 .. MaxChanges /\ MaxChanges \in Nat
      BY <1>1, CustomerSyncAssumption DEF Values
    <3>2. Cardinality(Coming') \in Nat
      BY <1>1, ComingMoves
    <3> QED  BY <3>1, <3>2
  <2>3. Cardinality(Coming') + changes' <= Cardinality(Coming) + changes
    <3>1. Cardinality(Coming') =
            Cardinality(Coming) + (IF r.pc \in {"changing", "changed", "found"} /\ p \notin Coming THEN 1 ELSE 0)
                                - (IF r.pc \notin {"changing", "changed", "found"} /\ p \in Coming THEN 1 ELSE 0)
      BY <1>1, ComingMoves
    <3> QED  BY <2>1, <2>2, <3>1
  <2>4. Budget' = (Len(tasks) + Cardinality(Coming') + changes' <= MaxChanges)
    BY DEF Budget
  <2> HIDE DEF Coming
  <2> QED  BY <1>1, <2>1, <2>2, <2>3, <2>4 DEF Budget
<1>5. RequestShape(p)'
  BY <1>2 DEF RequestShape
<1>6. AttemptShape(p)'
  <2>1. AttemptShape(p)
    BY DEF ShapeInv
  <2> QED  BY <2>1 DEF AttemptShape
<1>7. Len(tasks') >= Len(tasks)
  BY <1>1, TaskFacts
<1>8. /\ account' <=> account
      /\ tasks = <<>> /\ ~account => tasks' = <<>>
      /\ \A q \in Process \ {p} : request'[q] = request[q] /\ attempt'[q] = attempt[q]
      /\ \A k \in late' : k \in late
      /\ request'[p].pc = "creating" => ~Locked(p)
  BY <1>2
<1>9. {p} \in SUBSET Process
  OBVIOUS
<1> QED
  BY <1>3, <1>4, <1>5, <1>6, <1>7, <1>8, <1>9, ShapeKept

LEMMA StartShape ==
  ASSUME ShapeInv, NEW p \in Process,
         (\E e \in Email : StartChange(p, e)) \/ StartCheckout(p) \/ StartDelete(p)
  PROVE  ShapeInv'
<1> USE CustomerSyncAssumption
<1>0. /\ Values /\ request \in [Process -> Request] /\ request[p] \in Request
      /\ user_email \in Email \cup {NoEmail} /\ changes \in 0 .. MaxChanges /\ MaxChanges \in Nat
      /\ faults \in 0 .. MaxFaults /\ missed \subseteq Window
      /\ customer \in [email : Email \cup {NoEmail}, keys : SUBSET Key]
  BY DEF ShapeInv, Values
<1>1. CASE \E e \in Email : StartChange(p, e)
  <2>1. PICK e \in Email : StartChange(p, e)
    BY <1>1
  <2> DEFINE d == Normalized[user_email] # Normalized[e]
             r == [request[p] EXCEPT !.pc = "changing", !.email = e, !.differs = d]
  <2>7. request' = [request EXCEPT ![p].pc = "changing", ![p].email = e, ![p].differs = d]
    BY <2>1 DEF StartChange
  <2>8. d \in BOOLEAN
    OBVIOUS
  <2> HIDE DEF d
  <2>2. request' = [request EXCEPT ![p] = r]
    BY <1>0, <2>7
  <2>3. r \in Request /\ r.pc = "changing" /\ r.email = e
    BY <1>0, <2>8 DEF Request
  <2>4. changes' = changes - 1 /\ changes' \in 0 .. MaxChanges
    <3>1. changes' = changes - 1 /\ changes > 0
      BY <2>1, Zenon DEF StartChange
    <3> HIDE <2>1
    <3> QED  BY <1>0, <3>1
  <2>5. UNCHANGED <<user_email, account, tasks, attempt, customer, late, missed, faults>>
    BY <2>1 DEF StartChange
  <2>6. Alive' <=> Alive
    BY <2>5 DEF Alive
  <2> HIDE DEF r
  <2> QED  BY <1>0, <2>2, <2>3, <2>4, <2>5, <2>6, RequestMoves
<1>2. CASE StartCheckout(p)
  <2> DEFINE r == [request[p] EXCEPT !.pc = "loaded", !.email = user_email]
  <2>1. request' = [request EXCEPT ![p] = r] /\ user_email \in Email
    BY <1>0, <1>2 DEF StartCheckout
  <2>2. r \in Request /\ r.pc = "loaded" /\ r.email = user_email
    BY <1>0, <2>1 DEF Request
  <2>3. UNCHANGED <<user_email, account, tasks, attempt, customer, late, missed, changes, faults>>
    BY <1>2 DEF StartCheckout
  <2>4. Alive' <=> Alive
    BY <2>3 DEF Alive
  <2> HIDE DEF r
  <2> QED  BY <1>0, <2>1, <2>2, <2>3, <2>4, RequestMoves
<1>3. CASE StartDelete(p)
  <2> DEFINE r == [request[p] EXCEPT !.pc = "cleaning", !.count = Len(tasks), !.had = account]
  <2>1. request' = [request EXCEPT ![p] = r]
    BY <1>0, <1>3 DEF StartDelete
  <2>2. r \in Request /\ r.pc = "cleaning"
    BY <1>0, TaskFacts DEF Request, Values
  <2>3. UNCHANGED <<user_email, account, tasks, attempt, customer, late, missed, changes, faults>>
    BY <1>3 DEF StartDelete
  <2>4. Alive' <=> Alive
    BY <2>3 DEF Alive
  <2> HIDE DEF r
  <2> QED  BY <1>0, <2>1, <2>2, <2>3, <2>4, RequestMoves
<1> QED  BY <1>1, <1>2, <1>3

LEMMA RequestStepShape ==
  ASSUME ShapeInv, NEW p \in Process,
         CommitChange(p) \/ FindTask(p) \/ InsertAccount(p) \/ CustomerFails(p) \/ CleanUpRemote(p)
  PROVE  ShapeInv'
<1> USE CustomerSyncAssumption
<1>0. /\ Values /\ request \in [Process -> Request] /\ request[p] \in Request /\ RequestShape(p)
      /\ user_email \in Email \cup {NoEmail} /\ changes \in 0 .. MaxChanges /\ MaxChanges \in Nat
      /\ faults \in 0 .. MaxFaults /\ MaxFaults \in Nat /\ missed \subseteq Window
      /\ customer \in [email : Email \cup {NoEmail}, keys : SUBSET Key]
      /\ Idle \in Request /\ Idle.pc = "idle"
      /\ p \in Coming <=> request[p].pc \in {"changing", "changed", "found"}
  BY ConstantTypes DEF ShapeInv, Values, Coming
<1>1. CASE CommitChange(p)
  <2>1. /\ request[p].pc = "changing" /\ request[p].email \in Email /\ p \in Coming
        /\ UNCHANGED <<account, tasks, attempt, customer, late, changes, faults>>
    BY <1>0, <1>1 DEF CommitChange, RequestShape
  <2>2. /\ user_email' \in Email \cup {NoEmail}
        /\ Alive' <=> Alive
    BY <1>0, <1>1, <2>1 DEF CommitChange, Alive
  <2>3. missed' \subseteq Window
    BY <1>0, <1>1 DEF CommitChange, Window
  <2>4. CASE request' = [request EXCEPT ![p] = Idle]
    BY <1>0, <2>1, <2>2, <2>3, <2>4, RequestMoves
  <2>5. CASE request' = [request EXCEPT ![p].pc = "changed"] /\ account
    <3> DEFINE r == [request[p] EXCEPT !.pc = "changed"]
    <3>1. r \in Request /\ r.pc = "changed" /\ r.email = request[p].email
      BY <1>0 DEF Request
    <3>2. request' = [request EXCEPT ![p] = r]
      BY <1>0, <2>5
    <3> HIDE DEF r
    <3> QED  BY <1>0, <2>1, <2>2, <2>3, <2>5, <3>1, <3>2, RequestMoves
  <2> QED  BY <1>1, <2>4, <2>5 DEF CommitChange, Respond
<1>2. CASE FindTask(p)
  <2>1. /\ request[p].pc = "changed" /\ p \in Coming /\ request[p].email \in Email /\ (Alive => account)
        /\ UNCHANGED <<user_email, account, tasks, attempt, customer, late, missed, changes, faults>>
    BY <1>0, <1>2 DEF FindTask, RequestShape
  <2> DEFINE open == {t \in DOMAIN tasks : Open(t)}
             last == CHOOSE t \in open : \A u \in open : u <= t
             task == IF open = {} THEN 0 ELSE last
             status == IF open = {} THEN "none" ELSE tasks[last].status
  <2>2. request' = [request EXCEPT ![p].pc = "found", ![p].task = task, ![p].status = status]
    BY <1>2 DEF FindTask
  <2>3. task \in 0 .. Len(tasks) /\ status \in {"none", "pending", "processing"}
        /\ (task # 0 => status \in {"pending", "processing"}) /\ Len(tasks) \in Nat
    <3>1. open \subseteq 1 .. Len(tasks) /\ Len(tasks) \in Nat
      BY <1>0, TaskFacts
    <3>2. open # {} => last \in open
      <4>1. open # {} => \E t \in open : \A u \in open : u <= t
        <5> HIDE DEF open
        <5> QED  BY <3>1, Largest
      <4> QED  BY <4>1
    <3> QED  BY <3>1, <3>2 DEF Open
  <2>4. Alive' <=> Alive
    BY <2>1 DEF Alive
  <2> HIDE DEF task, status, last, open
  <2> DEFINE r == [request[p] EXCEPT !.pc = "found", !.task = task, !.status = status]
  <2>5. r \in Request /\ r.pc = "found" /\ r.email = request[p].email /\ r.task = task /\ r.status = status
    <3>1. task \in Nat
      BY <2>3
    <3> QED  BY <1>0, <2>3, <3>1 DEF Request
  <2>6. request' = [request EXCEPT ![p] = r]
    BY <1>0, <2>2
  <2> HIDE DEF r
  <2> QED  BY <1>0, <2>1, <2>3, <2>4, <2>5, <2>6, RequestMoves
<1>3. CASE InsertAccount(p)
  <2>1. /\ UNCHANGED <<user_email, account, tasks, attempt, customer, late, missed, changes, faults>>
        /\ request[p].pc \in {"loaded", "inserting"} /\ request[p].email \in Email
    BY <1>0, <1>3 DEF InsertAccount, RequestShape
  <2>2. Alive' <=> Alive
    BY <2>1 DEF Alive
  <2>3. CASE request' = [request EXCEPT ![p] = Idle]
    BY <1>0, <2>1, <2>2, <2>3, RequestMoves
  <2>4. ASSUME NEW pc \in {"creating", "inserting"}, request' = [request EXCEPT ![p].pc = pc],
               pc = "creating" => ~Locked(p) /\ Alive /\ ~account
        PROVE  ShapeInv'
    <3> DEFINE r == [request[p] EXCEPT !.pc = pc]
    <3>1. r \in Request /\ r.pc = pc /\ r.email = request[p].email
      BY <1>0 DEF Request
    <3>2. request' = [request EXCEPT ![p] = r]
      BY <1>0, <2>4
    <3> HIDE DEF r
    <3>3. r.pc \notin {"changing", "changed", "found"} /\ r.email \in Email
          /\ (r.pc = "creating" => ~Locked(p) /\ Alive /\ ~account)
      BY <2>1, <2>4, <3>1
    <3> HIDE <2>4
    <3> QED  BY <1>0, <2>1, <2>2, <3>1, <3>2, <3>3, RequestMoves
  <2> QED  BY <1>3, <2>3, <2>4 DEF InsertAccount, Respond, Alive
<1>4. CASE CustomerFails(p)
  <2>1. /\ UNCHANGED <<user_email, account, tasks, attempt, customer, late, missed, changes>>
        /\ request' = [request EXCEPT ![p] = Idle] /\ faults > 0 /\ faults' = faults - 1
    BY <1>4 DEF CustomerFails, Fault, Respond
  <2>2. (Alive' <=> Alive) /\ faults' \in 0 .. MaxFaults
    BY <1>0, <2>1 DEF Alive
  <2> QED  BY <1>0, <2>1, <2>2, RequestMoves
<1>5. CASE CleanUpRemote(p)
  <2>1. UNCHANGED <<user_email, account, tasks, attempt, late, missed, changes>>
    BY <1>5 DEF CleanUpRemote
  <2> DEFINE r == [request[p] EXCEPT !.pc = "committing"]
  <2>2. request' = [request EXCEPT ![p] = r] /\ r \in Request /\ r.pc = "committing"
    BY <1>0, <1>5 DEF CleanUpRemote, Request
  <2>3. faults' \in 0 .. MaxFaults
    <3>1. faults' = faults \/ (faults > 0 /\ faults' = faults - 1)
      BY <1>5 DEF CleanUpRemote, Fault
    <3> QED  BY <1>0, <3>1
  <2>4. customer' \in [email : Email \cup {NoEmail}, keys : SUBSET Key]
    BY <1>0, <1>5 DEF CleanUpRemote
  <2>5. Alive' <=> Alive
    BY <2>1 DEF Alive
  <2> HIDE DEF r
  <2> QED  BY <1>0, <2>1, <2>2, <2>3, <2>4, <2>5, RequestMoves
<1> QED  BY <1>1, <1>2, <1>3, <1>4, <1>5

\* There are no more tasks than changes.
LEMMA TaskBound ==
  ASSUME ShapeInv
  PROVE  Len(tasks) <= MaxChanges
<1>1. /\ Len(tasks) \in Nat /\ Cardinality(Coming) \in Nat
      /\ changes \in 0 .. MaxChanges /\ MaxChanges \in Nat
  BY TaskFacts, ComingFacts, CustomerSyncAssumption DEF ShapeInv, Values
<1>2. Len(tasks) + Cardinality(Coming) + changes <= MaxChanges
  BY DEF ShapeInv, Budget
<1> QED  BY <1>1, <1>2

LEMMA SameBudget ==
  ASSUME Budget, UNCHANGED <<request, changes>>, Len(tasks') = Len(tasks)
  PROVE  Budget'
BY DEF Budget, Coming

\* Stripe handles a request.
LEMMA HandleTypes ==
  ASSUME Values, NEW t \in 1 .. MaxChanges, NEW e \in Email, Handle(t, e)
  PROVE  /\ customer' \in [email : Email \cup {NoEmail}, keys : SUBSET Key]
         /\ missed' \subseteq Window /\ missed \subseteq missed'
<1>1. /\ customer \in [email : Email \cup {NoEmail}, keys : SUBSET Key] /\ missed \subseteq Window
      /\ <<t, e>> \in Key
  BY DEF Values, Key
<1>2. customer' = customer \/ customer' = [email |-> e, keys |-> customer.keys \cup {<<t, e>>}]
  BY DEF Handle
<1>3. \/ missed' = missed \/ missed' = missed \cup {"replayed"} \/ missed' = missed \cup {"overtaken"}
  BY DEF Handle
<1>4. customer' \in [email : Email \cup {NoEmail}, keys : SUBSET Key]
  BY <1>1, <1>2
<1>5. missed' \subseteq Window /\ missed \subseteq missed'
  BY <1>1, <1>3 DEF Window
<1> QED  BY <1>4, <1>5

\* A step of an attempt, or of none, that leaves the requests alone.
LEMMA AttemptMoves ==
  ASSUME ShapeInv, NEW P \in SUBSET Process,
         \A q \in Process \ P : attempt'[q] = attempt[q], attempt' \in [Process -> Attempt],
         \A p \in P : AttemptShape(p)',
         UNCHANGED <<user_email, account, request, changes>>,
         tasks' \in Seq(Task), Len(tasks') = Len(tasks),
         customer' \in [email : Email \cup {NoEmail}, keys : SUBSET Key],
         late' \subseteq Key, missed' \subseteq Window, faults' \in 0 .. MaxFaults,
         \A k \in late' : k \in late \/ \E p \in P : Busy(p) /\ k = <<attempt[p].task, attempt[p].email>>
  PROVE  ShapeInv'
<1>1. Values /\ Budget /\ \A p \in Process : RequestShape(p)
  BY DEF ShapeInv
<1>2. Values'
  BY <1>1 DEF Values
<1>3. Budget'
  BY <1>1, SameBudget
<1>4. \A p \in P : RequestShape(p)'
  BY <1>1 DEF RequestShape, Alive
<1>5. /\ Alive' <=> Alive
      /\ account' <=> account
      /\ \A q \in Process \ P : request'[q] = request[q] /\ attempt'[q] = attempt[q]
      /\ \A p \in P : request'[p].pc = "creating" => request[p].pc = "creating"
  BY DEF Alive
<1>6. Len(tasks') >= Len(tasks)
  BY <1>1, TaskFacts
<1>7. tasks = <<>> => tasks' = <<>>
  <2>1. tasks = <<>> => Len(tasks') = 0
    BY <1>1, TaskFacts
  <2> QED  BY <2>1, EmptySeq
<1>8. \A p \in P : RequestShape(p)' /\ AttemptShape(p)'
  BY <1>4
<1> QED
  BY <1>2, <1>3, <1>5, <1>6, <1>7, <1>8, ShapeKept

LEMMA ClaimShape ==
  ASSUME ShapeInv, NEW p \in Process, Claim(p)
  PROVE  ShapeInv'
<1>0. /\ Values /\ attempt \in [Process -> Attempt] /\ late \subseteq Key /\ missed \subseteq Window
      /\ customer \in [email : Email \cup {NoEmail}, keys : SUBSET Key] /\ faults \in 0 .. MaxFaults
  BY DEF ShapeInv, Values
<1>1. PICK t \in DOMAIN tasks :
        /\ tasks' = [tasks EXCEPT ![t].status = "processing", ![t].stale = FALSE]
        /\ attempt' = [attempt EXCEPT ![p] = [pc |-> "sending", task |-> t, email |-> tasks[t].email]]
  BY DEF Claim
<1>2. UNCHANGED <<user_email, account, request, customer, late, missed, changes, faults>>
  BY DEF Claim
<1>3. /\ t \in 1 .. Len(tasks) /\ tasks[t] \in Task /\ Len(tasks) \in Nat
      /\ t \in 1 .. MaxChanges /\ tasks # <<>>
  BY <1>0, TaskFacts, TaskBound, CustomerSyncAssumption
<1>4. tasks' \in Seq(Task) /\ Len(tasks') = Len(tasks)
  <2> DEFINE v == [tasks[t] EXCEPT !.status = "processing", !.stale = FALSE]
  <2>1. tasks' = [tasks EXCEPT ![t] = v] /\ v \in Task
    BY <1>1, <1>3 DEF Task
  <2> HIDE DEF v
  <2> QED  BY <1>0, <1>3, <2>1, TaskWritten
<1>5. /\ attempt' \in [Process -> Attempt] /\ \A q \in Process \ {p} : attempt'[q] = attempt[q]
      /\ attempt'[p] = [pc |-> "sending", task |-> t, email |-> tasks[t].email]
  BY <1>0, <1>1, <1>3 DEF Attempt, Task
<1>6. AttemptShape(p)'
  <2>1. Alive => account
    BY <1>3 DEF ShapeInv, Owned
  <2>2. tasks[t].email \in Email
    BY <1>3 DEF Task
  <2> QED  BY <1>2, <1>3, <1>4, <1>5, <2>1, <2>2 DEF AttemptShape, Alive
<1>7. {p} \in SUBSET Process
  OBVIOUS
<1> QED
  BY <1>0, <1>2, <1>4, <1>5, <1>6, <1>7, AttemptMoves

LEMMA AnswerShape ==
  ASSUME ShapeInv, NEW p \in Process, Answer(p) \/ AnswerFails(p)
  PROVE  ShapeInv'
<1>0. /\ Values /\ attempt \in [Process -> Attempt] /\ late \subseteq Key /\ missed \subseteq Window
      /\ customer \in [email : Email \cup {NoEmail}, keys : SUBSET Key]
      /\ faults \in 0 .. MaxFaults /\ MaxFaults \in Nat
      /\ tasks \in Seq(Task) /\ AttemptShape(p)
  BY CustomerSyncAssumption DEF ShapeInv, Values
<1>1. attempt[p].pc = "sending" /\ Busy(p) /\ UNCHANGED <<user_email, account, tasks, request, changes>>
  BY DEF Answer, AnswerFails, Busy
<1>2. attempt[p].task \in 1 .. MaxChanges /\ attempt[p].email \in Email
  BY <1>0, <1>1 DEF AttemptShape
<1>3. PICK answer \in {"ok", "failed", "retry"} : attempt' = [attempt EXCEPT ![p].pc = answer]
  BY DEF Answer, AnswerFails
<1>4. /\ attempt' \in [Process -> Attempt] /\ \A q \in Process \ {p} : attempt'[q] = attempt[q]
      /\ attempt'[p] = [attempt[p] EXCEPT !.pc = answer]
  BY <1>0, <1>3 DEF Attempt
<1>5. AttemptShape(p)'
  BY <1>0, <1>1, <1>4 DEF AttemptShape, Alive, Attempt
<1>6. Handle(attempt[p].task, attempt[p].email) \/ UNCHANGED <<customer, missed>>
  BY DEF Answer, AnswerFails
<1>7. customer' \in [email : Email \cup {NoEmail}, keys : SUBSET Key] /\ missed' \subseteq Window
  BY <1>0, <1>2, <1>6, HandleTypes
<1>8. late' = late \/ late' = late \cup {<<attempt[p].task, attempt[p].email>>}
  BY DEF Answer, AnswerFails
<1>9. /\ late' \subseteq Key
      /\ \A k \in late' : k \in late \/ (Busy(p) /\ k = <<attempt[p].task, attempt[p].email>>)
  BY <1>0, <1>1, <1>2, <1>8 DEF Key
<1>10. faults' \in 0 .. MaxFaults
  <2>1. faults' = faults \/ (faults > 0 /\ faults' = faults - 1)
    BY DEF Answer, AnswerFails, Fault
  <2> QED  BY <1>0, <2>1
<1>11. {p} \in SUBSET Process
  OBVIOUS
<1>12. tasks' \in Seq(Task) /\ Len(tasks') = Len(tasks)
  BY <1>0, <1>1
<1> QED
  BY <1>1, <1>4, <1>5, <1>7, <1>9, <1>10, <1>11, <1>12, AttemptMoves

LEMMA LateHandledShape ==
  ASSUME ShapeInv, HandleLate
  PROVE  ShapeInv'
<1>0. /\ Values /\ attempt \in [Process -> Attempt] /\ late \subseteq Key
      /\ faults \in 0 .. MaxFaults /\ tasks \in Seq(Task)
  BY DEF ShapeInv, Values
<1>1. PICK k \in late :
        /\ Handle(k[1], k[2]) /\ late' = late \ {k}
        /\ UNCHANGED <<user_email, account, tasks, request, attempt, changes, faults>>
  BY DEF HandleLate
<1>2. k[1] \in 1 .. MaxChanges /\ k[2] \in Email
  BY <1>0 DEF Key
<1>3. customer' \in [email : Email \cup {NoEmail}, keys : SUBSET Key] /\ missed' \subseteq Window
  BY <1>0, <1>1, <1>2, HandleTypes
<1>4. late' \subseteq Key /\ (\A l \in late' : l \in late) /\ {} \in SUBSET Process
  BY <1>0, <1>1
<1>5. tasks' \in Seq(Task) /\ Len(tasks') = Len(tasks) /\ faults' \in 0 .. MaxFaults
  BY <1>0, <1>1
<1> QED
  BY <1>0, <1>1, <1>3, <1>4, <1>5, AttemptMoves

LEMMA MarkShape ==
  ASSUME ShapeInv, NEW p \in Process, Mark(p)
  PROVE  ShapeInv'
<1>0. /\ Values /\ attempt \in [Process -> Attempt] /\ late \subseteq Key /\ missed \subseteq Window
      /\ customer \in [email : Email \cup {NoEmail}, keys : SUBSET Key] /\ faults \in 0 .. MaxFaults
      /\ tasks \in Seq(Task) /\ NoAttempt \in Attempt /\ NoAttempt.pc = "idle"
  BY ConstantTypes DEF ShapeInv, Values
<1>1. /\ UNCHANGED <<user_email, account, request, customer, late, changes, faults>>
      /\ attempt' = [attempt EXCEPT ![p] = NoAttempt] /\ attempt[p].pc \in {"ok", "retry", "failed"}
  BY DEF Mark
<1>2. missed' \subseteq Window
  <2>1. missed' \subseteq missed \cup {"overwritten", "overtaken", "reopened"}
    BY DEF Mark
  <2> QED  BY <1>0, <2>1 DEF Window
<1>3. tasks' \in Seq(Task) /\ Len(tasks') = Len(tasks)
  <2>1. CASE tasks' = tasks
    BY <1>0, <2>1
  <2>2. CASE attempt[p].task \in DOMAIN tasks /\ tasks' = [tasks EXCEPT ![attempt[p].task] = Marked(@, attempt[p].pc)]
    <3> DEFINE t == attempt[p].task
               v == Marked(tasks[t], attempt[p].pc)
    <3>1. t \in 1 .. Len(tasks) /\ tasks[t] \in Task
      BY <1>0, <2>2, TaskFacts
    <3>2. tasks' = [tasks EXCEPT ![t] = v] /\ v \in Task
      BY <1>1, <2>2, <3>1 DEF Marked, Task
    <3> HIDE DEF v, t
    <3> QED  BY <1>0, <3>1, <3>2, TaskWritten
  <2> QED  BY <2>1, <2>2 DEF Mark
<1>4. /\ attempt' \in [Process -> Attempt] /\ \A q \in Process \ {p} : attempt'[q] = attempt[q]
      /\ attempt'[p] = NoAttempt
  BY <1>0, <1>1
<1>5. AttemptShape(p)'
  BY <1>0, <1>4 DEF AttemptShape
<1>6. {p} \in SUBSET Process /\ faults' \in 0 .. MaxFaults /\ late' \subseteq Key
      /\ \A k \in late' : k \in late
  BY <1>0, <1>1
<1> QED
  BY <1>0, <1>1, <1>2, <1>3, <1>4, <1>5, <1>6, AttemptMoves

LEMMA TimeShape ==
  ASSUME ShapeInv, NEW t \in DOMAIN tasks, BecomesDue(t) \/ BecomesStale(t)
  PROVE  ShapeInv'
<1>0. /\ Values /\ attempt \in [Process -> Attempt] /\ late \subseteq Key /\ missed \subseteq Window
      /\ customer \in [email : Email \cup {NoEmail}, keys : SUBSET Key] /\ faults \in 0 .. MaxFaults
  BY DEF ShapeInv, Values
<1>1. /\ UNCHANGED <<user_email, account, request, attempt, customer, late, missed, changes, faults>>
      /\ tasks' = [tasks EXCEPT ![t].due = TRUE] \/ tasks' = [tasks EXCEPT ![t].stale = TRUE]
  BY DEF BecomesDue, BecomesStale
<1>2. PICK v \in Task : tasks' = [tasks EXCEPT ![t] = v]
  <2>1. tasks[t] \in Task
    BY <1>0, TaskFacts
  <2>2. [tasks[t] EXCEPT !.due = TRUE] \in Task /\ [tasks[t] EXCEPT !.stale = TRUE] \in Task
    BY <2>1 DEF Task
  <2> QED  BY <1>1, <2>2
<1>3. tasks' \in Seq(Task) /\ Len(tasks') = Len(tasks)
  BY <1>0, <1>2, TaskFacts, TaskWritten
<1>4. /\ {} \in SUBSET Process /\ attempt' \in [Process -> Attempt] /\ faults' \in 0 .. MaxFaults
      /\ late' \subseteq Key /\ \A k \in late' : k \in late
      /\ missed' \subseteq Window /\ customer' = customer
  BY <1>0, <1>1
<1> QED
  BY <1>0, <1>1, <1>3, <1>4, AttemptMoves

LEMMA CrashShape ==
  ASSUME ShapeInv, NEW p \in Process, Crash(p)
  PROVE  ShapeInv'
<1>0. /\ Values /\ request \in [Process -> Request] /\ attempt \in [Process -> Attempt]
      /\ late \subseteq Key /\ missed \subseteq Window
      /\ faults \in 0 .. MaxFaults /\ MaxFaults \in Nat /\ AttemptShape(p) /\ Budget
      /\ changes \in 0 .. MaxChanges /\ MaxChanges \in Nat
      /\ Idle \in Request /\ Idle.pc = "idle" /\ NoAttempt \in Attempt /\ NoAttempt.pc = "idle"
  BY ConstantTypes, CustomerSyncAssumption DEF ShapeInv, Values
<1>1. /\ UNCHANGED <<user_email, account, tasks, customer, changes>>
      /\ request' = [request EXCEPT ![p] = Idle] /\ attempt' = [attempt EXCEPT ![p] = NoAttempt]
      /\ faults > 0 /\ faults' = faults - 1
  BY DEF Crash, Fault, Respond
<1>2. missed' \subseteq Window
  BY <1>0 DEF Crash, Window
<1>3. /\ late' \subseteq Key
      /\ \A k \in late' : k \in late \/ (Busy(p) /\ k = <<attempt[p].task, attempt[p].email>>)
  <2>1. CASE late' = late
    BY <1>0, <2>1
  <2>2. CASE attempt[p].pc = "sending" /\ late' = late \cup {<<attempt[p].task, attempt[p].email>>}
    BY <1>0, <2>2 DEF AttemptShape, Key, Busy
  <2> QED  BY <2>1, <2>2 DEF Crash
<1>4. /\ request' \in [Process -> Request] /\ request'[p] = Idle
      /\ attempt' \in [Process -> Attempt] /\ attempt'[p] = NoAttempt
      /\ \A q \in Process \ {p} : request'[q] = request[q] /\ attempt'[q] = attempt[q]
  BY <1>0, <1>1
<1>5. Values'
  <2>1. faults' \in 0 .. MaxFaults
    BY <1>0, <1>1
  <2> QED  BY <1>0, <1>1, <1>2, <1>3, <1>4, <2>1 DEF Values
<1>6. Budget'
  <2>1. Len(tasks') \in Nat /\ Len(tasks') <= Len(tasks) /\ changes' = changes
    BY <1>0, <1>1, TaskFacts
  <2> QED  BY <1>0, <1>1, <2>1, BudgetSpared
<1>7. RequestShape(p)' /\ AttemptShape(p)'
  BY <1>0, <1>4 DEF RequestShape, AttemptShape
<1>8. /\ Alive' <=> Alive
      /\ account' <=> account
      /\ tasks = <<>> => tasks' = <<>>
      /\ request'[p].pc # "creating" /\ {p} \in SUBSET Process
  BY <1>0, <1>1, <1>4 DEF Alive
<1>9. Len(tasks') >= Len(tasks)
  BY <1>0, <1>1, TaskFacts
<1> QED
  BY <1>3, <1>4, <1>5, <1>6, <1>7, <1>8, <1>9, ShapeKept

LEMMA WriteTaskShape ==
  ASSUME ShapeInv, NEW p \in Process, WriteTask(p)
  PROVE  ShapeInv'
<1>0. /\ Values /\ request \in [Process -> Request] /\ request[p] \in Request /\ RequestShape(p)
      /\ missed \subseteq Window /\ Budget /\ AttemptShape(p) /\ tasks \in Seq(Task)
      /\ changes \in 0 .. MaxChanges /\ MaxChanges \in Nat
      /\ user_email \in Email \cup {NoEmail}
      /\ Idle \in Request /\ Idle.pc = "idle" /\ Len(tasks) \in Nat
  BY ConstantTypes, CustomerSyncAssumption, TaskFacts DEF ShapeInv, Values
<1>1. /\ request[p].pc = "found" /\ p \in Coming /\ request[p].email \in Email
      /\ request' = [request EXCEPT ![p] = Idle]
      /\ UNCHANGED <<user_email, account, attempt, customer, late, changes, faults>>
  BY <1>0 DEF WriteTask, Respond, RequestShape, Coming
<1>2. tasks' \in Seq(Task) /\ Len(tasks') \in Len(tasks) .. Len(tasks) + 1
      /\ (~Alive => tasks' = tasks)
  <2>1. CASE ~Alive
    BY <1>0, <2>1 DEF WriteTask, Alive
  <2>2. CASE Alive /\ request[p].task = 0
    <3>1. tasks' = Append(tasks, NewTask(request[p].email)) /\ NewTask(request[p].email) \in Task
      BY <1>1, <2>2 DEF WriteTask, Alive, NewTask, Task
    <3> QED  BY <1>0, <2>2, <3>1, TaskAppended
  <2>3. CASE Alive /\ request[p].task # 0
    <3> DEFINE t == request[p].task
               v == Coalesced(tasks[t], request[p].email, request[p].status)
    <3>1. t \in 1 .. Len(tasks) /\ tasks[t] \in Task
      <4>1. t \in 0 .. Len(tasks) /\ t # 0
        BY <1>0, <1>1, <2>3 DEF RequestShape
      <4>2. t \in 1 .. Len(tasks)
        BY <1>0, <4>1
      <4> QED  BY <1>0, <4>2, TaskFacts
    <3>2. tasks' = [tasks EXCEPT ![t] = v]
      BY <2>3 DEF WriteTask, Alive
    <3>3. v \in Task
      BY <1>1, <3>1 DEF Coalesced, Task
    <3> HIDE DEF v, t
    <3> QED  BY <1>0, <2>3, <3>1, <3>2, <3>3, TaskWritten
  <2> QED  BY <2>1, <2>2, <2>3
<1>3. missed' \subseteq Window
  <2>1. missed' \subseteq missed \cup {"crossed", "coalesced"}
    BY DEF WriteTask
  <2> QED  BY <1>0, <2>1 DEF Window
<1>4. /\ request' \in [Process -> Request] /\ request'[p] = Idle
      /\ \A q \in Process \ {p} : request'[q] = request[q] /\ attempt'[q] = attempt[q]
  BY <1>0, <1>1
<1>5. Values'
  BY <1>0, <1>1, <1>2, <1>3, <1>4 DEF Values
<1>6. Budget'
  <2>1. Cardinality(Coming) \in Nat
    BY <1>0, ComingFacts
  <2>2. Cardinality(Coming') \in Nat /\ Cardinality(Coming') = Cardinality(Coming) - 1
    <3>1. /\ Cardinality(Coming') \in Nat
          /\ Cardinality(Coming') =
               Cardinality(Coming) + (IF Idle.pc \in {"changing", "changed", "found"} /\ p \notin Coming THEN 1 ELSE 0)
                                   - (IF Idle.pc \notin {"changing", "changed", "found"} /\ p \in Coming THEN 1 ELSE 0)
      BY <1>0, <1>1, ComingMoves
    <3> QED  BY <1>0, <1>1, <2>1, <3>1
  <2>3. Budget' = (Len(tasks') + Cardinality(Coming') + changes' <= MaxChanges)
    BY DEF Budget
  <2> HIDE DEF Coming
  <2>4. Len(tasks) + Cardinality(Coming) + changes <= MaxChanges
    BY <1>0 DEF Budget
  <2>5. Len(tasks') \in Nat /\ Len(tasks') <= Len(tasks) + 1 /\ changes' = changes
    BY <1>0, <1>1, <1>2
  <2>6. Len(tasks') + Cardinality(Coming') + changes' <= MaxChanges
    BY <1>0, <2>1, <2>2, <2>4, <2>5
  <2> QED  BY <2>3, <2>6
<1>7. RequestShape(p)' /\ AttemptShape(p)'
  <2>1. RequestShape(p)'
    BY <1>4, <1>0 DEF RequestShape
  <2>2. AttemptShape(p)'
    BY <1>0, <1>1, <1>2 DEF AttemptShape, Alive
  <2> QED  BY <2>1, <2>2
<1>8. /\ Alive' <=> Alive
      /\ account' <=> account
      /\ tasks = <<>> /\ ~account => tasks' = <<>>
      /\ request'[p].pc # "creating" /\ {p} \in SUBSET Process
      /\ \A k \in late' : k \in late
  <2>1. Alive => account
    BY <1>0, <1>1 DEF RequestShape
  <2> QED  BY <1>0, <1>1, <1>2, <1>4, <2>1 DEF Alive
<1>9. Len(tasks') >= Len(tasks)
  BY <1>0, <1>2
<1> QED
  BY <1>4, <1>5, <1>6, <1>7, <1>8, <1>9, ShapeKept

LEMMA CustomerCreatedShape ==
  ASSUME ShapeInv, NEW p \in Process, CustomerCreated(p)
  PROVE  /\ ShapeInv' /\ Alive /\ ~account /\ tasks = <<>> /\ late = {}
         /\ \A q \in Process : ~Queueing(q) /\ ~Busy(q)
<1>0. /\ Values /\ request \in [Process -> Request] /\ RequestShape(p) /\ Budget
      /\ missed \subseteq Window /\ Owned /\ OneCreating
      /\ \A q \in Process : RequestShape(q) /\ AttemptShape(q)
      /\ changes \in 0 .. MaxChanges /\ MaxChanges \in Nat
      /\ Idle \in Request /\ Idle.pc = "idle"
  BY ConstantTypes, CustomerSyncAssumption DEF ShapeInv, Values
<1>1. /\ request[p].pc = "creating" /\ request[p].email \in Email /\ Alive /\ ~account
      /\ account' = TRUE /\ customer' = [email |-> request[p].email, keys |-> {}]
      /\ request' = [request EXCEPT ![p] = Idle]
      /\ UNCHANGED <<user_email, tasks, attempt, late, changes, faults>>
  BY <1>0 DEF CustomerCreated, Respond, RequestShape
<1>2. tasks = <<>>
  BY <1>0, <1>1 DEF Owned
<1>3. late = {}
  BY <1>1 DEF ShapeInv, LateShape
<1>4. \A q \in Process : ~Queueing(q)
  BY <1>0, <1>1 DEF RequestShape, Queueing
<1>5. \A q \in Process : ~Busy(q)
  BY <1>0, <1>1 DEF AttemptShape, Busy
<1>6. missed' \subseteq Window
  BY <1>0 DEF CustomerCreated, Window
<1>7. /\ request' \in [Process -> Request] /\ request'[p] = Idle
      /\ \A q \in Process \ {p} : request'[q] = request[q]
  BY <1>0, <1>1
<1>8. Values'
  BY <1>0, <1>1, <1>6, <1>7 DEF Values
<1>9. Budget'
  <2>1. Len(tasks') \in Nat /\ Len(tasks') <= Len(tasks) /\ changes' = changes
    BY <1>0, <1>1, TaskFacts
  <2> QED  BY <1>0, <1>1, <2>1, BudgetSpared
<1>10. Owned' /\ OneCreating' /\ LateShape'
  <2>1. Owned'
    BY <1>1 DEF Owned, Alive
  <2>2. OneCreating'
    BY <1>0, <1>7 DEF OneCreating
  <2>3. LateShape'
    BY <1>1, <1>3 DEF LateShape
  <2> QED  BY <2>1, <2>2, <2>3
<1>11. ASSUME NEW q \in Process
       PROVE  RequestShape(q)' /\ AttemptShape(q)'
  <2>1. AttemptShape(q)'
    BY <1>0, <1>1, <1>5 DEF AttemptShape, Busy
  <2>2. request'[q].pc # "creating" /\ (request'[q] = Idle \/ request'[q] = request[q])
    BY <1>0, <1>1, <1>7 DEF OneCreating
  <2>3. RequestShape(q)'
    BY <1>0, <1>1, <1>4, <2>2 DEF RequestShape, Queueing
  <2> QED  BY <2>1, <2>3
<1> QED
  BY <1>1, <1>2, <1>3, <1>4, <1>5, <1>8, <1>9, <1>10, <1>11 DEF ShapeInv

LEMMA CommitDeleteShape ==
  ASSUME ShapeInv, NEW p \in Process, CommitDelete(p)
  PROVE  ShapeInv'
<1>0. /\ Values /\ request \in [Process -> Request] /\ Budget
      /\ user_email \in Email \cup {NoEmail} /\ missed \subseteq Window
      /\ customer \in [email : Email \cup {NoEmail}, keys : SUBSET Key]
      /\ faults \in 0 .. MaxFaults /\ OneCreating
      /\ \A q \in Process : RequestShape(q) /\ AttemptShape(q)
      /\ changes \in 0 .. MaxChanges /\ MaxChanges \in Nat
      /\ Idle \in Request /\ Idle.pc = "idle"
  BY ConstantTypes, CustomerSyncAssumption DEF ShapeInv, Values
<1>1. /\ ~Locked(p) /\ request' = [request EXCEPT ![p] = Idle]
      /\ UNCHANGED <<attempt, customer, late, missed, changes, faults>>
  BY DEF CommitDelete, Respond
<1>2. CASE UNCHANGED <<user_email, account, tasks>>
  <2>1. Alive' <=> Alive
    BY <1>2 DEF Alive
  <2> QED  BY <1>0, <1>1, <1>2, <2>1, RequestMoves
<1>3. CASE user_email' = NoEmail /\ account' = FALSE /\ tasks' = <<>>
  <2>1. tasks' \in Seq(Task) /\ Len(tasks') = 0
    BY <1>3, EmptySeq
  <2>2. /\ request' \in [Process -> Request] /\ request'[p] = Idle
        /\ \A q \in Process \ {p} : request'[q] = request[q]
    BY <1>0, <1>1
  <2>3. Values'
    BY <1>0, <1>1, <1>3, <2>1, <2>2 DEF Values
  <2>4. Budget'
    <3>1. Len(tasks') \in Nat /\ Len(tasks') <= Len(tasks) /\ changes' = changes
      BY <1>0, <1>1, <2>1, TaskFacts
    <3> QED  BY <1>0, <1>1, <3>1, BudgetSpared
  <2>5. ~Alive'
    BY <1>3 DEF Alive
  <2>6. Owned' /\ OneCreating' /\ LateShape'
    BY <1>0, <1>3, <2>2, <2>5 DEF Owned, OneCreating, LateShape
  <2>7. ASSUME NEW q \in Process
        PROVE  RequestShape(q)' /\ AttemptShape(q)'
    <3>1. request'[q].pc # "creating" /\ (request'[q] = Idle \/ request'[q] = request[q])
      BY <1>0, <1>1, <2>2 DEF Locked
    <3>2. RequestShape(q)'
      BY <1>0, <2>5, <3>1 DEF RequestShape
    <3>3. AttemptShape(q)'
      BY <1>0, <1>1, <2>5 DEF AttemptShape
    <3> QED  BY <3>2, <3>3
  <2> QED  BY <2>3, <2>4, <2>6, <2>7 DEF ShapeInv
<1> QED  BY <1>2, <1>3 DEF CommitDelete

LEMMA InitShape ==
  Init => ShapeInv
<1> SUFFICES ASSUME Init
             PROVE  ShapeInv
  OBVIOUS
<1>1. /\ request \in [Process -> Request] /\ \A p \in Process : request[p].pc = "idle"
      /\ attempt \in [Process -> Attempt] /\ \A p \in Process : attempt[p] = NoAttempt
      /\ NoAttempt.pc = "idle"
  BY ConstantTypes DEF Init
<1>2. tasks \in Seq(Task) /\ Len(tasks) = 0
  BY EmptySeq DEF Init
<1>3. /\ user_email \in Email /\ account = FALSE /\ tasks = <<>> /\ customer = [email |-> NoEmail, keys |-> {}]
      /\ late = {} /\ missed = {} /\ changes = MaxChanges /\ faults = MaxFaults
      /\ MaxChanges \in Nat /\ MaxFaults \in Nat
  BY CustomerSyncAssumption DEF Init
<1>4. Values
  <2>1. customer \in [email : Email \cup {NoEmail}, keys : SUBSET Key]
    BY <1>3
  <2>2. user_email \in Email \cup {NoEmail} /\ account \in BOOLEAN /\ late \subseteq Key /\ missed \subseteq Window
    BY <1>3
  <2>3. changes \in 0 .. MaxChanges /\ faults \in 0 .. MaxFaults
    BY <1>3
  <2> QED  BY <1>1, <1>2, <2>1, <2>2, <2>3 DEF Values
<1>5. Budget
  <2>1. Coming = {}
    BY <1>1 DEF Coming
  <2>2. Cardinality(Coming) = 0
    BY <2>1, FS_EmptySet
  <2> QED  BY <1>2, <1>3, <2>2 DEF Budget
<1>6. Owned /\ OneCreating /\ LateShape
  BY <1>1, <1>3, CustomerSyncAssumption DEF Owned, OneCreating, LateShape, Alive
<1>7. \A p \in Process : RequestShape(p) /\ AttemptShape(p)
  BY <1>1 DEF RequestShape, AttemptShape
<1> QED  BY <1>4, <1>5, <1>6, <1>7 DEF ShapeInv

LEMMA NextShape ==
  ShapeInv /\ [Next]_vars => ShapeInv'
<1> SUFFICES ASSUME ShapeInv, [Next]_vars
             PROVE  ShapeInv'
  OBVIOUS
<1>1. CASE UNCHANGED vars
  BY <1>1 DEF vars, ShapeInv, Values, Owned, OneCreating, LateShape, Budget, Coming, RequestShape,
              AttemptShape, Alive
<1>2. ASSUME NEW p \in Process,
             \/ \E e \in Email : StartChange(p, e)
             \/ StartCheckout(p) \/ StartDelete(p)
      PROVE  ShapeInv'
  BY <1>2, StartShape
<1>3. ASSUME NEW p \in Process, RequestStep(p) \/ CustomerFails(p)
      PROVE  ShapeInv'
  BY <1>3, RequestStepShape, WriteTaskShape, CustomerCreatedShape, CommitDeleteShape DEF RequestStep
<1>4. ASSUME NEW p \in Process, Claim(p) \/ Answer(p) \/ AnswerFails(p) \/ Mark(p) \/ Crash(p)
      PROVE  ShapeInv'
  BY <1>4, ClaimShape, AnswerShape, MarkShape, CrashShape
<1>5. ASSUME NEW t \in DOMAIN tasks, BecomesDue(t) \/ BecomesStale(t)
      PROVE  ShapeInv'
  BY <1>5, TimeShape
<1>6. CASE HandleLate
  BY <1>6, LateHandledShape
<1> QED
  BY <1>1, <1>2, <1>3, <1>4, <1>5, <1>6 DEF Next

LEMMA ShapeHolds ==
  Spec => []ShapeInv
<1> QED
  BY InitShape, NextShape, PTL DEF Spec

LEMMA ShapeTypes ==
  ShapeInv => TypeOK
<1> SUFFICES ASSUME ShapeInv
             PROVE  TypeOK
  OBVIOUS
<1>1. Len(tasks) <= MaxChanges
  BY TaskBound
<1>2. account => user_email # NoEmail
  BY DEF ShapeInv, Owned, Alive
<1>3. ASSUME NEW p \in Process, NEW q \in Process, {request[p].pc, request[q].pc} = {"creating"}
      PROVE  p = q
  <2>1. request[p].pc \in {request[p].pc, request[q].pc} /\ request[q].pc \in {request[p].pc, request[q].pc}
    OBVIOUS
  <2>2. request[p].pc = "creating" /\ request[q].pc = "creating"
    BY <1>3, <2>1
  <2> QED  BY <2>2 DEF ShapeInv, OneCreating
<1> QED
  BY <1>1, <1>2, <1>3 DEF TypeOK, ShapeInv, Values

\* THEOREM.  The variables have their types; there are no more tasks than changes, an
\* account has its user, and one process at a time makes the customer.
THEOREM TypesHold ==
  Spec => []TypeOK
<1> QED
  BY ShapeHolds, ShapeTypes, PTL

-----------------------------------------------------------------------------
\* One attempt of a task

LEMMA MissedGrows ==
  ASSUME [Next]_vars
  PROVE  missed \subseteq missed'
<1>1. CASE UNCHANGED vars
  BY <1>1 DEF vars
<1>2. ASSUME NEW p \in Process,
             \/ \E e \in Email : StartChange(p, e)
             \/ StartCheckout(p) \/ StartDelete(p) \/ CustomerFails(p) \/ Claim(p)
      PROVE  missed \subseteq missed'
  BY <1>2 DEF StartChange, StartCheckout, StartDelete, CustomerFails, Claim
<1>3. ASSUME NEW p \in Process, RequestStep(p)
      PROVE  missed \subseteq missed'
  BY <1>3 DEF RequestStep, CommitChange, FindTask, WriteTask, InsertAccount, CustomerCreated,
              CleanUpRemote, CommitDelete
<1>4. ASSUME NEW t, NEW e, Handle(t, e)
      PROVE  missed \subseteq missed'
  BY <1>4 DEF Handle
<1>5. ASSUME NEW p \in Process, Answer(p) \/ AnswerFails(p)
      PROVE  missed \subseteq missed'
  BY <1>4, <1>5 DEF Answer, AnswerFails
<1>6. ASSUME NEW p \in Process, Mark(p) \/ Crash(p)
      PROVE  missed \subseteq missed'
  BY <1>6 DEF Mark, Crash
<1>7. ASSUME NEW t \in DOMAIN tasks, BecomesDue(t) \/ BecomesStale(t)
      PROVE  missed \subseteq missed'
  BY <1>7 DEF BecomesDue, BecomesStale
<1>8. CASE HandleLate
  BY <1>4, <1>8 DEF HandleLate
<1> QED
  BY <1>1, <1>2, <1>3, <1>5, <1>6, <1>7, <1>8 DEF Next

\* What keeps the attempted tasks as they are.
LEMMA HeldKept ==
  ASSUME Held, Alive' => Alive,
         \A q \in Process : Busy(q)' => Busy(q) /\ attempt'[q].task = attempt[q].task,
         \A q \in Process : Busy(q)' /\ Alive' =>
           /\ tasks'[attempt[q].task].status = tasks[attempt[q].task].status
           /\ tasks'[attempt[q].task].stale = tasks[attempt[q].task].stale
  PROVE  Held'
<1>1. ASSUME NEW p \in Process, Busy(p)', Alive'
      PROVE  tasks'[attempt'[p].task].status = "processing" /\ ~tasks'[attempt'[p].task].stale
  <2>1. tasks[attempt[p].task].status = "processing" /\ ~tasks[attempt[p].task].stale
    BY <1>1 DEF Held
  <2> QED  BY <1>1, <2>1
<1>2. ASSUME NEW p \in Process, NEW q \in Process, Busy(p)', Busy(q)', attempt'[p].task = attempt'[q].task
      PROVE  p = q
  BY <1>2 DEF Held
<1> QED  BY <1>1, <1>2 DEF Held

LEMMA RequestHeld ==
  ASSUME ShapeInv, Held, NEW p \in Process,
         \/ \E e \in Email : StartChange(p, e)
         \/ StartCheckout(p) \/ StartDelete(p) \/ RequestStep(p) \/ CustomerFails(p)
  PROVE  Held' \/ "coalesced" \in missed'
<1>1. attempt' = attempt
  BY DEF StartChange, StartCheckout, StartDelete, RequestStep, CommitChange, FindTask, WriteTask,
         InsertAccount, CustomerCreated, CleanUpRemote, CommitDelete, CustomerFails
<1>2. \A q \in Process : Busy(q)' => Busy(q) /\ attempt'[q].task = attempt[q].task
  BY <1>1 DEF Busy
<1>3. CASE WriteTask(p) /\ Alive /\ request[p].task # 0 /\ "coalesced" \notin missed'
  <2> DEFINE t == request[p].task
             v == Coalesced(tasks[t], request[p].email, request[p].status)
  <2>1. Alive' => Alive
    BY <1>3
  <2>2. tasks' = [tasks EXCEPT ![t] = v]
    BY <1>3 DEF WriteTask, Alive
  <2>3. \A q \in Process : Busy(q) => attempt[q].task # t
    BY <1>3 DEF WriteTask, Alive, Busy
  <2>4. \A u : u # t => tasks'[u] = tasks[u]
    <3> HIDE DEF t, v
    <3> QED  BY <2>2 DEF ShapeInv, Values
  <2> QED  BY <1>2, <2>1, <2>3, <2>4, HeldKept
<1>4. CASE WriteTask(p) /\ Alive /\ request[p].task = 0
  <2>1. tasks' = Append(tasks, NewTask(request[p].email)) /\ request[p].pc = "found"
    BY <1>4 DEF WriteTask, Alive
  <2>2. NewTask(request[p].email) \in Task
    BY <2>1 DEF ShapeInv, RequestShape, NewTask, Task
  <2>3. \A u \in 1 .. Len(tasks) : tasks'[u] = tasks[u]
    BY <2>1, <2>2, TaskAppended DEF ShapeInv
  <2>4. \A q \in Process : Busy(q) => attempt[q].task \in 1 .. Len(tasks)
    BY <1>4 DEF ShapeInv, AttemptShape, Busy
  <2> QED  BY <1>2, <1>4, <2>3, <2>4, HeldKept
<1>5. CASE WriteTask(p) /\ ~Alive
  <2>1. tasks' = tasks /\ (Alive' => Alive)
    BY <1>5 DEF WriteTask, Alive
  <2> QED  BY <1>2, <2>1, HeldKept
<1>6. CASE ~WriteTask(p)
  <2>1. Alive' => Alive /\ tasks' = tasks
    BY <1>6 DEF StartChange, StartCheckout, StartDelete, RequestStep, CommitChange, FindTask,
         InsertAccount, CustomerCreated, CleanUpRemote, CommitDelete, CustomerFails, Alive
  <2> QED  BY <1>2, <2>1, HeldKept
<1> QED  BY <1>3, <1>4, <1>5, <1>6

LEMMA AttemptHeld ==
  ASSUME ShapeInv, Held, NEW p \in Process, Claim(p) \/ Answer(p) \/ AnswerFails(p) \/ Mark(p) \/ Crash(p)
  PROVE  Held'
<1>0. /\ Values /\ attempt \in [Process -> Attempt] /\ NoAttempt.pc = "idle" /\ user_email' = user_email
      /\ \A q \in Process : AttemptShape(q)
  BY ConstantTypes DEF ShapeInv, Values, Claim, Answer, AnswerFails, Mark, Crash
<1>a. Alive' <=> Alive
  BY <1>0 DEF Alive
<1>1. CASE Claim(p)
  <2>1. PICK t \in DOMAIN tasks :
          /\ Claimable(t)
          /\ tasks' = [tasks EXCEPT ![t].status = "processing", ![t].stale = FALSE]
          /\ attempt' = [attempt EXCEPT ![p] = [pc |-> "sending", task |-> t, email |-> tasks[t].email]]
    BY <1>1 DEF Claim
  <2>2. t \in 1 .. Len(tasks) /\ tasks[t] \in Task /\ tasks # <<>> /\ Alive
    BY <1>0, TaskFacts DEF ShapeInv, Owned
  <2>3. \A q \in Process : Busy(q) => attempt[q].task # t
    BY <2>1, <2>2 DEF Held, Claimable
  <2>4. /\ tasks'[t].status = "processing" /\ ~tasks'[t].stale
        /\ \A u \in 1 .. Len(tasks) : u # t => tasks'[u] = tasks[u]
    <3> DEFINE v == [tasks[t] EXCEPT !.status = "processing", !.stale = FALSE]
    <3>1. tasks' = [tasks EXCEPT ![t] = v] /\ v \in Task /\ v.status = "processing" /\ ~v.stale
      BY <2>1, <2>2 DEF Task
    <3> HIDE DEF v
    <3> QED  BY <1>0, <2>2, <3>1, TaskWritten
  <2>5. /\ attempt'[p].task = t /\ \A q \in Process \ {p} : attempt'[q] = attempt[q]
    BY <1>0, <2>1
  <2>6. \A q \in Process \ {p} : Busy(q)' => Busy(q) /\ attempt[q].task # t /\ attempt[q].task \in 1 .. Len(tasks)
    BY <1>0, <2>2, <2>3, <2>5 DEF Busy, AttemptShape
  <2>7. ASSUME NEW q \in Process, Busy(q)'
        PROVE  tasks'[attempt'[q].task].status = "processing" /\ ~tasks'[attempt'[q].task].stale
    <3>1. CASE q = p
      BY <2>4, <2>5, <3>1
    <3>2. CASE q # p
      BY <2>2, <2>4, <2>5, <2>6, <2>7, <3>2 DEF Held
    <3> QED  BY <3>1, <3>2
  <2>8. ASSUME NEW q \in Process, NEW r \in Process, Busy(q)', Busy(r)', attempt'[q].task = attempt'[r].task
        PROVE  q = r
    BY <2>5, <2>6, <2>8 DEF Held
  <2> QED  BY <2>7, <2>8 DEF Held
<1>2. CASE Answer(p) \/ AnswerFails(p)
  <2>1. attempt[p].pc = "sending" /\ tasks' = tasks
    BY <1>2 DEF Answer, AnswerFails
  <2>2. PICK answer \in {"ok", "failed", "retry"} : attempt' = [attempt EXCEPT ![p].pc = answer]
    BY <1>2 DEF Answer, AnswerFails
  <2>3. \A q \in Process : Busy(q)' => Busy(q) /\ attempt'[q].task = attempt[q].task
    BY <1>0, <2>1, <2>2 DEF Busy, Attempt
  <2> QED  BY <1>a, <2>1, <2>3, HeldKept
<1>3. CASE Mark(p) \/ Crash(p)
  <2>1. attempt' = [attempt EXCEPT ![p] = NoAttempt]
    BY <1>3 DEF Mark, Crash
  <2>2. \A q \in Process : Busy(q)' => q # p /\ Busy(q) /\ attempt'[q].task = attempt[q].task
    BY <1>0, <2>1 DEF Busy
  <2>3. CASE tasks' = tasks
    BY <1>a, <2>2, <2>3, HeldKept
  <2>4. CASE Mark(p) /\ tasks' = [tasks EXCEPT ![attempt[p].task] = Marked(@, attempt[p].pc)]
    <3> DEFINE t == attempt[p].task
               v == Marked(tasks[t], attempt[p].pc)
    <3>1. tasks' = [tasks EXCEPT ![t] = v]
      BY <2>4
    <3>2. Busy(p)
      BY <2>4 DEF Mark, Busy
    <3>3. \A q \in Process : Busy(q)' => attempt[q].task # t
      BY <2>2, <3>2 DEF Held
    <3>4. \A u : u # t => tasks'[u] = tasks[u]
      <4> HIDE DEF t, v
      <4> QED  BY <1>0, <3>1 DEF Values
    <3> QED  BY <1>a, <2>2, <3>3, <3>4, HeldKept
  <2> QED  BY <1>3, <2>3, <2>4 DEF Mark, Crash
<1> QED  BY <1>1, <1>2, <1>3

LEMMA OtherHeld ==
  ASSUME ShapeInv, Held, HandleLate \/ \E t \in DOMAIN tasks : BecomesDue(t) \/ BecomesStale(t)
  PROVE  Held'
<1>0. Values /\ tasks \in Seq(Task) /\ \A q \in Process : AttemptShape(q)
  BY DEF ShapeInv, Values
<1>1. UNCHANGED <<attempt, user_email>>
  BY DEF HandleLate, BecomesDue, BecomesStale
<1>2. /\ Alive' <=> Alive
      /\ \A q \in Process : Busy(q)' => Busy(q) /\ attempt'[q].task = attempt[q].task
  BY <1>1 DEF Alive, Busy
<1>3. CASE HandleLate
  BY <1>2, <1>3, HeldKept DEF HandleLate
<1>4. ASSUME NEW t \in DOMAIN tasks, BecomesDue(t) \/ BecomesStale(t)
      PROVE  Held'
  <2>1. t \in 1 .. Len(tasks) /\ tasks[t] \in Task
    BY <1>0, TaskFacts
  <2>2. CASE BecomesDue(t)
    <3> DEFINE v == [tasks[t] EXCEPT !.due = TRUE]
    <3>1. tasks' = [tasks EXCEPT ![t] = v] /\ v \in Task /\ v.status = tasks[t].status /\ v.stale = tasks[t].stale
      BY <2>1, <2>2 DEF BecomesDue, Task
    <3> HIDE DEF v
    <3>2. \A u \in 1 .. Len(tasks) : tasks'[u].status = tasks[u].status /\ tasks'[u].stale = tasks[u].stale
      BY <1>0, <2>1, <3>1, TaskWritten
    <3>3. \A q \in Process : Busy(q) /\ Alive => attempt[q].task \in 1 .. Len(tasks)
      BY <1>0 DEF AttemptShape, Busy
    <3> QED  BY <1>2, <3>2, <3>3, HeldKept
  <2>3. CASE BecomesStale(t)
    <3>1. tasks' = [tasks EXCEPT ![t].stale = TRUE] /\ \A q \in Process : attempt[q].task # t
      BY <2>3 DEF BecomesStale
    <3>2. \A u : u # t => tasks'[u] = tasks[u]
      BY <1>0, <3>1
    <3> QED  BY <1>2, <3>1, <3>2, HeldKept
  <2> QED  BY <1>4, <2>2, <2>3
<1> QED  BY <1>3, <1>4

LEMMA ExclusiveNext ==
  ShapeInv /\ ExclusiveInv /\ [Next]_vars => ExclusiveInv'
<1> SUFFICES ASSUME ShapeInv, ExclusiveInv, [Next]_vars
             PROVE  ExclusiveInv'
  OBVIOUS
<1>1. CASE "coalesced" \in missed
  BY <1>1, MissedGrows DEF ExclusiveInv
<1>2. CASE Held
  <2>1. CASE UNCHANGED vars
    BY <1>2, <2>1 DEF vars, Held, Busy, Alive, ExclusiveInv
  <2>2. ASSUME NEW p \in Process,
               \/ \E e \in Email : StartChange(p, e)
               \/ StartCheckout(p) \/ StartDelete(p) \/ RequestStep(p) \/ CustomerFails(p)
        PROVE  ExclusiveInv'
    BY <1>2, <2>2, RequestHeld DEF ExclusiveInv
  <2>3. ASSUME NEW p \in Process, Claim(p) \/ Answer(p) \/ AnswerFails(p) \/ Mark(p) \/ Crash(p)
        PROVE  ExclusiveInv'
    BY <1>2, <2>3, AttemptHeld DEF ExclusiveInv
  <2>4. CASE HandleLate \/ \E t \in DOMAIN tasks : BecomesDue(t) \/ BecomesStale(t)
    BY <1>2, <2>4, OtherHeld DEF ExclusiveInv
  <2> QED  BY <2>1, <2>2, <2>3, <2>4 DEF Next
<1> QED  BY <1>1, <1>2 DEF ExclusiveInv

LEMMA InitExclusive ==
  Init => ExclusiveInv
<1> SUFFICES ASSUME Init
             PROVE  Held
  BY DEF ExclusiveInv
<1>1. \A p \in Process : ~Busy(p)
  BY ConstantTypes DEF Init, Busy
<1> QED  BY <1>1 DEF Held

\* THEOREM.  Two processes attempt the same task (one call to Stripe each, one mark
\* each) only if a change of the address was put into it while it was attempted: what
\* claim_next_customer_sync_task takes, pending or stale, excludes all else.
THEOREM AttemptsExclude ==
  Spec => []AttemptInv
<1>1. ShapeInv /\ ExclusiveInv => AttemptInv
  BY ShapeTypes DEF ExclusiveInv, Held, Busy, AttemptInv, OneAttempt
<1>2. Spec => []ExclusiveInv
  BY InitExclusive, ExclusiveNext, ShapeHolds, PTL DEF Spec
<1> QED
  BY <1>1, <1>2, ShapeHolds, PTL

-----------------------------------------------------------------------------
\* The address arrives

\* What keeps the address of the last task where it is.
LEMMA MailKept ==
  ASSUME Values, Values', MailInv, Mailed' => Mailed,
         customer' = customer, user_email' = user_email, Len(tasks') = Len(tasks),
         \A t \in 1 .. Len(tasks) :
           /\ tasks'[t].email = tasks[t].email
           /\ Open(t)' => Open(t)
           /\ tasks'[t].status = "succeeded" => tasks[t].status = "succeeded",
         (\A q \in Process : ~Queueing(q)') => (\A q \in Process : ~Queueing(q)),
         \A q \in Process : attempt'[q].pc = "ok" => attempt'[q] = attempt[q]
  PROVE  MailInv'
<1> SUFFICES ASSUME Mailed'
             PROVE  LastOpen' /\ LastQueued' /\ LastArrived' /\ AnswersTrue'
  BY DEF MailInv
<1>1. LastOpen /\ LastQueued /\ LastArrived /\ AnswersTrue
  BY DEF MailInv
<1>2. /\ Len(tasks) \in Nat
      /\ tasks = <<>> <=> Len(tasks) = 0
      /\ tasks' = <<>> <=> Len(tasks') = 0
  <2>1. tasks \in Seq(Task) /\ tasks' \in Seq(Task)
    BY DEF Values
  <2> QED  BY <2>1, EmptySeq, LenProperties
<1>3. tasks # <<>> => Len(tasks) \in 1 .. Len(tasks)
  BY <1>2
<1>4. Last' = Last
  BY <1>2, <1>3 DEF Last
<1>5. LastOpen'
  BY <1>1 DEF LastOpen
<1>6. LastQueued'
  BY <1>1, <1>4 DEF LastQueued
<1>7. LastArrived'
  BY <1>1, <1>2, <1>3, <1>4 DEF LastArrived
<1>8. AnswersTrue'
  BY <1>1 DEF AnswersTrue
<1> QED  BY <1>5, <1>6, <1>7, <1>8

LEMMA RequestMail ==
  ASSUME ShapeInv, ShapeInv', MailInv, missed \subseteq missed', NEW p \in Process,
         \/ \E e \in Email : StartChange(p, e)
         \/ StartCheckout(p) \/ StartDelete(p) \/ FindTask(p) \/ InsertAccount(p) \/ CustomerFails(p)
  PROVE  MailInv'
<1>0. Values /\ Values' /\ request \in [Process -> Request]
  BY DEF ShapeInv, Values
<1>1. UNCHANGED <<user_email, account, tasks, attempt, customer, missed>>
  BY DEF StartChange, StartCheckout, StartDelete, FindTask, InsertAccount, CustomerFails
<1>2. /\ \A q \in Process \ {p} : request'[q] = request[q]
      /\ Queueing(p) => Queueing(p)'
  BY <1>0 DEF StartChange, StartCheckout, StartDelete, FindTask, InsertAccount, CustomerFails, Respond,
              Queueing, Request
<1>3. (\A q \in Process : ~Queueing(q)') => (\A q \in Process : ~Queueing(q))
  BY <1>2 DEF Queueing
<1>4. /\ Mailed' => Mailed
      /\ \A t \in 1 .. Len(tasks) : Open(t)' => Open(t)
  BY <1>1 DEF Mailed, Open
<1> QED  BY <1>0, <1>1, <1>3, <1>4, MailKept

LEMMA CommitMail ==
  ASSUME ShapeInv, ShapeInv', MailInv, NEW p \in Process, CommitChange(p)
  PROVE  MailInv'
<1>0. /\ Values /\ Values' /\ Owned /\ request \in [Process -> Request]
  BY DEF ShapeInv, Values
<1>1. UNCHANGED <<account, tasks, attempt, customer>> /\ missed \subseteq missed' /\ request[p].pc = "changing"
  BY DEF CommitChange
<1> SUFFICES ASSUME Mailed'
             PROVE  LastOpen' /\ LastQueued' /\ LastArrived' /\ AnswersTrue'
  BY DEF MailInv
<1>2. Mailed /\ Alive
  BY <1>0, <1>1 DEF Mailed, Owned
<1>3. LastOpen /\ LastQueued /\ LastArrived /\ AnswersTrue
  BY <1>2 DEF MailInv
<1>4. Last' = Last
  BY <1>1 DEF Last
<1>5. LastOpen' /\ LastArrived' /\ AnswersTrue'
  BY <1>1, <1>3, <1>4 DEF LastOpen, LastArrived, AnswersTrue, Open
<1>6. LastQueued'
  <2>1. CASE request[p].differs
    <3>1. request' = [request EXCEPT ![p].pc = "changed"]
      BY <1>2, <2>1 DEF CommitChange, Mailed, Alive
    <3>2. Queueing(p)'
      BY <1>0, <3>1 DEF Queueing, Request
    <3> QED  BY <3>2 DEF LastQueued
  <2>2. CASE ~request[p].differs
    <3>1. request' = [request EXCEPT ![p] = Idle] /\ user_email' = request[p].email
      BY <1>2, <2>2 DEF CommitChange, Alive, Respond
    <3>2. Normalized[user_email'] = Normalized[user_email]
      <4>1. Normalized[user_email] # Normalized[request[p].email] => "crossed" \in missed'
        BY <1>2, <2>2 DEF CommitChange, Alive
      <4> QED  BY <3>1, <4>1 DEF Mailed
    <3>3. (\A q \in Process : ~Queueing(q)') => (\A q \in Process : ~Queueing(q))
      BY <1>0, <1>1, <3>1 DEF Queueing
    <3> QED  BY <1>3, <1>4, <3>2, <3>3 DEF LastQueued
  <2> QED  BY <2>1, <2>2
<1> QED  BY <1>5, <1>6

LEMMA WriteMail ==
  ASSUME ShapeInv, ShapeInv', MailInv, NEW p \in Process, WriteTask(p)
  PROVE  MailInv'
<1>0. /\ Values /\ Owned /\ request \in [Process -> Request] /\ RequestShape(p)
      /\ Len(tasks) \in Nat /\ (tasks = <<>> <=> Len(tasks) = 0)
  BY TaskFacts DEF ShapeInv, Values
<1>1. /\ UNCHANGED <<user_email, account, attempt, customer>> /\ missed \subseteq missed'
      /\ request[p].pc = "found"
  BY DEF WriteTask
<1> SUFFICES ASSUME Mailed'
             PROVE  LastOpen' /\ LastQueued' /\ LastArrived' /\ AnswersTrue'
  BY DEF MailInv
<1>2. Mailed /\ Alive
  BY <1>0, <1>1 DEF Mailed, Owned
<1>3. LastOpen /\ AnswersTrue
  BY <1>2 DEF MailInv
<1>4. ~Crossed(p)
  BY <1>2 DEF WriteTask, Alive, Mailed
<1>5. request[p].email = user_email /\ user_email \in Email
  BY <1>0, <1>1, <1>4 DEF Crossed, RequestShape
<1>6. AnswersTrue'
  BY <1>1, <1>3 DEF AnswersTrue
<1>7. CASE request[p].task = 0
  <2> DEFINE v == NewTask(request[p].email)
  <2>1. tasks' = Append(tasks, v) /\ \A t \in DOMAIN tasks : ~Open(t)
    BY <1>2, <1>4, <1>7 DEF WriteTask, Alive, Crossed
  <2>2. v \in Task /\ v.status = "pending" /\ v.email = user_email
    BY <1>5 DEF NewTask, Task
  <2> HIDE DEF v
  <2>3. /\ Len(tasks') = Len(tasks) + 1 /\ tasks' # <<>> /\ tasks'[Len(tasks) + 1] = v
        /\ \A t \in 1 .. Len(tasks) : tasks'[t] = tasks[t]
    BY <1>0, <2>1, <2>2, TaskAppended
  <2>4. LastOpen'
    <3>1. \A t \in 1 .. Len(tasks) : ~Open(t)
      BY <1>0, <2>1, TaskFacts
    <3>2. \A t \in 1 .. Len(tasks) : ~Open(t)'
      BY <2>3, <3>1 DEF Open
    <3> QED  BY <1>0, <2>3, <3>2 DEF LastOpen
  <2>5. Last' = user_email' /\ tasks'[Len(tasks')].status = "pending"
    BY <1>1, <2>2, <2>3 DEF Last
  <2> QED  BY <1>6, <2>4, <2>5 DEF LastQueued, LastArrived
<1>8. CASE request[p].task # 0
  <2> DEFINE t == request[p].task
             v == Coalesced(tasks[t], request[p].email, request[p].status)
  <2>1. /\ tasks' = [tasks EXCEPT ![t] = v]
        /\ t \in 0 .. Len(tasks) /\ request[p].status \in {"pending", "processing"}
        /\ tasks[t].status = request[p].status
    BY <1>0, <1>1, <1>2, <1>4, <1>8 DEF WriteTask, Alive, Crossed, RequestShape
  <2>2. t \in 1 .. Len(tasks) /\ Open(t)
    BY <1>0, <1>8, <2>1 DEF Open
  <2>3. t = Len(tasks)
    BY <1>3, <2>2 DEF LastOpen
  <2>4. v \in Task /\ v.email = user_email /\ v.status = "pending"
    <3>1. tasks[t] \in Task
      BY <1>0, <2>2, TaskFacts
    <3> QED  BY <1>5, <2>1, <3>1 DEF Coalesced, Task
  <2> HIDE DEF t, v
  <2>9. /\ Len(tasks') = Len(tasks) /\ tasks' \in Seq(Task)
        /\ \A u \in 1 .. Len(tasks) : tasks'[u] = IF u = t THEN v ELSE tasks[u]
    <3>1. v \in Task /\ t \in 1 .. Len(tasks) /\ tasks' = [tasks EXCEPT ![t] = v]
      BY <2>1, <2>2, <2>4
    <3> QED  BY <1>0, <3>1, TaskWritten
  <2>5. /\ Len(tasks') = Len(tasks) /\ tasks' \in Seq(Task) /\ tasks'[Len(tasks)] = v
        /\ \A u \in 1 .. Len(tasks) : u # Len(tasks) => tasks'[u] = tasks[u]
    BY <2>2, <2>3, <2>9
  <2>6. LastOpen'
    BY <1>3, <2>5 DEF LastOpen, Open
  <2>7. tasks' # <<>>
    <3>1. Len(tasks') # 0
      BY <1>0, <2>2, <2>5
    <3> QED  BY <3>1, EmptySeq
  <2>8. Last' = user_email' /\ tasks'[Len(tasks')].status = "pending"
    BY <1>1, <2>4, <2>5, <2>7 DEF Last
  <2> QED  BY <1>6, <2>6, <2>8 DEF LastQueued, LastArrived
<1> QED  BY <1>7, <1>8

LEMMA CustomerCreatedMail ==
  ASSUME ShapeInv, NEW p \in Process, CustomerCreated(p)
  PROVE  MailInv'
<1>1. tasks = <<>> /\ \A q \in Process : ~Queueing(q) /\ ~Busy(q)
  BY CustomerCreatedShape
<1>2. /\ UNCHANGED <<user_email, tasks, attempt>> /\ customer' = [email |-> request[p].email, keys |-> {}]
      /\ Normalized[request[p].email] # Normalized[user_email] => "created" \in missed'
  BY DEF CustomerCreated
<1> SUFFICES ASSUME Mailed'
             PROVE  LastOpen' /\ LastQueued' /\ LastArrived' /\ AnswersTrue'
  BY DEF MailInv
<1>3. LastOpen' /\ LastArrived'
  <2>1. Len(tasks') = 0 /\ tasks' = <<>>
    BY <1>1, <1>2, EmptySeq
  <2> QED  BY <2>1 DEF LastOpen, LastArrived
<1>4. LastQueued'
  BY <1>1, <1>2 DEF LastQueued, Last, Mailed
<1>5. AnswersTrue'
  BY <1>1, <1>2 DEF AnswersTrue, Busy
<1> QED  BY <1>3, <1>4, <1>5

LEMMA DeleteMail ==
  ASSUME ShapeInv, ShapeInv', MailInv, NEW p \in Process, CleanUpRemote(p) \/ CommitDelete(p)
  PROVE  MailInv'
<1>0. Values /\ Values' /\ request \in [Process -> Request]
  BY DEF ShapeInv, Values
<1>1. attempt' = attempt /\ missed' = missed /\ request[p].pc \in {"cleaning", "committing"}
  BY DEF CleanUpRemote, CommitDelete
<1>2. \A q \in Process : Queueing(q)' <=> Queueing(q)
  BY <1>0, <1>1, ConstantTypes DEF CleanUpRemote, CommitDelete, Respond, Queueing, Request
<1>3. CASE UNCHANGED <<user_email, account, tasks, customer>>
  <2>1. Mailed' => Mailed /\ \A t \in 1 .. Len(tasks) : Open(t)' => Open(t)
    BY <1>1, <1>3 DEF Mailed, Open
  <2> QED  BY <1>0, <1>1, <1>2, <1>3, <2>1, MailKept DEF Mailed, Open
<1>4. CASE account' = FALSE \/ customer'.email = NoEmail
  BY <1>4 DEF MailInv, Mailed
<1>5. \/ UNCHANGED <<user_email, account, tasks, customer>>
      \/ account' = FALSE \/ customer'.email = NoEmail
  <2>1. CASE CleanUpRemote(p)
    BY <2>1 DEF CleanUpRemote
  <2>2. CASE CommitDelete(p)
    BY <2>2 DEF CommitDelete
  <2> QED  BY <2>1, <2>2
<1> QED  BY <1>3, <1>4, <1>5

LEMMA ClaimMail ==
  ASSUME ShapeInv, ShapeInv', MailInv, NEW p \in Process, Claim(p)
  PROVE  MailInv'
<1>0. Values /\ Values' /\ attempt \in [Process -> Attempt]
  BY DEF ShapeInv, Values
<1>1. UNCHANGED <<user_email, account, request, customer, missed>>
  BY DEF Claim
<1>2. PICK t \in DOMAIN tasks :
        /\ Claimable(t)
        /\ tasks' = [tasks EXCEPT ![t].status = "processing", ![t].stale = FALSE]
        /\ attempt' = [attempt EXCEPT ![p] = [pc |-> "sending", task |-> t, email |-> tasks[t].email]]
  BY DEF Claim
<1>3. t \in 1 .. Len(tasks) /\ tasks[t] \in Task /\ Open(t)
  BY <1>0, <1>2, TaskFacts DEF Claimable, Open
<1>4. /\ Len(tasks') = Len(tasks)
      /\ \A u \in 1 .. Len(tasks) :
           /\ tasks'[u].email = tasks[u].email
           /\ Open(u)' => Open(u)
           /\ tasks'[u].status = "succeeded" => tasks[u].status = "succeeded"
  <2> DEFINE v == [tasks[t] EXCEPT !.status = "processing", !.stale = FALSE]
  <2>1. tasks' = [tasks EXCEPT ![t] = v] /\ v \in Task /\ v.status = "processing" /\ v.email = tasks[t].email
    BY <1>2, <1>3 DEF Task
  <2> HIDE DEF v
  <2>2. /\ Len(tasks') = Len(tasks)
        /\ \A u \in 1 .. Len(tasks) : tasks'[u] = IF u = t THEN v ELSE tasks[u]
    BY <1>0, <1>3, <2>1, TaskWritten
  <2> QED  BY <1>3, <2>1, <2>2 DEF Open
<1>5. \A q \in Process : attempt'[q].pc = "ok" => attempt'[q] = attempt[q]
  BY <1>0, <1>2
<1>6. (\A q \in Process : ~Queueing(q)') => (\A q \in Process : ~Queueing(q))
  BY <1>1 DEF Queueing
<1>7. Mailed' => Mailed
  BY <1>1 DEF Mailed
<1> QED  BY <1>0, <1>1, <1>4, <1>5, <1>6, <1>7, MailKept

\* Stripe handles a request of a task of the account.
LEMMA HandleMail ==
  ASSUME Values, MailInv, Mailed, missed' \subseteq {"coalesced"},
         NEW t \in 1 .. Len(tasks), NEW e \in Email, Handle(t, e),
         UNCHANGED <<user_email, account, tasks, request>>
  PROVE  /\ LastOpen' /\ LastQueued' /\ LastArrived'
         /\ customer.keys \cup {<<t, e>>} \subseteq customer'.keys
<1>1. LastOpen /\ LastQueued /\ LastArrived
  BY DEF MailInv
<1>2. /\ Len(tasks) \in Nat /\ tasks # <<>>
      /\ customer \in [email : Email \cup {NoEmail}, keys : SUBSET Key]
      /\ DOMAIN tasks = 1 .. Len(tasks)
  BY TaskFacts DEF Values
<1>3. Last' = Last /\ Last = tasks[Len(tasks)].email
  BY <1>2 DEF Last
<1>4. LastOpen' /\ LastQueued'
  BY <1>1, <1>3 DEF LastOpen, LastQueued, Open, Queueing
<1>5. CASE <<t, e>> \in customer.keys
  <2>1. customer' = customer
    BY <1>5 DEF Handle, Mailed
  <2> QED  BY <1>1, <1>3, <1>4, <1>5, <2>1 DEF LastArrived
<1>6. CASE <<t, e>> \notin customer.keys
  <2>1. /\ customer' = [email |-> e, keys |-> customer.keys \cup {<<t, e>>}]
        /\ (\E k \in customer.keys : Newer(k, t, e)) => "overtaken" \in missed'
    BY <1>6 DEF Handle, Mailed
  <2>2. \A k \in customer.keys : ~Newer(k, t, e)
    BY <2>1
  <2>3. LastArrived'
    <3>1. SUFFICES ASSUME tasks[Len(tasks)].status = "succeeded"
                   PROVE  e = Last /\ t = Len(tasks)
      BY <1>3, <2>1 DEF LastArrived
    <3>2. <<Len(tasks), Last>> \in customer.keys
      BY <1>1, <1>2, <3>1 DEF LastArrived
    <3>3. ~Newer(<<Len(tasks), Last>>, t, e)
      BY <2>2, <3>2
    <3>4. ~(Len(tasks) > t)
      BY <3>3 DEF Newer
    <3>5. t = Len(tasks)
      <4>1. Len(tasks) \in Nat
        BY <1>2
      <4> HIDE <3>1, <3>2, <3>3
      <4> QED  BY <3>4, <4>1
    <3>6. ~(Last = tasks[t].email /\ Last # e)
      BY <1>2, <3>3, <3>5 DEF Newer
    <3> QED  BY <1>3, <3>5, <3>6
  <2> QED  BY <1>4, <2>1, <2>3
<1> QED  BY <1>5, <1>6

LEMMA AnswerMail ==
  ASSUME ShapeInv, MailInv, NEW p \in Process, Answer(p) \/ AnswerFails(p)
  PROVE  MailInv'
<1>0. Values /\ attempt \in [Process -> Attempt] /\ AttemptShape(p) /\ Owned
  BY DEF ShapeInv, Values
<1>1. /\ UNCHANGED <<user_email, account, tasks, request>> /\ attempt[p].pc = "sending"
      /\ \E answer \in {"ok", "failed", "retry"} : attempt' = [attempt EXCEPT ![p].pc = answer]
  BY DEF Answer, AnswerFails
<1>2. \/ Handle(attempt[p].task, attempt[p].email)
      \/ /\ UNCHANGED <<customer, missed>>
         /\ \E answer \in {"failed", "retry"} : attempt' = [attempt EXCEPT ![p].pc = answer]
  BY DEF Answer, AnswerFails
<1> SUFFICES ASSUME Mailed'
             PROVE  LastOpen' /\ LastQueued' /\ LastArrived' /\ AnswersTrue'
  BY DEF MailInv
<1>3. /\ \A q \in Process \ {p} : attempt'[q] = attempt[q]
      /\ attempt'[p].task = attempt[p].task /\ attempt'[p].email = attempt[p].email
  BY <1>0, <1>1 DEF Attempt
<1>4. CASE Handle(attempt[p].task, attempt[p].email)
  <2>1. Mailed
    BY <1>1, <1>4 DEF Handle, Mailed
  <2>2. Alive /\ attempt[p].task \in 1 .. Len(tasks) /\ attempt[p].email \in Email
    BY <1>0, <1>1, <2>1 DEF AttemptShape, Owned, Mailed
  <2>3. missed' \subseteq {"coalesced"}
    BY DEF Mailed
  <2>4. /\ LastOpen' /\ LastQueued' /\ LastArrived'
        /\ customer.keys \cup {<<attempt[p].task, attempt[p].email>>} \subseteq customer'.keys
    BY <1>0, <1>1, <1>4, <2>1, <2>2, <2>3, HandleMail
  <2>5. AnswersTrue'
    BY <1>3, <2>1, <2>4 DEF AnswersTrue, MailInv
  <2> QED  BY <2>4, <2>5
<1>5. CASE /\ UNCHANGED <<customer, missed>>
           /\ \E answer \in {"failed", "retry"} : attempt' = [attempt EXCEPT ![p].pc = answer]
  <2>1. LastOpen /\ LastQueued /\ LastArrived /\ AnswersTrue
    BY <1>1, <1>5 DEF MailInv, Mailed
  <2>2. Last' = Last
    BY <1>1, <1>5 DEF Last
  <2>3. LastOpen' /\ LastQueued' /\ LastArrived'
    BY <1>1, <1>5, <2>1, <2>2 DEF LastOpen, LastQueued, LastArrived, Open, Queueing
  <2>4. attempt'[p].pc # "ok"
    BY <1>0, <1>5 DEF Attempt
  <2>5. AnswersTrue'
    BY <1>3, <1>5, <2>1, <2>4 DEF AnswersTrue
  <2> QED  BY <2>3, <2>5
<1> QED  BY <1>2, <1>4, <1>5

LEMMA LateMail ==
  ASSUME ShapeInv, MailInv, HandleLate
  PROVE  MailInv'
<1>0. Values /\ LateShape /\ Owned /\ late \subseteq Key
  BY DEF ShapeInv, Values
<1>1. PICK k \in late :
        Handle(k[1], k[2]) /\ UNCHANGED <<user_email, account, tasks, request, attempt>>
  BY DEF HandleLate
<1> SUFFICES ASSUME Mailed'
             PROVE  LastOpen' /\ LastQueued' /\ LastArrived' /\ AnswersTrue'
  BY DEF MailInv
<1>2. Mailed
  BY <1>1 DEF Handle, Mailed
<1>3. k[1] \in 1 .. Len(tasks) /\ k[2] \in Email
  BY <1>0, <1>2 DEF LateShape, Owned, Mailed, Key
<1>4. missed' \subseteq {"coalesced"}
  BY DEF Mailed
<1>5. /\ LastOpen' /\ LastQueued' /\ LastArrived'
      /\ customer.keys \cup {<<k[1], k[2]>>} \subseteq customer'.keys
  BY <1>0, <1>1, <1>2, <1>3, <1>4, HandleMail
<1>6. AnswersTrue'
  BY <1>1, <1>2, <1>5 DEF AnswersTrue, MailInv
<1> QED  BY <1>5, <1>6

LEMMA MarkMail ==
  ASSUME ShapeInv, MailInv, NEW p \in Process, Mark(p)
  PROVE  MailInv'
<1>0. Values /\ attempt \in [Process -> Attempt] /\ AttemptShape(p) /\ Owned /\ NoAttempt.pc = "idle"
  BY ConstantTypes DEF ShapeInv, Values
<1>1. /\ UNCHANGED <<user_email, account, request, customer>> /\ missed \subseteq missed'
      /\ attempt' = [attempt EXCEPT ![p] = NoAttempt] /\ attempt[p].pc \in {"ok", "retry", "failed"}
  BY DEF Mark
<1> SUFFICES ASSUME Mailed'
             PROVE  LastOpen' /\ LastQueued' /\ LastArrived' /\ AnswersTrue'
  BY DEF MailInv
<1>2. Mailed /\ Alive
  BY <1>0, <1>1 DEF Mailed, Owned
<1>3. LastOpen /\ LastQueued /\ LastArrived /\ AnswersTrue
  BY <1>2 DEF MailInv
<1> DEFINE t == attempt[p].task
           v == Marked(tasks[t], attempt[p].pc)
<1>4. /\ t \in 1 .. Len(tasks) /\ t \in DOMAIN tasks /\ tasks[t] \in Task
      /\ Len(tasks) \in Nat /\ tasks # <<>>
  <2>1. t \in 1 .. Len(tasks)
    BY <1>0, <1>1, <1>2 DEF AttemptShape
  <2> QED  BY <1>0, <2>1, TaskFacts
<1>5. tasks' = [tasks EXCEPT ![t] = v]
  BY <1>4 DEF Mark
<1>6. /\ v \in Task /\ v.email = tasks[t].email
      /\ v.status \in {"pending", "processing"} => attempt[p].pc = "retry"
      /\ v.status = "succeeded" => attempt[p].pc = "ok"
  BY <1>1, <1>4 DEF Marked, Task
<1>7. /\ attempt[p].pc # "retry" => tasks[t].email = attempt[p].email
      /\ attempt[p].pc = "ok" => customer.email = attempt[p].email
      /\ attempt[p].pc = "retry" => Open(t)
  BY <1>4 DEF Mark, Mailed
<1>8. attempt[p].pc = "ok" => <<t, attempt[p].email>> \in customer.keys
  BY <1>3 DEF AnswersTrue
<1> HIDE DEF v
<1>9. /\ Len(tasks') = Len(tasks) /\ tasks' \in Seq(Task)
      /\ \A u \in 1 .. Len(tasks) : tasks'[u] = IF u = t THEN v ELSE tasks[u]
  BY <1>0, <1>4, <1>5, <1>6, TaskWritten
<1> HIDE DEF t
<1>10. tasks' # <<>> /\ Len(tasks) \in 1 .. Len(tasks)
  BY <1>4, <1>9, EmptySeq
<1>11. Last' = Last /\ Last = tasks[Len(tasks)].email
  BY <1>4, <1>6, <1>9, <1>10 DEF Last
<1>12. LastOpen'
  <2>1. ASSUME NEW u \in 1 .. Len(tasks), Open(u)'
        PROVE  Open(u)
    BY <1>6, <1>7, <1>9, <2>1 DEF Open
  <2> QED  BY <1>3, <1>9, <2>1 DEF LastOpen
<1>13. LastQueued'
  BY <1>1, <1>3, <1>11 DEF LastQueued, Queueing
<1>14. LastArrived'
  <2>1. SUFFICES ASSUME tasks'[Len(tasks)].status = "succeeded"
                 PROVE  customer.email = Last /\ <<Len(tasks), Last>> \in customer.keys
    BY <1>1, <1>9, <1>11 DEF LastArrived
  <2>2. CASE t = Len(tasks)
    BY <1>6, <1>7, <1>8, <1>9, <1>10, <1>11, <2>1, <2>2
  <2>3. CASE t # Len(tasks)
    BY <1>3, <1>4, <1>9, <1>10, <2>1, <2>3 DEF LastArrived
  <2> QED  BY <2>2, <2>3
<1>15. AnswersTrue'
  BY <1>0, <1>1, <1>3 DEF AnswersTrue
<1> QED  BY <1>12, <1>13, <1>14, <1>15

LEMMA TimeMail ==
  ASSUME ShapeInv, ShapeInv', MailInv, NEW t \in DOMAIN tasks, BecomesDue(t) \/ BecomesStale(t)
  PROVE  MailInv'
<1>0. Values /\ Values'
  BY DEF ShapeInv
<1>1. /\ UNCHANGED <<user_email, account, request, attempt, customer, missed>>
      /\ tasks' = [tasks EXCEPT ![t].due = TRUE] \/ tasks' = [tasks EXCEPT ![t].stale = TRUE]
  BY DEF BecomesDue, BecomesStale
<1>2. t \in 1 .. Len(tasks) /\ tasks[t] \in Task
  BY <1>0, TaskFacts
<1>3. PICK v \in Task : tasks' = [tasks EXCEPT ![t] = v] /\ v.email = tasks[t].email /\ v.status = tasks[t].status
  <2>1. /\ [tasks[t] EXCEPT !.due = TRUE] \in Task /\ [tasks[t] EXCEPT !.stale = TRUE] \in Task
        /\ [tasks[t] EXCEPT !.due = TRUE].email = tasks[t].email
        /\ [tasks[t] EXCEPT !.stale = TRUE].email = tasks[t].email
        /\ [tasks[t] EXCEPT !.due = TRUE].status = tasks[t].status
        /\ [tasks[t] EXCEPT !.stale = TRUE].status = tasks[t].status
    BY <1>2 DEF Task
  <2> QED  BY <1>1, <2>1
<1>4. /\ Len(tasks') = Len(tasks)
      /\ \A u \in 1 .. Len(tasks) : tasks'[u] = IF u = t THEN v ELSE tasks[u]
  BY <1>0, <1>2, <1>3, TaskWritten
<1>5. \A u \in 1 .. Len(tasks) :
        /\ tasks'[u].email = tasks[u].email
        /\ Open(u)' => Open(u)
        /\ tasks'[u].status = "succeeded" => tasks[u].status = "succeeded"
  BY <1>3, <1>4 DEF Open
<1>6. (\A q \in Process : ~Queueing(q)') => (\A q \in Process : ~Queueing(q))
  BY <1>1 DEF Queueing
<1>7. Mailed' => Mailed
  BY <1>1 DEF Mailed
<1> QED  BY <1>0, <1>1, <1>4, <1>5, <1>6, <1>7, MailKept

LEMMA CrashMail ==
  ASSUME ShapeInv, ShapeInv', MailInv, NEW p \in Process, Crash(p)
  PROVE  MailInv'
<1>0. /\ Values /\ Values' /\ request \in [Process -> Request] /\ attempt \in [Process -> Attempt]
      /\ NoAttempt.pc = "idle"
  BY ConstantTypes DEF ShapeInv, Values
<1>1. /\ UNCHANGED <<user_email, account, tasks, customer>> /\ missed \subseteq missed'
      /\ request' = [request EXCEPT ![p] = Idle] /\ attempt' = [attempt EXCEPT ![p] = NoAttempt]
      /\ Queueing(p) => "unqueued" \in missed'
  BY DEF Crash, Respond, Queueing
<1>2. CASE Queueing(p)
  BY <1>1, <1>2 DEF MailInv, Mailed
<1>3. CASE ~Queueing(p)
  <2>1. Mailed' => Mailed
    BY <1>1 DEF Mailed
  <2>2. (\A q \in Process : ~Queueing(q)') => (\A q \in Process : ~Queueing(q))
    BY <1>0, <1>1, <1>3 DEF Queueing
  <2>3. \A q \in Process : attempt'[q].pc = "ok" => attempt'[q] = attempt[q]
    BY <1>0, <1>1
  <2>4. \A t \in 1 .. Len(tasks) : Open(t)' => Open(t)
    BY <1>1 DEF Open
  <2> QED  BY <1>0, <1>1, <2>1, <2>2, <2>3, <2>4, MailKept
<1> QED  BY <1>2, <1>3

LEMMA MailNext ==
  ShapeInv /\ ShapeInv' /\ MailInv /\ [Next]_vars => MailInv'
<1> SUFFICES ASSUME ShapeInv, ShapeInv', MailInv, [Next]_vars
             PROVE  MailInv'
  OBVIOUS
<1>1. CASE UNCHANGED vars
  BY <1>1 DEF vars, MailInv, Mailed, LastOpen, LastQueued, LastArrived, AnswersTrue, Last, Open, Queueing
<1>2. ASSUME NEW p \in Process,
             \/ \E e \in Email : StartChange(p, e)
             \/ StartCheckout(p) \/ StartDelete(p) \/ CustomerFails(p)
      PROVE  MailInv'
  BY <1>2, MissedGrows, RequestMail
<1>3. ASSUME NEW p \in Process, RequestStep(p)
      PROVE  MailInv'
  BY <1>3, MissedGrows, RequestMail, CommitMail, WriteMail, CustomerCreatedMail, DeleteMail DEF RequestStep
<1>4. ASSUME NEW p \in Process, Claim(p) \/ Answer(p) \/ AnswerFails(p) \/ Mark(p) \/ Crash(p)
      PROVE  MailInv'
  BY <1>4, ClaimMail, AnswerMail, MarkMail, CrashMail
<1>5. ASSUME NEW t \in DOMAIN tasks, BecomesDue(t) \/ BecomesStale(t)
      PROVE  MailInv'
  BY <1>5, TimeMail
<1>6. CASE HandleLate
  BY <1>6, LateMail
<1> QED
  BY <1>1, <1>2, <1>3, <1>4, <1>5, <1>6 DEF Next

LEMMA InitMail ==
  Init => MailInv
BY DEF Init, MailInv, Mailed

LEMMA MailArrived ==
  ShapeInv /\ MailInv => EmailArrives
<1> SUFFICES ASSUME ShapeInv, MailInv, Quiet, Mailed
             PROVE  Normalized[customer.email] = Normalized[user_email]
  BY DEF EmailArrives, Mailed
<1>1. LastQueued /\ LastArrived
  BY DEF MailInv
<1>2. Normalized[Last] = Normalized[user_email]
  BY <1>1 DEF LastQueued, Queueing, Quiet
<1>3. customer.email = Last
  <2>1. CASE tasks = <<>>
    BY <2>1 DEF Last
  <2>2. CASE tasks # <<>>
    BY <1>1, <2>2 DEF LastArrived, Quiet
  <2> QED  BY <2>1, <2>2
<1> QED  BY <1>2, <1>3

\* THEOREM.  When no change of the user's address is being queued and every task is
\* done, the last one with success, Stripe's customer has the user's address, unless a
\* change fell into one of the seven windows that EmailArrives names.
THEOREM EmailsArrive ==
  Spec => []EmailArrives
<1>1. Spec => []MailInv
  BY InitMail, MailNext, ShapeHolds, PTL DEF Spec
<1> QED
  BY <1>1, ShapeHolds, MailArrived, PTL
=============================================================================
