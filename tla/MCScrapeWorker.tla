--------------------------- MODULE MCScrapeWorker ---------------------------
(* Small instances of ScrapeWorker for TLC. *)
EXTENDS ScrapeWorker, TLC

\* One slot per worker process, under a worker id of its own.
MCWorkerOf == [s \in Slot |-> s]

\* Fault budgets: f :> n gives the kind f the budget n, all others 0.
Only(f) == [k \in FaultKind |-> IF k \in DOMAIN f THEN f[k] ELSE 0]
MCNoFaults == Only(<<>>)
MCEachOnce == [k \in FaultKind |-> 1]
MCRecoverable == Only([crash |-> 1, dependency |-> 1, stall |-> 1, expiry |-> 1])
MCHandler == Only([handler |-> 1])

\* Bounds on how many kinds of fault one behaviour sees.  A timeout is paired with no
\* other: a worker that crashes while it waits leaves its request behind just so.
Spent == {k \in FaultKind : budget[k] < MaxFaults[k]}
AtMostOneFault == Cardinality(Spent) <= 1
AtMostTwoFaults == AtMostOneFault \/ (Cardinality(Spent) = 2 /\ "timeout" \notin Spent)

Symmetry == Permutations(Job) \cup Permutations(Slot) \cup Permutations(Call)
=============================================================================
