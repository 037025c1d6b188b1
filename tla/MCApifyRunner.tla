---------------------------- MODULE MCApifyRunner ----------------------------
(* Small instances of ApifyRunner for TLC. *)
EXTENDS ApifyRunner, TLC

\* One server process with two slots.
MCWorkerOf == [s \in Slot |-> CHOOSE w \in Worker : TRUE]

Interchangeable == Permutations(Slot) \cup Permutations(Username)

MCFaults == [k \in FaultKind |-> IF k \in {"crash", "dependency"} THEN 1 ELSE 0]

MCDiscovery == {Username}

\* At most one kind of fault in a behaviour.
OneFault == Cardinality({k \in FaultKind : budget'[k] < MaxFaults[k]}) <= 1
=============================================================================
