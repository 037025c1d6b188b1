---------------------------- MODULE MCScrapeTools ----------------------------
(* A small instance of ScrapeTools for TLC. *)
EXTENDS ScrapeTools, TLC
CONSTANTS u1, u2
MCInput == <<u1, u2>>
MCLimits == {[profiles |-> 2, prechecks |-> 2], [profiles |-> 1, prechecks |-> 1]}
MCRecommends == u1 :> {u2} @@ u2 :> {u1}

\* Bounds: no faults once runs overlap, no rows taken away, and nothing after the
\* overlapping runs have ended.
OverlapOnce ==
  raced => /\ faults = 0
           /\ \A u \in Username : ~RowTakenAway(u)
           /\ Running # {} \/ \E o \in Operator : follow[o].stage # "idle"
=============================================================================
