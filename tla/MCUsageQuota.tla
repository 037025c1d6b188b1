---------------------------- MODULE MCUsageQuota ----------------------------
(* Small instances of UsageQuota for TLC. *)
EXTENDS UsageQuota, TLC

CONSTANTS r1, r2, r3, k1, k2, trial, base

\* r1 and r2 are a request and its retry with another payload, r3 is on its own.
MCKeyOf == r1 :> k1 @@ r2 :> k1 @@ r3 :> k2
MCUnitsOf == r1 :> 1 @@ r2 :> 2 @@ r3 :> 2
MCLimitOf == trial :> 2 @@ base :> 3
=============================================================================
