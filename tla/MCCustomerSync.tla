--------------------------- MODULE MCCustomerSync ---------------------------
(* Small instances of CustomerSync for TLC. *)
EXTENDS CustomerSync, TLC

CONSTANTS ann, Ann, bob

\* Ann and ann differ in case only.
MCNormalized == (ann :> ann) @@ (Ann :> ann) @@ (bob :> bob)
=============================================================================
