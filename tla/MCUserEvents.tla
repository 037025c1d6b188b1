---------------------------- MODULE MCUserEvents ----------------------------
(* Small instances of UserEvents for TLC. *)
EXTENDS UserEvents
=============================================================================
