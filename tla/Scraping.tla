------------------------------ MODULE Scraping ------------------------------
(***************************************************************************)
(* What executing the batch of a job and a run of a command line tool have *)
(* in common: usernames to be scraped, selected in their order, and a      *)
(* budget of failures.                                                     *)
(***************************************************************************)
EXTENDS Sequences, SequencesExt, FiniteSets, Integers

CONSTANTS
  Username,
  MaxFaults   \* bound: failing pages, prechecks, sessions and scrapes, runs cut off

VARIABLE faults

Fault == faults < MaxFaults /\ faults' = faults + 1

\* The elements of s in S, in the order of s: SelectSeq without recursion, for the proofs.
Kept(s, S) ==
  LET at == {i \in DOMAIN s : s[i] \in S}
      nth(n) == CHOOSE i \in at : Cardinality({j \in at : j <= i}) = n IN
  [n \in 1..Cardinality(at) |-> s[nth(n)]]
=============================================================================
