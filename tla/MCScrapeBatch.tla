--------------------------- MODULE MCScrapeBatch ---------------------------
(* A small instance of ScrapeBatch for TLC: a browser batch and an Apify batch
   that ask for the same two usernames in opposite orders. *)
EXTENDS ScrapeBatch, TLC

CONSTANTS browser, apify, x, y

MCRequest == browser :> <<x, y>> @@ apify :> <<y, x>>

\* Bounds: one event; the batches are scraped one after the other, and pages are open
\* while the other batch has nothing written.  Batches meet in the table only, when they
\* are prepared and when they are persisted.
OneEvent == renames + faults <= 1
OneScrapes ==
  \E b \in Batch :
    /\ pc[b] \notin {"session", "scrape", "analysis"}
    /\ (\E c \in Batch : pc[c] = "scrape") => tx[b].stored = {} /\ tx[b].step \in {"none", "find"}
Bounded == OneEvent /\ OneScrapes
Symmetry == Permutations(Account)
=============================================================================
