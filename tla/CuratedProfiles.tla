--------------------------- MODULE CuratedProfiles ---------------------------
(***************************************************************************)
(* What the two command line tools that fill ig_profiles have in common    *)
(* (backend/scripts/ig_following_persist_pipeline.py and                   *)
(* ig_recommended_pipeline.py): the stored profiles, Instagram, and the    *)
(* scrape of a batch of usernames.  An operator runs a tool in a terminal; *)
(* a run keeps its progress in files, may be cut off at any time, and      *)
(* nothing keeps a second operator from running a tool on the same files.  *)
(***************************************************************************)
EXTENDS Scraping

CONSTANTS
  Input,        \* the usernames in the order of the files
  Operator,
  BatchSize     \* --batch-size

ASSUME CuratedAssumption ==
  /\ Input \in Seq(Username) /\ ToSet(Input) = Username
  /\ IsInjective(Input)   \* load_input_usernames; one row of a file per username
  /\ BatchSize \in Nat \ {0} /\ MaxFaults \in Nat

VARIABLES
  stored,      \* [Username -> Presence]: ig_profiles, by the username a row carries
  kind,        \* [Username -> Kind]: Instagram
  asked,       \* usernames the last step asked Instagram for (history)
  raced        \* two runs worked at a time (history)

profileVars == <<stored, kind, asked, raced, faults>>

\* No row carries the username, or none any more; or one does, and its picture can be
\* shown or not (should_refresh_profile).
Picture == {"fresh", "old"}
Presence == Picture \cup {"absent", "removed"}

\* No such account, fewer followers than --min-followers, or enough.
Kind == {"gone", "low", "high"}

ProfilesTypeOK ==
  /\ stored \in [Username -> Presence]
  /\ kind \in [Username -> Kind]
  /\ asked \subseteq Username
  /\ raced \in BOOLEAN
  /\ faults \in 0 .. MaxFaults

ProfilesInit ==
  /\ stored \in [Username -> Picture \cup {"absent"}]
  /\ kind \in [Username -> Kind]
  /\ asked = {} /\ raced = FALSE /\ faults = 0

FirstBatch(s) == SubSeq(s, 1, IF Len(s) < BatchSize THEN Len(s) ELSE BatchSize)
OtherBatches(s) == SubSeq(s, BatchSize + 1, Len(s))

\* InstagramBatchScrapeRunner.run_response: every username of the batch has a result.
\* A success lacking the data a row needs is made a failure when it is persisted.
Verdict(u) == IF kind[u] = "gone" THEN "not_found" ELSE "done"
Scrapes(batch, result) ==
  /\ result \in [ToSet(batch) -> {"done", "failed", "not_found"}]
  /\ \A u \in ToSet(batch) : result[u] \in {Verdict(u), "failed"}
  /\ IF \E u \in ToSet(batch) : result[u] = "failed" THEN Fault ELSE UNCHANGED faults
  /\ asked' = ToSet(batch)

HasRow(u) == stored[u] \in Picture

\* persist_scrape_results for accounts found under the usernames: each account's row is
\* found by its ig_id.  The account may have had another username when its row was
\* written, be it for this batch; that one loses its row, for the row moves.  A row of
\* another account that carries the username goes stale: no other username loses a row.
Stores(usernames) ==
  \E former \in [usernames -> Username] :
    LET moved == {u \in Username : \E w \in usernames \ {u} : former[w] = u} IN
    stored' = [u \in Username |->
      CASE u \in usernames \ moved -> "fresh"
        [] u \in moved /\ (u \in usernames \/ HasRow(u)) -> "removed"
        [] OTHER -> stored[u]]

\* persist_scrape_results_to_db commits the successful ones (ScrapeBatch).
Persists(result) == Stores({u \in DOMAIN result : result[u] = "done"})

\* A picture's url runs out; a job of the application stores a profile.
Expire(u) ==
  /\ stored[u] = "fresh"
  /\ stored' = [stored EXCEPT ![u] = "old"]
  /\ UNCHANGED <<kind, faults>>

StoredByJob(u) ==
  /\ stored[u] # "fresh" /\ kind[u] # "gone"
  /\ Stores({u})
  /\ UNCHANGED <<kind, faults>>

\* A superuser creates or edits a profile, gives its row another username that no row
\* carries, or deletes it.
EditProfile(u) ==
  /\ \E picture \in Picture : stored' = [stored EXCEPT ![u] = picture]
  /\ UNCHANGED <<kind, faults>>

RenameProfile(u, v) ==
  /\ HasRow(u) /\ ~HasRow(v)
  /\ stored' = [stored EXCEPT ![u] = "removed", ![v] = stored[u]]
  /\ UNCHANGED <<kind, faults>>

DeleteProfile(u) ==
  /\ HasRow(u)
  /\ stored' = [stored EXCEPT ![u] = "removed"]
  /\ UNCHANGED <<kind, faults>>

\* An account is deleted, or takes a username that is free.
Vanish(u) ==
  /\ kind[u] # "gone" /\ Fault
  /\ \/ kind' = [kind EXCEPT ![u] = "gone"]
     \/ \E v \in Username :
          /\ kind[v] = "gone"
          /\ kind' = [kind EXCEPT ![u] = "gone", ![v] = kind[u]]
  /\ UNCHANGED stored

World ==
  /\ \E u \in Username :
       \/ Expire(u) \/ StoredByJob(u) \/ Vanish(u)
       \/ EditProfile(u) \/ DeleteProfile(u)
       \/ \E v \in Username : RenameProfile(u, v)
  /\ asked' = {}
  /\ UNCHANGED raced
=============================================================================
