-------------------------- MODULE FollowingPipeline --------------------------
(***************************************************************************)
(* ig_following_persist_pipeline.py: from a list of usernames, those with  *)
(* enough followers are scraped and stored.  A run first skips usernames   *)
(* whose profile is stored and fresh, then prechecks the others one by one *)
(* until it has enough, then scrapes those that passed in batches.  The    *)
(* status file beside the input is replaced after every step that decides  *)
(* anything, by the run's copy of it as a whole.                           *)
(***************************************************************************)
EXTENDS CuratedProfiles

CONSTANT Limits   \* --max-profiles and --max-prechecks of a run

ASSUME FollowingAssumption ==
  Limits \subseteq [profiles : Nat \ {0}, prechecks : Nat \ {0}]

VARIABLES
  progress,   \* [Username -> Status]: the status file
  follow      \* [Operator -> Follow]: a run of the tool

followVars == <<progress, follow>>

TERMINAL_STATUSES == {"done", "skipped_low_followers", "skipped_existing", "not_found"}
RETRYABLE_FAILURE_STATUSES == {"failed", "precheck_failed"}
Status == TERMINAL_STATUSES \cup RETRYABLE_FAILURE_STATUSES \cup {"none", "passed_precheck"}

Follow == [stage : {"idle", "existing", "precheck", "persist", "save"},
           status : [Username -> Status],    \* the run's copy of the status file
           todo : Seq(Username),             \* candidates
           to_scrape : Seq(Username),
           profiles : Nat, prechecks : Nat,  \* what the limits still allow
           result : UNION {[S -> {"done", "failed", "not_found"}] : S \in SUBSET Username}]
NoFollow == [stage |-> "idle", status |-> [u \in Username |-> "none"], todo |-> <<>>,
             to_scrape |-> <<>>, profiles |-> 0, prechecks |-> 0, result |-> <<>>]

FollowTypeOK ==
  /\ progress \in [Username -> Status]
  /\ follow \in [Operator -> Follow]

FollowInit ==
  /\ progress = [u \in Username |-> "none"]
  /\ follow = [o \in Operator |-> NoFollow]

\* Mutant of is_processable: a username whose profile was found stored is looked at again.
ProcessableExisting(status, retry_failed) ==
  /\ status \notin TERMINAL_STATUSES \ {"skipped_existing"}
  /\ status \in RETRYABLE_FAILURE_STATUSES => retry_failed

is_processable(status, retry_failed) ==
  /\ status \notin TERMINAL_STATUSES
  /\ status \in RETRYABLE_FAILURE_STATUSES => retry_failed

\* run: the input and the status file are read.  Without candidates nothing changes.
StartFollowing(o, force_refresh, retry_failed, limits) ==
  LET candidates == Kept(Input, {u \in Username : is_processable(progress[u], retry_failed)}) IN
  /\ follow[o].stage = "idle" /\ candidates # <<>>
  /\ follow' = [follow EXCEPT ![o] =
       [NoFollow EXCEPT !.stage = IF force_refresh THEN "precheck" ELSE "existing",
                        !.status = progress, !.todo = candidates,
                        !.profiles = limits.profiles, !.prechecks = limits.prechecks]]
  /\ raced' = (raced \/ \E p \in Operator : follow[p].stage # "idle")
  /\ asked' = {}
  /\ UNCHANGED <<progress, stored, kind, faults>>

\* Mutant of SkipExisting: the skipped usernames are not written to the status file.
SkipExistingSilently(o) ==
  LET remaining == Kept(follow[o].todo, {u \in Username : stored[u] # "fresh"}) IN
  /\ follow[o].stage = "existing"
  /\ follow' = [follow EXCEPT ![o] =
       IF remaining = <<>> THEN NoFollow ELSE [@ EXCEPT !.stage = "precheck", !.todo = remaining]]
  /\ asked' = {}
  /\ UNCHANGED <<progress, stored, kind, raced, faults>>

\* fetch_existing_profiles, should_refresh_profile and save_status.
SkipExisting(o) ==
  LET status == [u \in Username |-> IF u \in ToSet(follow[o].todo) /\ stored[u] = "fresh"
                                    THEN "skipped_existing" ELSE follow[o].status[u]]
      remaining == Kept(follow[o].todo, {u \in Username : stored[u] # "fresh"}) IN
  /\ follow[o].stage = "existing"
  /\ progress' = status
  /\ follow' = [follow EXCEPT ![o] =
       IF remaining = <<>> THEN NoFollow
       ELSE [@ EXCEPT !.stage = "precheck", !.status = status, !.todo = remaining]]
  /\ asked' = {}
  /\ UNCHANGED <<stored, kind, raced, faults>>

\* micro_scrape_follower_info of the next candidate, then save_status.
PrecheckGoesOn(o) ==
  follow[o].todo # <<>> /\ follow[o].profiles > 0 /\ follow[o].prechecks > 0

Precheck(o) ==
  LET u == Head(follow[o].todo) IN
  /\ follow[o].stage = "precheck" /\ PrecheckGoesOn(o)
  /\ \E status \in {"not_found", "precheck_failed", "passed_precheck", "skipped_low_followers"} :
       /\ \/ status = "precheck_failed" /\ Fault
          \/ /\ status = CASE kind[u] = "gone" -> "not_found"
                           [] kind[u] = "low" -> "skipped_low_followers"
                           [] kind[u] = "high" -> "passed_precheck"
             /\ UNCHANGED faults
       /\ progress' = [follow[o].status EXCEPT ![u] = status]
       /\ follow' = [follow EXCEPT
            ![o].status = progress', ![o].todo = Tail(@), ![o].prechecks = @ - 1,
            ![o].profiles = IF status = "passed_precheck" THEN @ - 1 ELSE @,
            ![o].to_scrape = IF status = "passed_precheck" THEN Append(@, u) ELSE @]
  /\ asked' = {u}
  /\ UNCHANGED <<stored, kind, raced>>

\* The candidates or a limit are used up.
PrecheckOver(o) ==
  /\ follow[o].stage = "precheck" /\ ~PrecheckGoesOn(o)
  /\ follow' = [follow EXCEPT ![o] =
       IF @.to_scrape = <<>> THEN NoFollow ELSE [@ EXCEPT !.stage = "persist", !.todo = <<>>,
                                                       !.profiles = 0, !.prechecks = 0]]
  /\ asked' = {}
  /\ UNCHANGED <<progress, stored, kind, raced, faults>>

\* scrape_and_persist_batch: the commit comes before the status file.
ScrapeAndPersist(o) ==
  /\ follow[o].stage = "persist"
  /\ \E result \in [ToSet(FirstBatch(follow[o].to_scrape)) -> {"done", "failed", "not_found"}] :
       /\ Scrapes(FirstBatch(follow[o].to_scrape), result)
       /\ Persists(result)
       /\ follow' = [follow EXCEPT ![o].stage = "save", ![o].result = result]
  /\ UNCHANGED <<progress, kind, raced>>

\* run_persist_phase after the batch: its statuses, then save_status.
SaveBatch(o) ==
  LET result == follow[o].result
      others == OtherBatches(follow[o].to_scrape) IN
  /\ follow[o].stage = "save"
  /\ progress' = [u \in Username |-> IF u \in DOMAIN result THEN result[u]
                                     ELSE follow[o].status[u]]
  /\ follow' = [follow EXCEPT ![o] =
       IF others = <<>> THEN NoFollow
       ELSE [@ EXCEPT !.stage = "persist", !.status = progress', !.to_scrape = others,
                      !.result = <<>>]]
  /\ asked' = {}
  /\ UNCHANGED <<stored, kind, raced, faults>>

\* The run ends where it is: no session, an exception of the browser or the database,
\* Ctrl-C, a crash.
FollowingCutOff(o) ==
  /\ follow[o].stage # "idle" /\ Fault
  /\ follow' = [follow EXCEPT ![o] = NoFollow]
  /\ asked' = {}
  /\ UNCHANGED <<progress, stored, kind, raced>>

FollowSteps(o) ==
  SkipExisting(o) \/ Precheck(o) \/ PrecheckOver(o) \/ ScrapeAndPersist(o) \/ SaveBatch(o)

StartAnyFollowing(o) ==
  \E force_refresh, retry_failed \in BOOLEAN, limits \in Limits :
    StartFollowing(o, force_refresh, retry_failed, limits)

FollowNext ==
  \E o \in Operator :
    \/ StartAnyFollowing(o)
    \/ FollowSteps(o)
    \/ FollowingCutOff(o)
=============================================================================
