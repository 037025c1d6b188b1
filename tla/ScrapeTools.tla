----------------------------- MODULE ScrapeTools -----------------------------
(***************************************************************************)
(* An operator works with one of the two command line tools, run after run *)
(* on the same files, while jobs of the application store profiles,        *)
(* superusers edit them, and accounts, their names and their pictures come *)
(* to an end.                                                              *)
(***************************************************************************)
EXTENDS FollowingPipeline, RecommendedPipeline

VARIABLE tool   \* "following" or "recommended"
toolsVars == <<profileVars, followVars, recommendVars, tool>>

ToolsTypeOK ==
  /\ ProfilesTypeOK /\ FollowTypeOK /\ RecommendTypeOK
  /\ tool \in {"following", "recommended"}

ToolsInit ==
  /\ ProfilesInit /\ FollowInit /\ RecommendInit
  /\ tool \in {"following", "recommended"}

ToolsNext ==
  /\ \/ tool = "following" /\ FollowNext /\ UNCHANGED recommendVars
     \/ tool = "recommended" /\ RecommendNext /\ UNCHANGED followVars
     \/ World /\ UNCHANGED <<followVars, recommendVars>>
  /\ UNCHANGED tool

ToolsSpec == ToolsInit /\ [][ToolsNext]_toolsVars

\* A run that was started goes on, and as long as there is work for a run one is
\* started sometime.
FollowingRuns(o) ==
  /\ UNCHANGED <<recommendVars, tool>>
  /\ FollowSteps(o) \/ StartAnyFollowing(o)
RecommendedRuns(o) ==
  /\ UNCHANGED <<followVars, tool>>
  /\ CurateSteps(o) \/ \E retry_failed \in BOOLEAN : StartPersistence(o, retry_failed)

Fairness ==
  \A o \in Operator :
    /\ WF_toolsVars(tool = "following" /\ FollowingRuns(o))
    /\ WF_toolsVars(tool = "recommended" /\ RecommendedRuns(o))

FairToolsSpec == ToolsSpec /\ Fairness

-----------------------------------------------------------------------------
\* Properties

\* What is written as done has been done, whenever a run is cut off: a username done or
\* skipped as existing has a row, unless the row was taken away since (the account was
\* stored again under a new name, or a superuser deleted or renamed the profile), ...
RowTakenAway(u) == stored[u] = "removed"

DoneIsStored ==
  \A u \in Username :
    \/ progress[u] \in {"done", "skipped_existing"}
    \/ listed[u].status = "done"
    => HasRow(u) \/ RowTakenAway(u)

\* ... and an exported profile is done only when what it recommends is stored or listed
\* under its name; unless a row was taken away, a run was cut off between its two writes,
\* or runs raced.
DiscoveriesListed ==
  \A u \in Username : \A v \in Recommends[u] :
    exported[u] = "done" =>
      \/ HasRow(v) \/ RowTakenAway(v)
      \/ u \in listed[v].sources
      \/ u \in torn \/ raced
      \/ \E o \in Running : /\ curate[o].stage = "write_discovered"
                             /\ u \in ToSet(FirstBatch(curate[o].todo))

ProgressIsTrue == ToolsTypeOK /\ DoneIsStored /\ DiscoveriesListed

\* "Statuses that are final for a username and are never re-processed on later runs": the
\* file keeps them and Instagram is not asked for the username again, unless runs
\* raced.  Rows of the recommended tool are final when done or not_found; only a
\* new export begins anew.
FinalStaysFinal ==
  [][\A u \in Username :
       /\ progress[u] \in TERMINAL_STATUSES =>
            raced' \/ (progress'[u] = progress[u] /\ u \notin asked')
       /\ listed[u].status \in {"done", "not_found"} =>
            \/ raced'
            \/ /\ listed'[u].status = listed[u].status
               /\ u \in asked' => exported[u] \in RETRYABLE_STATUSES
       /\ exported[u] \in {"done", "not_found"} =>
            exported'[u] = exported[u] \/ exports' # exports \/ raced']_toolsVars

\* In the end every username of the input is decided, and every listed one scraped: runs
\* cut off, with limits and with failures retried, do not turn around the same usernames
\* for ever.  (Overlapping runs may: each writes back the statuses it began with.)
Undecided(u) ==
  \/ tool = "following" /\ progress[u] \in {"none", "passed_precheck"}
  \/ listed[u].status = "pending"
EveryoneDecided == \A u \in Username : Undecided(u) ~> ~Undecided(u) \/ raced
=============================================================================
