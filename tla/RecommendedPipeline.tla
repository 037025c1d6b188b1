------------------------- MODULE RecommendedPipeline -------------------------
(***************************************************************************)
(* ig_recommended_pipeline.py: three modes over two CSV files.  An export  *)
(* lists stored profiles; discovery scrapes the exported ones, without     *)
(* storing them, and lists the accounts Instagram recommends with them;    *)
(* persistence scrapes and stores the listed ones.  After every batch the  *)
(* run's copies replace the files: first the export, then the list.        *)
(***************************************************************************)
EXTENDS CuratedProfiles

CONSTANTS
  Recommends,   \* [Username -> SUBSET Username]: recommended_users of a profile
  MaxExports    \* bound

ASSUME RecommendedAssumption ==
  /\ Recommends \in [Username -> SUBSET Username] /\ MaxExports \in Nat

VARIABLES
  exported,   \* [Username -> RowStatus]: the export CSV
  listed,     \* [Username -> Row]: the CSV of recommended accounts
  curate,     \* [Operator -> Curate]: a run in discovery or persistence mode
  torn,       \* usernames exported as done in a run that was cut off before it wrote
              \* the list (history)
  exports

recommendVars == <<exported, listed, curate, torn, exports>>

RowStatus == {"absent", "pending", "done", "failed", "not_found"}
Row == [status : RowStatus, sources : SUBSET Username]
NoRow == [status |-> "absent", sources |-> {}]
RETRYABLE_STATUSES == {"pending", "failed"}

Curate == [stage : {"idle", "discover", "write_export", "write_discovered",
                    "persist", "write_persisted"},
           export : [Username -> RowStatus],   \* the run's copies of the files
           list : [Username -> Row],
           todo : Seq(Username)]
NoCurate == [stage |-> "idle", export |-> [u \in Username |-> "absent"],
             list |-> [u \in Username |-> NoRow], todo |-> <<>>]

RecommendTypeOK ==
  /\ exported \in [Username -> RowStatus]
  /\ listed \in [Username -> Row]
  /\ curate \in [Operator -> Curate]
  /\ torn \subseteq Username
  /\ exports \in 0 .. MaxExports

RecommendInit ==
  /\ exported = [u \in Username |-> "absent"]
  /\ listed = [u \in Username |-> NoRow]
  /\ curate = [o \in Operator |-> NoCurate]
  /\ torn = {} /\ exports = 0

Running == {o \in Operator : curate[o].stage # "idle"}
row_is_processable(status, retry_failed) ==
  status \in IF retry_failed THEN RETRYABLE_STATUSES ELSE {"pending"}

\* export_profiles_to_csv: stored profiles chosen by date or number; all start anew.
ExportProfiles ==
  /\ exports < MaxExports
  /\ exports' = exports + 1
  /\ \E chosen \in SUBSET {u \in Username : HasRow(u)} :
       exported' = [u \in Username |-> IF u \in chosen THEN "pending" ELSE "absent"]
  /\ raced' = (raced \/ Running # {})
  /\ asked' = {}
  /\ UNCHANGED <<listed, curate, torn, stored, kind, faults>>

\* discover_recommended and persist_recommended read the files.
Start(o, stage, todo) ==
  /\ o \notin Running /\ todo # <<>>
  /\ curate' = [curate EXCEPT ![o] =
       [stage |-> stage, export |-> exported, list |-> listed, todo |-> todo]]
  /\ raced' = (raced \/ Running # {})
  /\ asked' = {}
  /\ UNCHANGED <<exported, listed, torn, exports, stored, kind, faults>>

StartDiscovery(o, retry_failed) ==
  Start(o, "discover",
        Kept(Input, {u \in Username : row_is_processable(exported[u], retry_failed)}))
StartPersistence(o, retry_failed) ==
  Start(o, "persist",
        Kept(Input, {u \in Username : row_is_processable(listed[u].status, retry_failed)}))

\* Mutant of Upserted: the rows are added to a copy of the list.
UpsertedCopy(list, successful) == list

\* upsert_recommended_rows for the usernames of the batch that were scraped: accounts
\* with a stored profile are left out, listed ones only gain a source.
Upserted(list, successful) ==
  [v \in Username |->
     LET found == {u \in successful : v \in Recommends[u] /\ ~HasRow(v)} IN
     IF found = {} THEN list[v]
     ELSE [status |-> IF list[v].status = "absent" THEN "pending" ELSE list[v].status,
           sources |-> list[v].sources \cup found]]

DiscoverBatch(o) ==
  LET batch == FirstBatch(curate[o].todo) IN
  /\ curate[o].stage = "discover"
  /\ \E result \in [ToSet(batch) -> {"done", "failed", "not_found"}] :
       /\ Scrapes(batch, result)
       /\ curate' = [curate EXCEPT ![o] =
            [stage |-> "write_export",
             export |-> [u \in Username |-> IF u \in DOMAIN result THEN result[u]
                                            ELSE curate[o].export[u]],
             list |-> Upserted(curate[o].list, {u \in DOMAIN result : result[u] = "done"}),
             todo |-> curate[o].todo]]
  /\ UNCHANGED <<exported, listed, torn, exports, stored, kind, raced>>

\* run_discovery_phase ends a batch with two writes ...
WriteExport(o) ==
  /\ curate[o].stage = "write_export"
  /\ exported' = curate[o].export
  /\ curate' = [curate EXCEPT ![o].stage = "write_discovered"]
  /\ asked' = {}
  /\ UNCHANGED <<listed, torn, exports, stored, kind, raced, faults>>

\* ... and run_persistence_phase with one; then comes the next batch.
WriteList(o) ==
  LET others == OtherBatches(curate[o].todo) IN
  /\ curate[o].stage \in {"write_discovered", "write_persisted"}
  /\ listed' = curate[o].list
  /\ curate' = [curate EXCEPT ![o] =
       IF others = <<>> THEN NoCurate
       ELSE [@ EXCEPT !.todo = others,
                      !.stage = IF curate[o].stage = "write_discovered" THEN "discover"
                                ELSE "persist"]]
  /\ asked' = {}
  /\ UNCHANGED <<exported, torn, exports, stored, kind, raced, faults>>

\* run_persistence_phase scrapes and stores the next batch of the list.
PersistBatch(o) ==
  LET batch == FirstBatch(curate[o].todo) IN
  /\ curate[o].stage = "persist"
  /\ \E result \in [ToSet(batch) -> {"done", "failed", "not_found"}] :
       /\ Scrapes(batch, result)
       /\ Persists(result)
       /\ curate' = [curate EXCEPT
            ![o].stage = "write_persisted",
            ![o].list = [u \in Username |->
               IF u \in DOMAIN result THEN [@[u] EXCEPT !.status = result[u]] ELSE @[u]]]
  /\ UNCHANGED <<exported, listed, torn, exports, kind, raced>>

\* The run ends where it is.  Between the two writes of a discovered batch what was
\* discovered is lost, and its sources are done.
CurateCutOff(o) ==
  /\ o \in Running /\ Fault
  /\ curate' = [curate EXCEPT ![o] = NoCurate]
  /\ torn' = IF curate[o].stage = "write_discovered"
             THEN torn \cup ToSet(FirstBatch(curate[o].todo)) ELSE torn
  /\ asked' = {}
  /\ UNCHANGED <<exported, listed, exports, stored, kind, raced>>

CurateSteps(o) ==
  DiscoverBatch(o) \/ WriteExport(o) \/ WriteList(o) \/ PersistBatch(o)

RecommendNext ==
  \/ ExportProfiles
  \/ \E o \in Operator :
       \/ \E retry_failed \in BOOLEAN : StartDiscovery(o, retry_failed)
       \/ \E retry_failed \in BOOLEAN : StartPersistence(o, retry_failed)
       \/ CurateSteps(o)
       \/ CurateCutOff(o)
=============================================================================
