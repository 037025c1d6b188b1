----------------------------- MODULE ScrapeBatch -----------------------------
(***************************************************************************)
(* Executing one scrape job's batch of usernames (executor.py, service.py, *)
(* batch_runner.py, session.py, apify.py and analysis.py of scrape_core    *)
(* .../ig_scraper_v2): fresh profiles are skipped, the others are scraped  *)
(* by a logged-in browser with several pages or by one Apify run, labelled *)
(* by a language model, written to the database in one transaction         *)
(* (ProfileStore), and summed up for the job's owner, who is billed for    *)
(* counters.successful.                                                    *)
(*                                                                         *)
(* Instagram is what holder says: who is found under a username.           *)
(***************************************************************************)
EXTENDS ProfileStore, Functions

CONSTANTS
  Request,          \* [Batch -> sequence of usernames]
  ApifyBatch,       \* batches executed by Apify
  MaxConcurrent,    \* pages of a browser batch (config.crawler.max_concurrent)
  Credential,       \* Instagram credentials with a session or a login
  MaxLoginAttempts, \* MAX_LOGIN_ATTEMPTS
  NoAccount,
  MaxRenames        \* bound: how often accounts come under other usernames

ASSUME BatchAssumption ==
  /\ IsFiniteSet(Batch) /\ Request \in [Batch -> Seq(Username)]
  /\ \A b \in Batch : IsInjective(Request[b])   \* _normalize_requested_usernames
  /\ ApifyBatch \subseteq Batch
  /\ MaxConcurrent \in Nat \ {0} /\ MaxLoginAttempts \in Nat \ {0}
  /\ NoAccount \notin Account
  /\ MaxRenames \in Nat /\ MaxFaults \in Nat

VARIABLES
  pc,         \* how far each batch is
  tried,      \* credentials it has tried
  queue,      \* profile_queue: usernames no page has taken yet
  pages,      \* usernames whose page is at work
  closing,    \* usernames with a result whose page is being closed
  order,      \* the keys of results, in the order they were inserted
  result,     \* [Batch -> [Username -> Result]]
  counters,   \* [Batch -> Counters]
  error,      \* batches whose response carries an error
  doubled,    \* batches with a page that failed to close (history)
  holder,     \* [Username -> account or NoAccount]: Instagram
  renames

batchVars == <<pc, tried, queue, pages, closing, order, result, counters, error, doubled>>
worldVars == <<holder, renames, faults>>
vars == <<storeVars, batchVars, worldVars>>

Stage == {"new", "session", "scrape", "analysis", "persist", "done", "raised"}
Result == [status : {"none", "success", "failed", "not_found"},
           account : Account \cup {NoAccount}, complete : BOOLEAN]
Counters == [successful : Nat, failed : Nat, not_found : Nat]
Failed == [status |-> "failed", account |-> NoAccount, complete |-> FALSE]
NotFound == [Failed EXCEPT !.status = "not_found"]
NoResult == [Failed EXCEPT !.status = "none"]
Success(a, complete) == [status |-> "success", account |-> a, complete |-> complete]

Holders == {h \in [Username -> Account \cup {NoAccount}] :
              \A u, v \in Username : h[u] = h[v] /\ h[u] # NoAccount => u = v}

TypeOK ==
  /\ StoreTypeOK
  /\ pc \in [Batch -> Stage]
  /\ tried \in [Batch -> SUBSET Credential]
  /\ queue \in [Batch -> Seq(Username)]
  /\ pages \in [Batch -> SUBSET Username] /\ closing \in [Batch -> SUBSET Username]
  /\ order \in [Batch -> Seq(Username)]
  /\ result \in [Batch -> [Username -> Result]]
  /\ counters \in [Batch -> Counters]
  /\ error \subseteq Batch /\ doubled \subseteq Batch
  /\ holder \in Holders
  /\ renames \in 0..MaxRenames /\ faults \in 0..MaxFaults
  /\ \A b \in Batch : Cardinality(pages[b] \cup closing[b]) <= MaxConcurrent

Init ==
  /\ StoreInit
  /\ pc = [b \in Batch |-> "new"]
  /\ tried = [b \in Batch |-> {}]
  /\ queue = [b \in Batch |-> <<>>]
  /\ pages = [b \in Batch |-> {}]
  /\ closing = [b \in Batch |-> {}]
  /\ order = [b \in Batch |-> <<>>]
  /\ result = [b \in Batch |-> [u \in Username |-> NoResult]]
  /\ counters = [b \in Batch |-> [successful |-> 0, failed |-> 0, not_found |-> 0]]
  /\ error = {} /\ doubled = {}
  /\ holder \in Holders
  /\ renames = 0 /\ faults = 0

Goto(b, stage) == pc' = [pc EXCEPT ![b] = stage]
Tally(res, status) == Cardinality({u \in Username : res[u].status = status})
CountersOf(res) == [successful |-> Tally(res, "success"), failed |-> Tally(res, "failed"),
                    not_found |-> Tally(res, "not_found")]

\* prepare_scrape_batch_payload: nothing to do is an answer of its own.
Prepare(b) ==
  LET needed == Kept(Request[b], {u \in Username : NeedsRefresh(u)}) IN
  /\ pc[b] = "new"
  /\ queue' = [queue EXCEPT ![b] = needed]
  /\ Goto(b, IF needed = <<>> THEN "done"
             ELSE IF b \in ApifyBatch THEN "scrape" ELSE "session")
  /\ UNCHANGED <<storeVars, worldVars, tried, pages, closing, order, result, counters,
                 error, doubled>>

\* _mark_all_failed, and the except branch of the Apify run: every username of the
\* batch fails, and the response carries an error.
AllFail(b) ==
  LET res == [u \in Username |-> IF u \in ToSet(queue[b]) THEN Failed ELSE NoResult] IN
  /\ order' = [order EXCEPT ![b] = queue[b]]
  /\ result' = [result EXCEPT ![b] = res]
  /\ counters' = [counters EXCEPT ![b] = CountersOf(res)]
  /\ queue' = [queue EXCEPT ![b] = <<>>]
  /\ error' = error \cup {b}
  /\ Goto(b, "analysis")

\* ensure_session: credentials in random order, until one has a live session or
\* logs in.  A missing browser ends the attempts.
SessionReady(b) ==
  /\ pc[b] = "session"
  /\ Cardinality(tried[b]) < MaxLoginAttempts /\ tried[b] # Credential
  /\ Goto(b, "scrape")
  /\ UNCHANGED <<storeVars, worldVars, tried, queue, pages, closing, order, result,
                 counters, error, doubled>>

CredentialFails(b, c) ==
  /\ pc[b] = "session" /\ Fault
  /\ Cardinality(tried[b]) < MaxLoginAttempts /\ c \in Credential \ tried[b]
  /\ tried' = [tried EXCEPT ![b] = @ \cup {c}]
  /\ UNCHANGED <<storeVars, holder, renames, pc, queue, pages, closing, order, result,
                 counters, error, doubled>>

NoBrowser(b) ==
  /\ pc[b] = "session" /\ Fault /\ AllFail(b)
  /\ UNCHANGED <<storeVars, holder, renames, tried, pages, closing, doubled>>

\* Mutant of NoSession: the limit is not lowered to the number of credentials.
NoSessionAtLimit(b) ==
  /\ pc[b] = "session" /\ Cardinality(tried[b]) = MaxLoginAttempts /\ AllFail(b)
  /\ UNCHANGED <<storeVars, worldVars, tried, pages, closing, doubled>>

NoSession(b) ==
  /\ pc[b] = "session"
  /\ Cardinality(tried[b]) = MaxLoginAttempts \/ tried[b] = Credential
  /\ AllFail(b)
  /\ UNCHANGED <<storeVars, worldVars, tried, pages, closing, doubled>>

\* The browser of the scrape itself cannot be started: the job fails.
LaunchFails(b) ==
  /\ pc[b] = "scrape" /\ b \notin ApifyBatch /\ Fault
  /\ order[b] = <<>> /\ pages[b] = {}
  /\ Goto(b, "raised")
  /\ UNCHANGED <<storeVars, holder, renames, tried, queue, pages, closing, order, result,
                 counters, error, doubled>>

\* _profile_worker: a worker takes the next username and opens a page.
OpenPage(b) ==
  /\ pc[b] = "scrape" /\ b \notin ApifyBatch /\ queue[b] # <<>>
  /\ Cardinality(pages[b] \cup closing[b]) < MaxConcurrent
  /\ pages' = [pages EXCEPT ![b] = @ \cup {Head(queue[b])}]
  /\ queue' = [queue EXCEPT ![b] = Tail(@)]
  /\ UNCHANGED <<storeVars, worldVars, pc, tried, closing, order, result, counters,
                 error, doubled>>

OneMore(c, status) ==
  CASE status = "success" -> [c EXCEPT !.successful = @ + 1]
    [] status = "not_found" -> [c EXCEPT !.not_found = @ + 1]
    [] OTHER -> [c EXCEPT !.failed = @ + 1]

\* _record_result: the result replaces an earlier one of the username, the
\* counter goes up all the same.
Record(b, u, r) ==
  /\ result' = [result EXCEPT ![b][u] = r]
  /\ order' = [order EXCEPT ![b] = IF u \in ToSet(@) THEN @ ELSE Append(@, u)]
  /\ counters' = [counters EXCEPT ![b] = OneMore(@, r.status)]

\* What a page can show of a username: its account, with or without the data a
\* row needs, or that there is none.
Seen(u) == IF holder[u] = NoAccount THEN {NotFound}
           ELSE {Success(holder[u], complete) : complete \in BOOLEAN}

Scrape(b, u) ==
  /\ u \in pages[b]
  /\ \E r \in Seen(u) : Record(b, u, r)
  /\ pages' = [pages EXCEPT ![b] = @ \ {u}]
  /\ closing' = [closing EXCEPT ![b] = @ \cup {u}]
  /\ UNCHANGED <<storeVars, worldVars, pc, tried, queue, error, doubled>>

\* Navigation, login wall, challenge, another profile than asked for, no data.
ScrapeFails(b, u) ==
  /\ u \in pages[b] /\ Fault
  /\ Record(b, u, Failed)
  /\ pages' = [pages EXCEPT ![b] = @ \ {u}]
  /\ closing' = [closing EXCEPT ![b] = @ \cup {u}]
  /\ UNCHANGED <<storeVars, holder, renames, pc, tried, queue, error, doubled>>

ClosePage(b, u) ==
  /\ u \in closing[b]
  /\ closing' = [closing EXCEPT ![b] = @ \ {u}]
  /\ UNCHANGED <<storeVars, worldVars, pc, tried, queue, pages, order, result, counters,
                 error, doubled>>

\* page.close() raises in the finally clause: the worker records a failure for a
\* username that has its result.
CloseFails(b, u) ==
  /\ u \in closing[b] /\ Fault
  /\ Record(b, u, Failed)
  /\ closing' = [closing EXCEPT ![b] = @ \ {u}]
  /\ doubled' = doubled \cup {b}
  /\ UNCHANGED <<storeVars, holder, renames, pc, tried, queue, pages, error>>

\* asyncio.gather: every worker has found the queue empty.
WorkersDone(b) ==
  /\ pc[b] = "scrape" /\ b \notin ApifyBatch
  /\ queue[b] = <<>> /\ pages[b] = {} /\ closing[b] = {}
  /\ Goto(b, "analysis")
  /\ UNCHANGED <<storeVars, worldVars, tried, queue, pages, closing, order, result,
                 counters, error, doubled>>

Findings == {NoResult, NotFound} \cup
            {Success(a, complete) : a \in Account, complete \in BOOLEAN}

\* _build_response: the items of the dataset in any order, the usernames without
\* an item after them.
ApifyRun(b) ==
  /\ pc[b] = "scrape" /\ b \in ApifyBatch
  /\ \E found \in SetToSeqs({u \in ToSet(queue[b]) : holder[u] # NoAccount}),
        res \in [Username -> Findings] :
       /\ \A u \in Username : IF u \in ToSet(queue[b]) THEN res[u] \in Seen(u)
                              ELSE res[u] = NoResult
       /\ result' = [result EXCEPT ![b] = res]
       /\ counters' = [counters EXCEPT ![b] = CountersOf(res)]
       /\ order' = [order EXCEPT ![b] =
            found \o Kept(queue[b], Username \ ToSet(found))]
  /\ queue' = [queue EXCEPT ![b] = <<>>]
  /\ Goto(b, "analysis")
  /\ UNCHANGED <<storeVars, worldVars, tried, pages, closing, error, doubled>>

ApifyFails(b) ==
  /\ pc[b] = "scrape" /\ b \in ApifyBatch /\ Fault /\ AllFail(b)
  /\ UNCHANGED <<storeVars, holder, renames, tried, pages, closing, doubled>>

\* enrich_scrape_response adds labels or an ai_error, and persist_scrape_results
\* begins; a response with an error passes through both.
Successes(b) == Kept(order[b], {u \in Username : result[b][u].status = "success"})
Profiles(b) ==
  [i \in 1..Len(Successes(b)) |->
     LET u == Successes(b)[i] IN [username |-> u, account |-> result[b][u].account,
                                  complete |-> result[b][u].complete]]

Analysed(b) ==
  /\ pc[b] = "analysis"
  /\ IF b \in error THEN Goto(b, "done") /\ UNCHANGED storeVars
                    ELSE Goto(b, "persist") /\ BeginPersist(b, Profiles(b))
  /\ UNCHANGED <<worldVars, tried, queue, pages, closing, order, result, counters, error,
                 doubled>>

\* Mutant of PersistFinds: the error is noted, the result stays.
PersistFindsQuietly(b) ==
  /\ Find(b)
  /\ error' = IF Current(b).complete THEN error ELSE error \cup {b}
  /\ UNCHANGED <<worldVars, pc, tried, queue, pages, closing, order, result, counters, doubled>>

\* persist_scrape_results, statement by statement.  A profile that is given up
\* turns its result to failed and leaves an error.
PersistFinds(b) ==
  LET u == Current(b).username IN
  /\ Find(b)
  /\ IF Current(b).complete THEN UNCHANGED <<result, error>>
     ELSE /\ result' = [result EXCEPT ![b][u].status = "failed"]
          /\ error' = error \cup {b}
  /\ UNCHANGED <<worldVars, pc, tried, queue, pages, closing, order, counters, doubled>>

PersistWrites(b) ==
  /\ Claim(b) \/ Displace(b) \/ LockRow(b) \/ WriteName(b)
  /\ UNCHANGED <<batchVars, worldVars>>

PersistFails(b) ==
  /\ FlushFails(b)
  /\ Goto(b, "raised")
  /\ UNCHANGED <<worldVars, tried, queue, pages, closing, order, result, counters, error,
                 doubled>>

\* Mutant of PersistCommits: the counters stay those of the scrape.
PersistCommitsUncounted(b) ==
  /\ Commit(b)
  /\ Goto(b, "done")
  /\ UNCHANGED <<worldVars, tried, queue, pages, closing, order, result, counters, error,
                 doubled>>

PersistCommits(b) ==
  /\ Commit(b)
  /\ Goto(b, "done")
  /\ counters' = [counters EXCEPT ![b] = IF b \in error THEN CountersOf(result[b]) ELSE @]
  /\ UNCHANGED <<worldVars, tried, queue, pages, closing, order, result, error, doubled>>

\* Accounts come under other usernames.
Rename ==
  /\ renames < MaxRenames /\ renames' = renames + 1
  /\ holder' \in Holders \ {holder}
  /\ UNCHANGED <<storeVars, batchVars, faults>>

Execute(b) ==
  \/ Prepare(b) \/ SessionReady(b) \/ NoBrowser(b) \/ NoSession(b) \/ LaunchFails(b)
  \/ \E c \in Credential : CredentialFails(b, c)
  \/ OpenPage(b) \/ WorkersDone(b) \/ ApifyRun(b) \/ ApifyFails(b)
  \/ \E u \in Username : Scrape(b, u) \/ ScrapeFails(b, u) \/ ClosePage(b, u)
                         \/ CloseFails(b, u)
  \/ Analysed(b)
  \/ PersistFinds(b) \/ PersistWrites(b) \/ PersistFails(b) \/ PersistCommits(b)

Next == (\E b \in Batch : Execute(b)) \/ Rename

Spec == Init /\ [][Next]_vars

-----------------------------------------------------------------------------
\* build_batch_scrape_summary: what the owner is told of a finished batch.
Scraped(b) == ToSet(order[b])
Told(b) == {u \in Username : result[b][u].status = "success"}

(* The counters of a finished batch, by which its owner is charged, are those of
   the results it reports, each username asked of Instagram has one, and a batch
   that failed before it saw a profile charges nothing.  Not so when a page
   failed to close: its username is counted twice.  Hazard: the counters are kept
   by several workers and recomputed only after persistence errors. *)
CountersAgree ==
  \A b \in Batch : pc[b] = "done" =>
    /\ b \notin doubled => counters[b] = CountersOf(result[b])
    /\ queue[b] = <<>> /\ pages[b] = {} /\ closing[b] = {}
    /\ \A u \in Username : u \in Scraped(b) <=> result[b][u].status # "none"

\* The types, and the counters the owner is charged by.
CounterInv == TypeOK /\ CountersAgree

(* The commit of a batch stores the accounts reported as scraped and no others,
   and each is found under the username asked for (or the one it was found under
   later in the same batch).  A row changes otherwise only by going stale, because
   its username was found to be another's.  When two batches overlap, the rows are
   still those of reported accounts.  Hazard: one of several profiles fails within
   one transaction whose session is shared. *)
StoresWhatItReports(b) ==
  LET account(u) == result'[b][u].account
      told == Told(b)' IN
  /\ \A u \in told : account(u) \in fresh' /\ row'[account(u)] # Absent
  /\ \A a \in Account : row'[a] # row[a] =>
       a \in {account(u) : u \in told} \/ row'[a] = Stale
  /\ b \notin overlapped =>
       /\ \A u \in told : \E v \in told : account(v) = account(u) /\ row'[account(u)] = v
       /\ \A a \in Account : row'[a] = Stale /\ row[a] # Stale => row[a] \in told
ReportedIsStored ==
  [][\A b \in Batch : pc[b] = "persist" /\ pc'[b] = "done" => StoresWhatItReports(b)]_vars

(* A table whose names lag behind Instagram's never fails a batch: names that
   were passed on, in a ring too, are claimed in any order without a violation of
   the unique key.  Only another batch that is persisted at the same time can
   fail it.  Hazard: the key is checked at every flush. *)
AloneNeverFails ==
  [][\A b \in Batch : pc[b] = "persist" /\ pc'[b] = "raised" => b \in overlapped]_vars

(* While a batch is unfinished some batch has a step to take: its statement waits
   for no transaction, or it is the victim of a deadlock.  Pages fail, workers
   share a queue and transactions wait for each other, and yet nothing stops for
   good.  Hazard: two batches may take rows and names in opposite orders. *)
Ended(b) == pc[b] \in {"done", "raised"}
Moves(b) == ~Ended(b) /\ (pc[b] = "persist" => WaitsFor(b) = {} \/ Deadlocked(b))
SomeoneMoves == (\E b \in Batch : ~Ended(b)) => \E b \in Batch : Moves(b)
NeverStuck == SomeoneMoves /\ \A b \in Batch : Moves(b) => ENABLED Execute(b)
=============================================================================
