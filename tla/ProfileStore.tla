---------------------------- MODULE ProfileStore ----------------------------
(***************************************************************************)
(* The table ig_profiles and the transaction in which a batch of scraped   *)
(* profiles is written to it (scrape_core .../ig_scraper_v2/               *)
(* persistence.py).  A row is found by the account's ig_id and carries the *)
(* username the account had when it was last scraped; both are unique.     *)
(* An account that comes under a username another row still carries        *)
(* displaces it: the other row is renamed to a stale name.                 *)
(*                                                                         *)
(* The database runs at READ COMMITTED: a statement sees the committed     *)
(* rows and those of its own transaction, waits for a row that another     *)
(* transaction has written, waits for a unique name that another           *)
(* transaction takes or gives up, and fails when the name is taken after   *)
(* all.  Of transactions that wait for each other in a ring one is failed.  *)
(***************************************************************************)
EXTENDS Scraping

CONSTANTS
  Batch,     \* scrape jobs being executed, each with a database session of its own
  Account    \* Instagram accounts, by ig_id

VARIABLES
  row,       \* [Account -> Name]: the committed rows
  fresh,     \* accounts whose stored picture url has not run out (nor will it meanwhile)
  tx,        \* [Batch -> Tx]: the transaction of persist_scrape_results
  overlapped \* batches that were persisted while another was (history)

storeVars == <<row, fresh, tx, overlapped>>

Absent == "absent"       \* no row
Stale == "stale"         \* the row was displaced
Untouched == "untouched" \* not written by this transaction
Name == Username \cup {Absent, Stale}

ASSUME NameAssumption == {Absent, Stale, Untouched} \cap Username = {}

\* A profile to be written: the username asked for, the account found under it,
\* and whether the data have what a row needs (an id and a picture).
Profile == [username : Username, account : Account, complete : BOOLEAN]

\* step: what the transaction does next for the first profile of todo; name: the
\* username its row had when it was read; owner: the other row that had the profile's.
Tx == [step : {"none", "find", "claim", "displace", "lock", "write"},
       todo : Seq(Profile),
       name : Name,
       owner : SUBSET Account,
       writes : [Account -> Name \cup {Untouched}],
       stored : SUBSET Profile]
NoWrites == [a \in Account |-> Untouched]
NoTx == [step |-> "none", todo |-> <<>>, name |-> Absent, owner |-> {},
         writes |-> NoWrites, stored |-> {}]

StoreTypeOK ==
  /\ row \in [Account -> Name]
  /\ fresh \subseteq {a \in Account : row[a] # Absent}
  /\ tx \in [Batch -> Tx]
  /\ overlapped \subseteq Batch

\* Any table a history of scrapes leaves behind.
Tables == {r \in [Account -> Name] :
             \A a, c \in Account : r[a] = r[c] /\ r[a] \in Username => a = c}

StoreInit ==
  /\ row \in Tables
  /\ fresh \in SUBSET {a \in Account : row[a] \in Username}
  /\ tx = [b \in Batch |-> NoTx]
  /\ overlapped = {}

Open == {b \in Batch : tx[b].step # "none"}
View(b) == [a \in Account |-> IF tx[b].writes[a] # Untouched THEN tx[b].writes[a]
                              ELSE row[a]]
Current(b) == Head(tx[b].todo)
OwnersOf(b, u) == {a \in Account : View(b)[a] = u}

\* Rows and names another transaction has in hand.
HoldsRow(c, a) == tx[c].writes[a] # Untouched
HoldsName(c, u) == \E a \in Account : HoldsRow(c, a) /\ u \in {row[a], tx[c].writes[a]}

\* The owner of the username, when it is another row.
Displaced(b) == OwnersOf(b, Current(b).username) \ {Current(b).account}

\* The username is a changed column only when the row read has another.
Renames(b) == tx[b].name # Current(b).username

\* Whom b's next statement would wait for.
WaitsFor(b) ==
  {c \in Open \ {b} :
     \/ tx[b].step = "displace" /\ \E a \in tx[b].owner : HoldsRow(c, a)
     \/ tx[b].step = "lock" /\ HoldsRow(c, Current(b).account)
     \/ tx[b].step = "write" /\ Renames(b) /\ HoldsName(c, Current(b).username)}

\* get_profiles_by_usernames and should_refresh_profile: usernames without a
\* stored profile whose picture can still be shown.
NeedsRefresh(u) == ~\E a \in fresh : row[a] = u

BeginPersist(b, profiles) ==
  /\ tx' = [tx EXCEPT ![b] = [NoTx EXCEPT !.step = "find", !.todo = profiles]]
  /\ overlapped' = IF Open = {} THEN overlapped ELSE overlapped \cup Open \cup {b}
  /\ UNCHANGED <<row, fresh>>

\* The next profile: its row is read by ig_id.  One without id or picture is
\* given up; its result says so.
Find(b) ==
  /\ tx[b].step = "find" /\ tx[b].todo # <<>>
  /\ tx' = [tx EXCEPT ![b] =
       IF Current(b).complete
       THEN [@ EXCEPT !.step = "claim", !.name = View(b)[Current(b).account]]
       ELSE [@ EXCEPT !.todo = Tail(tx[b].todo)]]
  /\ UNCHANGED <<row, fresh, overlapped>>

\* Mutant of Claim: the other row keeps the username.
ClaimAnyway(b) ==
  /\ tx[b].step = "claim"
  /\ tx' = [tx EXCEPT ![b].step = "lock"]
  /\ UNCHANGED <<row, fresh, overlapped>>

\* _claim_username_for_profile: the owner of the username is read; when it is another
\* row, ...
Claim(b) ==
  /\ tx[b].step = "claim"
  /\ tx' = [tx EXCEPT ![b].step = IF Displaced(b) = {} THEN "lock" ELSE "displace",
                      ![b].owner = Displaced(b)]
  /\ UNCHANGED <<row, fresh, overlapped>>

\* ... that row goes stale, whatever name a transaction this one waited for gave it.
Displace(b) ==
  /\ tx[b].step = "displace" /\ WaitsFor(b) = {}
  /\ tx' = [tx EXCEPT ![b].step = "lock", ![b].owner = {},
              ![b].writes = [a \in Account |-> IF a \in tx[b].owner THEN Stale ELSE @[a]]]
  /\ UNCHANGED <<row, fresh, overlapped>>

\* The profile is flushed: first its row or, for a new one, its ig_id is taken ...
IdTaken(b) == tx[b].name = Absent /\ row[Current(b).account] # Absent

LockRow(b) ==
  /\ tx[b].step = "lock" /\ WaitsFor(b) = {} /\ ~IdTaken(b)
  /\ tx' = [tx EXCEPT ![b].step = "write",
              ![b].writes[Current(b).account] = View(b)[Current(b).account]]
  /\ UNCHANGED <<row, fresh, overlapped>>

\* ... then its username; posts, reels, metrics and snapshot follow under the row.
NameTaken(b) == Renames(b) /\ Displaced(b) # {}

WriteName(b) ==
  LET p == Current(b) IN
  /\ tx[b].step = "write" /\ WaitsFor(b) = {} /\ ~NameTaken(b)
  /\ tx' = [tx EXCEPT ![b].step = "find",
              ![b].todo = Tail(@),
              ![b].stored = @ \cup {p},
              ![b].writes[p.account] = IF Renames(b) THEN p.username ELSE @]
  /\ UNCHANGED <<row, fresh, overlapped>>

\* b waits for itself through others: it is in every set that holds those it waits
\* for and, with each transaction, those it waits for.
Deadlocked(b) ==
  \A waiting \in SUBSET Open :
    (\A c \in waiting \cup {b} : WaitsFor(c) \subseteq waiting) => b \in waiting

\* The statement violates a unique key, or its transaction is the victim of a
\* deadlock.  The session is of no use then, for the profiles that follow and for
\* the commit, and everything is rolled back.
FlushFails(b) ==
  /\ \/ tx[b].step = "lock" /\ WaitsFor(b) = {} /\ IdTaken(b)
     \/ tx[b].step = "write" /\ WaitsFor(b) = {} /\ NameTaken(b)
     \/ Deadlocked(b)
  /\ tx' = [tx EXCEPT ![b] = NoTx]
  /\ UNCHANGED <<row, fresh, overlapped>>

Commit(b) ==
  /\ tx[b].step = "find" /\ tx[b].todo = <<>>
  /\ row' = View(b)
  /\ fresh' = fresh \cup {p.account : p \in tx[b].stored}
  /\ tx' = [tx EXCEPT ![b] = NoTx]
  /\ UNCHANGED overlapped
=============================================================================
