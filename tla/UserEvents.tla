------------------------------ MODULE UserEvents ------------------------------
(***************************************************************************)
(* User events: the Redis stream of one user (packages/core                *)
(* .../user_events), the SSE route and its generator (backend              *)
(* features/user_events/service.py), and the connection of one browser tab *)
(* (frontend features/user-events).  A Conn is one run of connect(): the   *)
(* tab may start the next while an aborted one is still being wound up.    *)
(***************************************************************************)
EXTENDS Naturals, FiniteSets, Sequences

CONSTANTS
  JobNotification,     \* published with a dedupe key, again when completion is retried
  BillingNotification, \* published once, best effort
  Conn,
  StreamMaxlen,        \* USER_EVENTS_STREAM_MAXLEN
  ReadCount,           \* count of read_events
  MaxFaults,           \* bound of failing calls, responses and connections
  MaxRuns              \* bound of runId

Notification == JobNotification \cup BillingNotification

ASSUME UserEventsAssumption ==
  /\ JobNotification \cap BillingNotification = {}
  /\ {StreamMaxlen, ReadCount} \subseteq Nat \ {0}
  /\ {MaxFaults, MaxRuns} \subseteq Nat

VARIABLES
  log,      \* what was ever added to the stream; entry ids are places in it
  trimmed,  \* ids up to this one have left the stream
  attempted,\* billing notifications whose publication was tried
  conn,     \* the runs of connect() and their server side
  session,  \* the tab has a session
  run,      \* runId
  timer,    \* reconnectTimer
  token,    \* there is an access token
  cursor,   \* the cursor in sessionStorage, 0 if none
  aged,     \* it is older than USER_EVENTS_CURSOR_MAX_AGE_MS
  emitted,  \* the ids the listeners were told of (history)
  owed,     \* entries published while the tab had a cursor (history)
  faults

streamVars == <<log, trimmed, attempted>>
tabVars == <<session, run, timer, token, cursor, aged>>
vars == <<streamVars, conn, tabVars, emitted, owed, faults>>

ConnState ==
  [pc      : {"idle", "fetch", "open"},
   run     : Nat,                          \* the runId it was started with
   aborted : BOOLEAN,                      \* its abort signal
   server  : {"none", "ready", "reading"}, \* the generator of its response
   from    : Nat,                          \* the generator's cursor, 0 for "$"
   after   : Nat,                          \* its XREAD is for entries after this
   wire    : Seq(Nat)]                     \* entries read for it and not yet received
IdleConn == [pc |-> "idle", run |-> 0, aborted |-> FALSE, server |-> "none",
             from |-> 0, after |-> 0, wire |-> <<>>]

TypeOK ==
  /\ log \in Seq(Notification) /\ trimmed \in 0 .. Len(log)
  /\ attempted \subseteq BillingNotification
  /\ conn \in [Conn -> ConnState]
  /\ {session, timer, token, aged} \subseteq BOOLEAN
  /\ run \in Nat /\ cursor \in 0 .. Len(log)
  /\ emitted \in Seq(1 .. Len(log)) /\ owed \subseteq trimmed + 1 .. Len(log)
  /\ faults \in Nat
  /\ \A c \in Conn : conn[c].server # "none" => conn[c].pc = "open" /\ ~conn[c].aborted

Init ==
  /\ log = <<>> /\ trimmed = 0 /\ attempted = {}
  /\ conn = [c \in Conn |-> IdleConn]
  /\ session = FALSE /\ run = 0 /\ timer = FALSE /\ token = FALSE
  /\ cursor = 0 /\ aged = FALSE
  /\ emitted = <<>> /\ owed = {} /\ faults = MaxFaults

Fault == faults > 0 /\ faults' = faults - 1

-----------------------------------------------------------------------------
\* PUBLISH_USER_EVENT_SCRIPT: XADD with an exact MAXLEN, unless the dedupe key is there.
\* (The key lives for longer than a behaviour.)
Published(n) == \E i \in DOMAIN log : log[i] = n

Add(n) ==
  LET oldest == IF Len(log) + 1 > StreamMaxlen THEN Len(log) + 1 - StreamMaxlen ELSE 0 IN
  /\ log' = Append(log, n)
  /\ trimmed' = IF oldest > trimmed THEN oldest ELSE trimmed
  /\ owed' = {o \in owed \cup (IF cursor # 0 /\ ~aged THEN {Len(log) + 1} ELSE {}) : o > trimmed'}

\* Mutant of PublishUserEvent: the dedupe key is not looked at.
PublishAgain(n) == Len(log) <= Cardinality(Notification) /\ Add(n)

PublishUserEvent(n) ==
  \/ Published(n) /\ UNCHANGED <<log, trimmed, owed>>
  \/ ~Published(n) /\ Add(n)

\* An attempt; when it fails, the script may have run all the same.
Publish(n) ==
  /\ n \in JobNotification \/ n \notin attempted
  /\ attempted' = attempted \cup ({n} \cap BillingNotification)
  /\ \/ PublishUserEvent(n) /\ UNCHANGED faults
     \/ Fault /\ UNCHANGED <<log, trimmed, owed>>
  /\ UNCHANGED <<conn, tabVars, emitted>>

\* delete_user_stream, when the account is deleted.
DeleteUserStream ==
  /\ trimmed < Len(log)
  /\ Fault
  /\ trimmed' = Len(log) /\ owed' = {}
  /\ UNCHANGED <<log, attempted, conn, tabVars, emitted>>

-----------------------------------------------------------------------------
\* UserEventStreamService._event_generator

\* What an XREAD after an id finds: the entries after it that are still in the stream.
First(id) == IF id < trimmed THEN trimmed ELSE id
Available(id) == Len(log) - First(id)

\* A round begins: XREAD is issued, and "$" is the last id at that moment.
Read(c) ==
  /\ conn[c].server = "ready"
  /\ conn' = [conn EXCEPT ![c].server = "reading",
                          ![c].after = IF conn[c].from = 0 THEN Len(log) ELSE conn[c].from]
  /\ UNCHANGED <<streamVars, tabVars, emitted, owed, faults>>

\* The first of them, in order, at most count.
Batch(id) ==
  [i \in 1 .. IF Available(id) < ReadCount THEN Available(id) ELSE ReadCount |-> First(id) + i]

\* XREAD returns entries: they are sent in order, and the last one is the cursor.
ReadReturns(c) ==
  LET batch == Batch(conn[c].after) IN
  /\ conn[c].server = "reading" /\ Available(conn[c].after) > 0
  /\ conn' = [conn EXCEPT ![c].server = "ready", ![c].from = batch[Len(batch)],
                          ![c].wire = @ \o batch]
  /\ UNCHANGED <<streamVars, tabVars, emitted, owed, faults>>

\* Its block time is over: a generator without cursor keeps "$".
ReadTimesOut(c) ==
  /\ conn[c].server = "reading" /\ Available(conn[c].after) = 0
  /\ conn' = [conn EXCEPT ![c].server = "ready"]
  /\ UNCHANGED <<streamVars, tabVars, emitted, owed, faults>>

\* Redis fails, or anything else: the response ends after what was sent.  If it is the
\* network or the process that fails, that is lost too.
StreamFails(c) ==
  /\ conn[c].server # "none"
  /\ Fault
  /\ \E wire \in {conn[c].wire, <<>>} :
       conn' = [conn EXCEPT ![c].server = "none", ![c].wire = wire]
  /\ UNCHANGED <<streamVars, tabVars, emitted, owed>>

-----------------------------------------------------------------------------
\* UserEventsConnection

\* abortController belongs to this run.
Live(c) == conn[c].pc # "idle" /\ ~conn[c].aborted

\* Mutant of StoredCursor: no Last-Event-ID is sent.
StoredCursorUnread == 0

\* readUserEventsCursor removes a cursor that is too old.
StoredCursor == IF aged THEN 0 ELSE cursor

\* connect: up to the fetch, with the cursor as Last-Event-ID.  Without a token it returns.
Connect(others, thisRun) ==
  \/ /\ token'
     /\ LET unused == {c \in Conn : others[c].pc = "idle"} IN
        /\ unused # {}
        /\ conn' = [others EXCEPT ![CHOOSE c \in unused : TRUE] =
             [IdleConn EXCEPT !.pc = "fetch", !.run = thisRun, !.from = StoredCursor]]
     /\ cursor' = StoredCursor /\ aged' = FALSE
  \/ ~token' /\ conn' = others /\ UNCHANGED <<cursor, aged>>

Aborted == [c \in Conn |-> IF Live(c) THEN [conn[c] EXCEPT !.aborted = TRUE, !.server = "none"]
                           ELSE conn[c]]

\* retain, after a log-in or in a page loaded by a user who is logged in.
Retain ==
  /\ ~session /\ run < MaxRuns
  /\ session' = TRUE /\ run' = run + 1 /\ timer' = FALSE /\ token' = TRUE
  /\ Connect(Aborted, run + 1)
  /\ UNCHANGED <<streamVars, emitted, owed, faults>>

\* shutdown; restart begins in the same way.
Shutdown(others) ==
  /\ session' = FALSE /\ run' = run + 1 /\ timer' = FALSE
  /\ conn' = others

\* The last component that retained the connection goes.
Release ==
  /\ session
  /\ Shutdown(Aborted)
  /\ UNCHANGED <<streamVars, token, cursor, aged, emitted, owed, faults>>

\* logout clears cursor and token, before the components go; in another tab, which has
\* its own cursor, only the token they share.
LogOut ==
  /\ token /\ session
  /\ token' = FALSE
  /\ \/ cursor' = 0 /\ aged' = FALSE /\ owed' = {}
     \/ UNCHANGED <<cursor, aged, owed>>
  /\ UNCHANGED <<streamVars, conn, session, run, timer, emitted, faults>>

\* USER_EVENTS_CURSOR_MAX_AGE_MS without an event.
CursorAges ==
  /\ cursor # 0 /\ ~aged
  /\ aged' = TRUE /\ owed' = {}
  /\ UNCHANGED <<streamVars, conn, session, run, timer, token, cursor, emitted, faults>>

\* A run that was aborted returns at its next turn, whatever it has received.
Returns(c) ==
  /\ conn[c].aborted
  /\ conn' = [conn EXCEPT ![c] = IdleConn]
  /\ UNCHANGED <<streamVars, tabVars, emitted, owed, faults>>

Responds(c) ==
  /\ Live(c) /\ conn[c].pc = "fetch"
  /\ conn' = [conn EXCEPT ![c].pc = "open", ![c].server = "ready"]
  /\ UNCHANGED <<streamVars, tabVars, emitted, owed, faults>>

\* 401 and 403: no reconnection.
Unauthorized(c) ==
  /\ Live(c) /\ conn[c].pc = "fetch"
  /\ Fault
  /\ Shutdown([conn EXCEPT ![c] = IdleConn])
  /\ UNCHANGED <<streamVars, token, cursor, aged, emitted, owed>>

\* Mutant of Reconnect: the timer is forgotten.
ReconnectNever(c) ==
  /\ conn' = [conn EXCEPT ![c] = IdleConn]
  /\ UNCHANGED timer

\* The finally block of connect, with shouldReconnect.
Reconnect(c) ==
  /\ conn' = [conn EXCEPT ![c] = IdleConn]
  /\ timer' = (timer \/ (session /\ conn[c].run = run))

\* 429 from the rate limit, 503 when Redis is down, or the network fails.
Unavailable(c) ==
  /\ Live(c) /\ conn[c].pc = "fetch"
  /\ Fault
  /\ Reconnect(c)
  /\ UNCHANGED <<streamVars, session, run, token, cursor, aged, emitted, owed>>

\* The response has ended.
Ended(c) ==
  /\ Live(c) /\ conn[c].pc = "open" /\ conn[c].server = "none" /\ conn[c].wire = <<>>
  /\ Reconnect(c)
  /\ UNCHANGED <<streamVars, session, run, token, cursor, aged, emitted, owed, faults>>

\* An event: the cursor is stored and the listeners are told.
Receive(c) ==
  /\ Live(c) /\ conn[c].wire # <<>>
  /\ LET e == Head(conn[c].wire) IN
     /\ conn' = [conn EXCEPT ![c].wire = Tail(@)]
     /\ cursor' = e /\ aged' = FALSE
     /\ emitted' = Append(emitted, e) /\ owed' = owed \ {e}
  /\ UNCHANGED <<streamVars, session, run, timer, token, faults>>

TimerFires ==
  /\ timer /\ timer' = FALSE
  /\ UNCHANGED token
  /\ Connect(conn, run)
  /\ UNCHANGED <<streamVars, session, run, emitted, owed, faults>>

-----------------------------------------------------------------------------
ServerStep(c) == Read(c) \/ ReadReturns(c) \/ ReadTimesOut(c)
ClientStep(c) == Returns(c) \/ Responds(c) \/ Ended(c) \/ Receive(c)

Next ==
  \/ \E n \in Notification : Publish(n)
  \/ DeleteUserStream
  \/ \E c \in Conn : \/ ServerStep(c) \/ ClientStep(c)
                     \/ StreamFails(c) \/ Unauthorized(c) \/ Unavailable(c)
  \/ Retain \/ Release \/ LogOut \/ CursorAges \/ TimerFires

\* A generator and a run of connect() are coroutines, timers fire.  Nobody must publish,
\* log in or load the page.
Fairness ==
  /\ \A c \in Conn : WF_vars(ServerStep(c)) /\ WF_vars(ClientStep(c))
  /\ WF_vars(TimerFires)

Spec == Init /\ [][Next]_vars /\ Fairness

-----------------------------------------------------------------------------
\* Properties

\* The tab's connection is one: while it has session and token, either one run of connect()
\* is alive or the timer for the next is running, and never both or two.
OneConnection ==
  LET alive == Cardinality({c \in Conn : Live(c)}) + (IF timer THEN 1 ELSE 0) IN
  alive <= 1 /\ (session /\ token => alive = 1)

\* Dedupe, cursor and runId together keep the promise of UserEventDelivery.
Delivery == INSTANCE UserEventDelivery WITH
  Notification <- Notification, log <- log, owed <- owed, emitted <- emitted
ImplementsDelivery == Delivery!Spec

\* An event published after the tab had a cursor reaches its listeners, in spite of broken
\* connections, refused requests and page loads, unless it is trimmed or the cursor gets
\* too old; or the tab is logged out.
OwedEventsArrive ==
  \A e \in 1 .. Cardinality(Notification) :
    e \in owed ~> (e \notin owed \/ ~session \/ ~token)
=============================================================================
