--------------------------- MODULE UserEventsProofs ---------------------------
(***************************************************************************)
(* Proofs about UserEvents for every number of notifications, runs of      *)
(* connect() and faults: the types, that the tab has one connection, and   *)
(* that the stream, the SSE route and the tab together implement           *)
(* UserEventDelivery.                                                      *)
(***************************************************************************)
EXTENDS UserEvents, FiniteSetTheorems, SequenceTheorems, TLAPS

-----------------------------------------------------------------------------
\* What the parts of the steps do

\* What TypeOK says of the runs of connect().
ConnOK(f) ==
  /\ f \in [Conn -> ConnState]
  /\ \A c \in Conn : f[c].server # "none" => f[c].pc = "open" /\ ~f[c].aborted

\* One of them changes.
LEMMA ConnUpdate ==
  ASSUME TypeOK, NEW c \in Conn, NEW w \in ConnState,
         w.server # "none" => w.pc = "open" /\ ~w.aborted,
         conn' = [conn EXCEPT ![c] = w]
  PROVE  ConnOK(conn') /\ conn'[c] = w /\ \A d \in Conn : d # c => conn'[d] = conn[d]
BY DEF TypeOK, ConnOK

\* A sequence is one over whatever set its elements are in.
LEMMA SeqElements ==
  ASSUME NEW S, NEW T, NEW s \in Seq(S), \A i \in DOMAIN s : s[i] \in T
  PROVE  s \in Seq(T)
<1>1. Len(s) \in Nat /\ s \in [1 .. Len(s) -> S] /\ DOMAIN s = 1 .. Len(s)
  BY LenProperties
<1>2. s \in [1 .. Len(s) -> T]
  BY <1>1
<1> QED
  BY <1>1, <1>2, SeqDef

\* An abort leaves no run alive, and none that is served.
LEMMA AbortedFacts ==
  ASSUME TypeOK
  PROVE  /\ ConnOK(Aborted)
         /\ \A c \in Conn : /\ Aborted[c].pc = "idle" \/ Aborted[c].aborted
                            /\ Aborted[c].server = "none"
<1>1. ASSUME NEW c \in Conn
      PROVE  /\ Aborted[c] \in ConnState
             /\ Aborted[c].pc = "idle" \/ Aborted[c].aborted
             /\ Aborted[c].server = "none"
  <2>1. conn[c] \in ConnState /\ (conn[c].server # "none" => Live(c))
    BY DEF TypeOK, Live, ConnState
  <2>2. CASE Live(c)
    <3>1. Aborted[c] = [conn[c] EXCEPT !.aborted = TRUE, !.server = "none"]
      BY <2>2 DEF Aborted
    <3> QED
      BY <2>1, <3>1 DEF ConnState
  <2>3. CASE ~Live(c)
    <3>1. Aborted[c] = conn[c]
      BY <2>3 DEF Aborted
    <3> QED
      BY <2>1, <2>3, <3>1 DEF Live
  <2> QED
    BY <2>2, <2>3
<1>2. Aborted \in [Conn -> ConnState]
  <2>1. Aborted = [c \in Conn |-> Aborted[c]]
    BY DEF Aborted
  <2> QED
    BY <1>1, <2>1
<1> QED
  BY <1>1, <1>2 DEF ConnOK

\* A run of connect() that has just begun.
NewRun(r) == [IdleConn EXCEPT !.pc = "fetch", !.run = r, !.from = StoredCursor]

\* A run that is none.
LEMMA IdleFacts ==
  /\ IdleConn \in ConnState /\ IdleConn.wire = <<>> /\ IdleConn.after = 0
  /\ ~IdleConn.aborted /\ IdleConn.server = "none" /\ IdleConn.pc = "idle"
  /\ \A i \in DOMAIN IdleConn.wire : FALSE
BY EmptySeq DEF IdleConn, ConnState

LEMMA NewRunFacts ==
  ASSUME TypeOK, NEW r \in Nat
  PROVE  LET k == NewRun(r) IN
         /\ k \in ConnState
         /\ k.pc = "fetch" /\ k.run = r /\ ~k.aborted /\ k.server = "none"
         /\ k.from = StoredCursor /\ k.after = 0 /\ k.wire = <<>>
<1>1. StoredCursor \in Nat
  BY DEF StoredCursor, TypeOK
<1> QED
  BY <1>1, IdleFacts DEF NewRun, ConnState

\* connect() begins one run, or none without a token.
LEMMA ConnectFacts ==
  ASSUME TypeOK, NEW others, ConnOK(others), NEW r \in Nat, Connect(others, r)
  PROVE  /\ ConnOK(conn') /\ cursor' \in {0, cursor} /\ aged' \in {FALSE, aged}
         /\ \/ /\ ~token' /\ conn' = others /\ UNCHANGED <<cursor, aged>>
            \/ /\ token' /\ cursor' = StoredCursor /\ aged' = FALSE
               /\ \E c \in Conn : /\ others[c].pc = "idle"
                                  /\ conn'[c] = NewRun(r)
                                  /\ \A d \in Conn : d # c => conn'[d] = others[d]
<1>1. StoredCursor \in {0, cursor} /\ StoredCursor \in Nat
  BY DEF StoredCursor, TypeOK
<1>2. CASE ~token' /\ conn' = others /\ UNCHANGED <<cursor, aged>>
  BY <1>2
<1>3. CASE token' /\ cursor' = StoredCursor /\ aged' = FALSE
           /\ LET unused == {c \in Conn : others[c].pc = "idle"} IN
                /\ unused # {}
                /\ conn' = [others EXCEPT ![CHOOSE c \in unused : TRUE] =
                     [IdleConn EXCEPT !.pc = "fetch", !.run = r, !.from = StoredCursor]]
  <2> DEFINE unused == {c \in Conn : others[c].pc = "idle"}
             c == CHOOSE c \in unused : TRUE
  <2>1. c \in unused
    BY <1>3
  <2>2. c \in Conn /\ others[c].pc = "idle"
    BY <2>1
  <2>3. conn' = [others EXCEPT ![c] = NewRun(r)]
    BY <1>3 DEF NewRun
  <2> HIDE DEF c
  <2>4. NewRun(r) \in ConnState /\ NewRun(r).server = "none"
    BY NewRunFacts
  <2>5. conn'[c] = NewRun(r) /\ \A d \in Conn : d # c => conn'[d] = others[d]
    BY <2>2, <2>3 DEF ConnOK
  <2>6. conn' \in [Conn -> ConnState]
    BY <2>3, <2>4 DEF ConnOK
  <2>7. ConnOK(conn')
    BY <2>4, <2>5, <2>6 DEF ConnOK
  <2> QED
    BY <1>1, <1>3, <2>2, <2>5, <2>7
<1>4. \/ ~token' /\ conn' = others /\ UNCHANGED <<cursor, aged>>
      \/ /\ token' /\ cursor' = StoredCursor /\ aged' = FALSE
         /\ LET unused == {c \in Conn : others[c].pc = "idle"} IN
              /\ unused # {}
              /\ conn' = [others EXCEPT ![CHOOSE c \in unused : TRUE] =
                   [IdleConn EXCEPT !.pc = "fetch", !.run = r, !.from = StoredCursor]]
  BY DEF Connect
<1> QED
  BY <1>2, <1>3, <1>4

\* XADD appends; what it trims is owed no longer; what it adds is owed to a tab with a cursor.
LEMMA AddFacts ==
  ASSUME TypeOK, NEW n \in Notification, Add(n)
  PROVE  /\ log' = Append(log, n) /\ log' \in Seq(Notification) /\ Len(log') = Len(log) + 1
         /\ trimmed' \in trimmed .. Len(log')
         /\ owed' \subseteq owed \cup {Len(log')}
         /\ owed' \subseteq trimmed' + 1 .. Len(log')
         /\ Len(log') \in owed' => cursor # 0 /\ ~aged
<1> DEFINE oldest == IF Len(log) + 1 > StreamMaxlen THEN Len(log) + 1 - StreamMaxlen ELSE 0
<1>1. /\ log \in Seq(Notification) /\ trimmed \in 0 .. Len(log) /\ Len(log) \in Nat
      /\ owed \subseteq trimmed + 1 .. Len(log) /\ StreamMaxlen \in Nat \ {0}
  BY UserEventsAssumption DEF TypeOK
<1>2. log' = Append(log, n) /\ log' \in Seq(Notification) /\ Len(log') = Len(log) + 1
  BY <1>1 DEF Add
<1>3. oldest \in 0 .. Len(log) /\ trimmed' = IF oldest > trimmed THEN oldest ELSE trimmed
  BY <1>1 DEF Add
<1> HIDE DEF oldest
<1>4. trimmed' \in trimmed .. Len(log') /\ trimmed' \in Nat
  BY <1>1, <1>2, <1>3
<1>5. owed' = {o \in owed \cup (IF cursor # 0 /\ ~aged THEN {Len(log) + 1} ELSE {}) : o > trimmed'}
  BY DEF Add
<1>6. \A o \in owed : o \in 1 .. Len(log)
  BY <1>1
<1>7. \A o \in owed' : o > trimmed' /\ (o \in owed \/ (o = Len(log) + 1 /\ cursor # 0 /\ ~aged))
  BY <1>5
<1>8. ASSUME NEW o \in owed'
      PROVE  o \in 1 .. Len(log) + 1
  <2>1. CASE o \in owed
    BY <1>1, <1>6, <2>1
  <2>2. CASE o = Len(log) + 1
    BY <1>1, <2>2
  <2> QED
    BY <1>7, <2>1, <2>2
<1>9. owed' \subseteq owed \cup {Len(log')}
  BY <1>2, <1>7
<1>10. owed' \subseteq trimmed' + 1 .. Len(log')
  BY <1>2, <1>4, <1>7, <1>8
<1>11. Len(log') \in owed' => cursor # 0 /\ ~aged
  BY <1>1, <1>2, <1>6, <1>7
<1> QED
  BY <1>2, <1>4, <1>9, <1>10, <1>11

LEMMA PublishFacts ==
  ASSUME TypeOK, NEW n \in Notification, Publish(n)
  PROVE  /\ UNCHANGED <<conn, tabVars, emitted>>
         /\ attempted' \subseteq BillingNotification /\ faults' \in Nat
         /\ UNCHANGED <<log, trimmed, owed>> \/ (~Published(n) /\ Add(n))
<1>1. attempted' = attempted \cup ({n} \cap BillingNotification)
      /\ UNCHANGED <<conn, tabVars, emitted>>
  BY DEF Publish
<1>2. \/ PublishUserEvent(n) /\ UNCHANGED faults
      \/ Fault /\ UNCHANGED <<log, trimmed, owed>>
  BY DEF Publish
<1>3. faults \in Nat /\ attempted \subseteq BillingNotification
  BY DEF TypeOK
<1>4. faults' \in Nat
  BY <1>2, <1>3 DEF Fault
<1>5. attempted' \subseteq BillingNotification
  BY <1>1, <1>3
<1>6. UNCHANGED <<log, trimmed, owed>> \/ (~Published(n) /\ Add(n))
  BY <1>2 DEF PublishUserEvent
<1> QED
  BY <1>1, <1>4, <1>5, <1>6

-----------------------------------------------------------------------------
\* Types

\* An entry that was read and not yet received, by whatever run, is one of the log: a run
\* is served from the stream of its user.
WiresInLog == \A c \in Conn : \A i \in DOMAIN conn[c].wire : conn[c].wire[i] \in 1 .. Len(log)

Types == TypeOK /\ WiresInLog

\* What a batch is.
LEMMA BatchFacts ==
  ASSUME TypeOK, NEW id \in Nat, Available(id) > 0
  PROVE  /\ First(id) \in Nat /\ First(id) >= id /\ Available(id) \in Nat
         /\ Len(Batch(id)) \in 1 .. Available(id)
         /\ DOMAIN Batch(id) = 1 .. Len(Batch(id))
         /\ \A i \in DOMAIN Batch(id) : Batch(id)[i] = First(id) + i
         /\ First(id) + Available(id) = Len(log)
         /\ Batch(id) \in Seq(1 .. Len(log))
         /\ Batch(id)[Len(Batch(id))] = First(id) + Len(Batch(id))
<1> DEFINE l == IF Available(id) < ReadCount THEN Available(id) ELSE ReadCount
<1>1. First(id) \in Nat /\ Len(log) \in Nat /\ ReadCount \in Nat \ {0} /\ First(id) >= id
  BY UserEventsAssumption DEF First, TypeOK
<1>2. Available(id) = Len(log) - First(id) /\ Available(id) \in Nat
  BY <1>1 DEF Available
<1>3. l \in 1 .. Available(id)
  BY <1>1, <1>2
<1>4. Batch(id) = [i \in 1 .. l |-> First(id) + i]
  BY DEF Batch
<1> HIDE DEF l
<1>5. \A i \in 1 .. l : First(id) + i \in 1 .. Len(log)
  BY <1>1, <1>2, <1>3
<1>6. Batch(id) \in Seq(1 .. Len(log)) /\ Len(Batch(id)) = l
  BY <1>3, <1>4, <1>5
<1> QED
  BY <1>1, <1>2, <1>3, <1>4, <1>6
\* A run whose wire only shrank is one of the log's still.
LEMMA WireUpdate ==
  ASSUME Types, NEW c \in Conn, NEW w \in ConnState,
         w.server # "none" => w.pc = "open" /\ ~w.aborted,
         \A i \in DOMAIN w.wire : w.wire[i] \in 1 .. Len(log),
         conn' = [conn EXCEPT ![c] = w], log' = log
  PROVE  ConnOK(conn') /\ WiresInLog'
<1>1. ConnOK(conn') /\ conn'[c] = w /\ \A d \in Conn : d # c => conn'[d] = conn[d]
  BY ConnUpdate DEF Types
<1>2. ASSUME NEW d \in Conn, NEW i \in DOMAIN conn'[d].wire
      PROVE  conn'[d].wire[i] \in 1 .. Len(log)
  <2>1. CASE d = c
    BY <1>1, <2>1
  <2>2. CASE d # c
    BY <1>1, <2>2 DEF Types, WiresInLog
  <2> QED
    BY <2>1, <2>2
<1> QED
  BY <1>1, <1>2 DEF WiresInLog

\* An abort keeps the wires, and connect() adds an empty one.
LEMMA WireAborted ==
  ASSUME Types
  PROVE  \A c \in Conn : \A i \in DOMAIN Aborted[c].wire : Aborted[c].wire[i] \in 1 .. Len(log)
<1> SUFFICES ASSUME NEW c \in Conn
             PROVE  Aborted[c].wire = conn[c].wire
  BY DEF Types, WiresInLog
<1>1. conn[c] \in ConnState
  BY DEF Types, TypeOK
<1>2. Aborted[c] = [conn[c] EXCEPT !.aborted = TRUE, !.server = "none"] \/ Aborted[c] = conn[c]
  BY DEF Aborted
<1> QED
  BY <1>1, <1>2 DEF ConnState

LEMMA WireConnect ==
  ASSUME Types, NEW others, ConnOK(others), NEW r \in Nat, Connect(others, r), log' = log,
         \A c \in Conn : \A i \in DOMAIN others[c].wire : others[c].wire[i] \in 1 .. Len(log)
  PROVE  WiresInLog'
<1> SUFFICES ASSUME NEW c \in Conn, NEW i \in DOMAIN conn'[c].wire
             PROVE  conn'[c].wire[i] \in 1 .. Len(log)
  BY DEF WiresInLog
<1>1. conn'[c] = others[c] \/ conn'[c] = NewRun(r)
  <2>1. TypeOK
    BY DEF Types
  <2> QED
    BY <2>1, ConnectFacts
<1>2. NewRun(r).wire = <<>> /\ DOMAIN NewRun(r).wire = {}
  BY NewRunFacts DEF Types
<1>3. CASE conn'[c] = NewRun(r)
  BY <1>2, <1>3
<1>4. CASE conn'[c] = others[c]
  BY <1>4
<1> QED
  BY <1>1, <1>3, <1>4

\* Types, its conjuncts one by one.
LEMMA TypesElim ==
  ASSUME Types
  PROVE  /\ TypeOK /\ WiresInLog /\ ConnOK(conn)
         /\ log \in Seq(Notification) /\ Len(log) \in Nat
         /\ trimmed \in 0 .. Len(log) /\ attempted \subseteq BillingNotification
         /\ session \in BOOLEAN /\ timer \in BOOLEAN /\ token \in BOOLEAN /\ aged \in BOOLEAN
         /\ run \in Nat /\ cursor \in 0 .. Len(log)
         /\ emitted \in Seq(1 .. Len(log)) /\ owed \subseteq trimmed + 1 .. Len(log)
         /\ faults \in Nat
BY DEF Types, TypeOK, ConnOK

LEMMA TypesIntro ==
  ASSUME WiresInLog', ConnOK(conn'), log' \in Seq(Notification),
         trimmed' \in 0 .. Len(log'), attempted' \subseteq BillingNotification,
         session' \in BOOLEAN, timer' \in BOOLEAN, token' \in BOOLEAN, aged' \in BOOLEAN,
         run' \in Nat, cursor' \in 0 .. Len(log'),
         emitted' \in Seq(1 .. Len(log')), owed' \subseteq trimmed' + 1 .. Len(log'),
         faults' \in Nat
  PROVE  Types'
BY DEF Types, TypeOK, ConnOK

LEMMA TypesSameLog ==
  ASSUME Types, UNCHANGED <<log, trimmed, attempted>>, WiresInLog', ConnOK(conn'),
         session' \in BOOLEAN, timer' \in BOOLEAN, token' \in BOOLEAN, aged' \in BOOLEAN,
         run' \in Nat, cursor' \in 0 .. Len(log),
         emitted' \in Seq(1 .. Len(log)), owed' \subseteq owed, faults' \in Nat
  PROVE  Types'
<1>1. owed' \subseteq trimmed + 1 .. Len(log)
  BY TypesElim
<1> QED
  BY <1>1, TypesElim, TypesIntro

\* The step of an action that changes one run, and of the rest only what is named.
LEMMA TypesServer ==
  ASSUME Types, NEW c \in Conn,
         Read(c) \/ ReadReturns(c) \/ ReadTimesOut(c) \/ StreamFails(c) \/ Returns(c) \/ Responds(c)
  PROVE  Types'
<1> DEFINE k == conn[c]
<1>1. /\ k \in ConnState /\ log \in Seq(Notification) /\ Len(log) \in Nat /\ faults \in Nat
      /\ k.server # "none" => k.pc = "open" /\ ~k.aborted
      /\ \A i \in DOMAIN k.wire : k.wire[i] \in 1 .. Len(log)
  BY DEF Types, TypeOK, WiresInLog
<1>2. \E w \in ConnState :
        /\ w.server # "none" => w.pc = "open" /\ ~w.aborted
        /\ \A i \in DOMAIN w.wire : w.wire[i] \in 1 .. Len(log)
        /\ conn' = [conn EXCEPT ![c] = w]
  <2>1. CASE Read(c)
    <3> DEFINE w == [k EXCEPT !.server = "reading", !.after = IF k.from = 0 THEN Len(log) ELSE k.from]
    <3>1. conn' = [conn EXCEPT ![c] = w] /\ k.server = "ready"
      BY <2>1 DEF Read
    <3>2. w \in ConnState /\ w.pc = k.pc /\ w.aborted = k.aborted /\ w.wire = k.wire
      BY <1>1 DEF ConnState
    <3> QED
      BY <1>1, <3>1, <3>2
  <2>2. CASE ReadReturns(c)
    <3> DEFINE b == Batch(k.after)
               w == [k EXCEPT !.server = "ready", !.from = b[Len(b)], !.wire = @ \o b]
    <3>1. /\ conn' = [conn EXCEPT ![c] = w] /\ k.server = "reading"
          /\ Available(k.after) > 0 /\ k.after \in Nat
      BY <1>1, <2>2 DEF ReadReturns, ConnState
    <3>2. /\ b \in Seq(1 .. Len(log)) /\ b[Len(b)] \in Nat
          /\ \A i \in DOMAIN b : b[i] \in 1 .. Len(log)
      BY <3>1, BatchFacts DEF Types
    <3> HIDE DEF b
    <3>3. k.wire \in Seq(Nat) /\ k.wire \o b \in Seq(Nat)
      BY <1>1, <3>2, SeqMonotonic DEF ConnState
    <3>4. w \in ConnState /\ w.pc = k.pc /\ w.aborted = k.aborted /\ w.wire = k.wire \o b
      BY <1>1, <3>2, <3>3 DEF ConnState
    <3>5. \A i \in DOMAIN (k.wire \o b) : (k.wire \o b)[i] \in 1 .. Len(log)
      <4>1. k.wire \in Seq(1 .. Len(log))
        BY <1>1, <3>3, SeqElements
      <4> HIDE DEF k
      <4>2. k.wire \o b \in Seq(1 .. Len(log))
        BY <3>2, <4>1
      <4> QED
        BY <4>2, LenProperties, ElementOfSeq
    <3> QED
      BY <1>1, <3>1, <3>4, <3>5
  <2>3. CASE ReadTimesOut(c)
    <3> DEFINE w == [k EXCEPT !.server = "ready"]
    <3>1. conn' = [conn EXCEPT ![c] = w] /\ k.server = "reading"
      BY <2>3 DEF ReadTimesOut
    <3>2. w \in ConnState /\ w.pc = k.pc /\ w.aborted = k.aborted /\ w.wire = k.wire
      BY <1>1 DEF ConnState
    <3> QED
      BY <1>1, <3>1, <3>2
  <2>4. CASE StreamFails(c)
    <3>1. PICK wire \in {k.wire, <<>>} :
            conn' = [conn EXCEPT ![c] = [k EXCEPT !.server = "none", !.wire = wire]]
      BY <2>4 DEF StreamFails
    <3> DEFINE w == [k EXCEPT !.server = "none", !.wire = wire]
    <3>a. k.wire \in Seq(Nat) /\ DOMAIN <<>> = {} /\ <<>> \in Seq(Nat)
      BY <1>1, EmptySeq DEF ConnState
    <3>2. wire \in Seq(Nat) /\ \A i \in DOMAIN wire : wire[i] \in 1 .. Len(log)
      BY <1>1, <3>1, <3>a
    <3>3. w \in ConnState /\ w.server = "none" /\ w.wire = wire
      BY <1>1, <3>2 DEF ConnState
    <3>4. conn' = [conn EXCEPT ![c] = w]
      BY <3>1
    <3> HIDE DEF w
    <3> QED
      BY <3>2, <3>3, <3>4
  <2>5. CASE Returns(c)
    <3>1. conn' = [conn EXCEPT ![c] = IdleConn]
      BY <2>5 DEF Returns
    <3> QED
      BY <3>1, IdleFacts
  <2>6. CASE Responds(c)
    <3> DEFINE w == [k EXCEPT !.pc = "open", !.server = "ready"]
    <3>1. conn' = [conn EXCEPT ![c] = w] /\ ~k.aborted
      BY <2>6 DEF Responds, Live
    <3>2. w \in ConnState /\ w.pc = "open" /\ ~w.aborted /\ w.wire = k.wire
      BY <1>1, <3>1 DEF ConnState
    <3> QED
      BY <1>1, <3>1, <3>2
  <2> QED
    BY <2>1, <2>2, <2>3, <2>4, <2>5, <2>6
<1>3. UNCHANGED <<log, trimmed, attempted, session, run, timer, token, cursor, aged, emitted, owed>>
      /\ faults' \in Nat
  <2>1. CASE StreamFails(c)
    BY <1>1, <2>1 DEF streamVars, tabVars, StreamFails, Fault
  <2>2. CASE Read(c) \/ ReadReturns(c) \/ ReadTimesOut(c)
    BY <1>1, <2>2 DEF streamVars, tabVars, Read, ReadReturns, ReadTimesOut
  <2>3. CASE Returns(c) \/ Responds(c)
    BY <1>1, <2>3 DEF streamVars, tabVars, Returns, Responds
  <2> QED
    BY <2>1, <2>2, <2>3
<1>4. ConnOK(conn') /\ WiresInLog'
  BY <1>2, <1>3, WireUpdate
<1> QED
  BY <1>3, <1>4, TypesElim, TypesIntro

\* Every reachable state is well typed.
LEMMA TypesInductive == Types /\ [Next]_vars => Types'
<1> SUFFICES ASSUME Types, [Next]_vars
             PROVE  Types'
  OBVIOUS
<1>0. /\ TypeOK /\ WiresInLog /\ ConnOK(conn)
      /\ log \in Seq(Notification) /\ Len(log) \in Nat
      /\ trimmed \in 0 .. Len(log) /\ attempted \subseteq BillingNotification
      /\ session \in BOOLEAN /\ timer \in BOOLEAN /\ token \in BOOLEAN /\ aged \in BOOLEAN
      /\ run \in Nat /\ cursor \in 0 .. Len(log)
      /\ emitted \in Seq(1 .. Len(log)) /\ owed \subseteq trimmed + 1 .. Len(log)
      /\ faults \in Nat
  BY TypesElim
<1>1. CASE UNCHANGED vars
  BY <1>1 DEF vars, streamVars, tabVars, Types, TypeOK, WiresInLog
<1>2. ASSUME NEW n \in Notification, Publish(n)
      PROVE  Types'
  <2>1. /\ UNCHANGED <<conn, tabVars, emitted>>
        /\ attempted' \subseteq BillingNotification /\ faults' \in Nat
    BY <1>0, <1>2, PublishFacts
  <2>2. CASE UNCHANGED <<log, trimmed, owed>>
    BY <1>0, <2>1, <2>2, TypesIntro DEF WiresInLog, tabVars
  <2>3. CASE ~Published(n) /\ Add(n)
    <3>1. /\ log' \in Seq(Notification) /\ Len(log') = Len(log) + 1
          /\ trimmed' \in trimmed .. Len(log') /\ owed' \subseteq trimmed' + 1 .. Len(log')
      BY <1>0, <2>3, AddFacts
    <3>2. trimmed \in Nat /\ emitted \in Seq(1 .. Len(log)) /\ cursor \in 0 .. Len(log)
      BY <1>0 DEF TypeOK
    <3>3. 1 .. Len(log) \subseteq 1 .. Len(log')
      BY <1>0, <3>1
    <3>4. emitted' \in Seq(1 .. Len(log'))
      BY <2>1, <3>2, <3>3, SeqMonotonic
    <3>5. cursor' \in 0 .. Len(log') /\ trimmed' \in 0 .. Len(log')
      BY <1>0, <2>1, <3>1, <3>2 DEF tabVars
    <3>6. WiresInLog'
      BY <1>0, <2>1, <3>3 DEF WiresInLog
    <3> QED
      BY <1>0, <2>1, <3>1, <3>4, <3>5, <3>6, TypesIntro DEF tabVars
  <2> QED
    BY <1>0, <1>2, <2>2, <2>3, PublishFacts
<1>3. CASE DeleteUserStream
  BY <1>0, <1>3, TypesIntro DEF DeleteUserStream, Fault, WiresInLog, tabVars
<1>4. ASSUME NEW c \in Conn, ServerStep(c) \/ Returns(c) \/ Responds(c) \/ StreamFails(c)
      PROVE  Types'
  BY <1>4, TypesServer DEF ServerStep
<1>5. /\ IdleConn \in ConnState /\ IdleConn.server = "none"
      /\ \A i \in DOMAIN IdleConn.wire : IdleConn.wire[i] \in 1 .. Len(log)
  BY IdleFacts
<1>6. ASSUME NEW c \in Conn, Unauthorized(c)
      PROVE  Types'
  <2>1. /\ conn' = [conn EXCEPT ![c] = IdleConn] /\ session' = FALSE /\ run' = run + 1
        /\ timer' = FALSE /\ UNCHANGED <<log, trimmed, attempted, token, cursor, aged, emitted, owed>>
        /\ faults' \in Nat
    BY <1>0, <1>6 DEF Unauthorized, Shutdown, Fault, streamVars
  <2>2. ConnOK(conn') /\ WiresInLog'
    BY <1>5, <2>1, WireUpdate
  <2>3. session' \in BOOLEAN /\ timer' \in BOOLEAN
    BY <2>1, Zenon
  <2>4. run' \in Nat
    BY <1>0, <2>1
  <2> QED
    BY <1>0, <2>1, <2>2, <2>3, <2>4, TypesSameLog
<1>7. ASSUME NEW c \in Conn, Unavailable(c) \/ Ended(c)
      PROVE  Types'
  <2>1. /\ conn' = [conn EXCEPT ![c] = IdleConn] /\ timer' \in BOOLEAN /\ faults' \in Nat
        /\ UNCHANGED <<log, trimmed, attempted, session, run, token, cursor, aged, emitted, owed>>
    BY <1>0, <1>7 DEF Unavailable, Ended, Reconnect, Fault, streamVars
  <2>2. ConnOK(conn') /\ WiresInLog'
    BY <1>5, <2>1, WireUpdate
  <2> QED
    BY <1>0, <2>1, <2>2, TypesIntro
<1>8. ASSUME NEW c \in Conn, Receive(c)
      PROVE  Types'
  <2> DEFINE k == conn[c]
             e == Head(k.wire)
             w == [k EXCEPT !.wire = Tail(@)]
  <2>1. /\ k \in ConnState /\ k.wire \in Seq(Nat) /\ k.wire # <<>>
        /\ k.server # "none" => k.pc = "open" /\ ~k.aborted
        /\ \A i \in DOMAIN k.wire : k.wire[i] \in 1 .. Len(log)
    BY <1>0, <1>8 DEF TypeOK, WiresInLog, Receive, ConnState
  <2>2. /\ conn' = [conn EXCEPT ![c] = w] /\ cursor' = e /\ aged' = FALSE
        /\ emitted' = Append(emitted, e) /\ owed' = owed \ {e}
        /\ UNCHANGED <<log, trimmed, attempted, session, run, timer, token, faults>>
    BY <1>8 DEF Receive, streamVars
  <2>3. k.wire \in Seq(1 .. Len(log))
    BY <2>1, SeqElements
  <2>4. e \in 1 .. Len(log) /\ Tail(k.wire) \in Seq(1 .. Len(log)) /\ Tail(k.wire) \in Seq(Nat)
    BY <2>1, <2>3, HeadTailProperties
  <2>5. w \in ConnState /\ w.wire = Tail(k.wire) /\ w.server = k.server /\ w.pc = k.pc
        /\ w.aborted = k.aborted
    BY <2>1, <2>4 DEF ConnState
  <2>6. \A i \in DOMAIN w.wire : w.wire[i] \in 1 .. Len(log)
    <3> HIDE DEF w, k
    <3>1. w.wire \in Seq(1 .. Len(log))
      BY <2>4, <2>5
    <3>2. DOMAIN w.wire = 1 .. Len(w.wire)
      BY <3>1, LenProperties
    <3> QED
      BY <3>1, <3>2, ElementOfSeq
  <2> HIDE DEF w, k, e
  <2>7. ConnOK(conn') /\ WiresInLog'
    BY <2>1, <2>2, <2>5, <2>6, WireUpdate
  <2>8. emitted' \in Seq(1 .. Len(log'))
    BY <1>0, <2>2, <2>4 DEF TypeOK
  <2>9. aged' \in BOOLEAN
    BY <2>2, Zenon
  <2>10. cursor' \in 0 .. Len(log) /\ owed' \subseteq owed
    BY <1>0, <2>2, <2>4
  <2> QED
    BY <1>0, <2>2, <2>7, <2>8, <2>9, <2>10, TypesSameLog
<1>9. CASE Retain
  <2>1. /\ Connect(Aborted, run + 1) /\ session' = TRUE /\ run' = run + 1 /\ timer' = FALSE
        /\ token' = TRUE /\ UNCHANGED <<log, trimmed, attempted, emitted, owed, faults>>
    BY <1>9 DEF Retain, streamVars
  <2>2. ConnOK(conn') /\ cursor' \in {0, cursor} /\ aged' \in {FALSE, aged}
    <3>1. ConnOK(Aborted) /\ run + 1 \in Nat
      BY <1>0, AbortedFacts
    <3> QED
      BY <1>0, <2>1, <3>1, ConnectFacts
  <2>3. WiresInLog'
    <3>1. ConnOK(Aborted) /\ run + 1 \in Nat
      BY <1>0, AbortedFacts
    <3> QED
      BY <2>1, <3>1, WireAborted, WireConnect
  <2>4. session' \in BOOLEAN /\ timer' \in BOOLEAN /\ token' \in BOOLEAN /\ aged' \in BOOLEAN
    BY <1>0, <2>1, <2>2, Zenon
  <2>5. cursor' \in 0 .. Len(log) /\ run' \in Nat
    BY <1>0, <2>1, <2>2
  <2> QED
    BY <1>0, <2>1, <2>2, <2>3, <2>4, <2>5, TypesSameLog
<1>10. CASE Release
  <2>1. /\ conn' = Aborted /\ session' = FALSE /\ run' = run + 1 /\ timer' = FALSE
        /\ UNCHANGED <<log, trimmed, attempted, token, cursor, aged, emitted, owed, faults>>
    BY <1>10 DEF Release, Shutdown, streamVars
  <2>2. ConnOK(conn') /\ WiresInLog'
    BY <1>0, <2>1, AbortedFacts, WireAborted DEF WiresInLog
  <2>3. session' \in BOOLEAN /\ timer' \in BOOLEAN
    BY <2>1, Zenon
  <2>4. run' \in Nat
    BY <1>0, <2>1
  <2> QED
    BY <1>0, <2>1, <2>2, <2>3, <2>4, TypesSameLog
<1>11. CASE LogOut \/ CursorAges
  <2>1. /\ token' \in BOOLEAN /\ cursor' \in {0, cursor} /\ aged' \in BOOLEAN
        /\ owed' \subseteq owed
        /\ UNCHANGED <<log, trimmed, attempted, conn, session, run, timer, emitted, faults>>
    BY <1>0, <1>11 DEF LogOut, CursorAges, streamVars
  <2> QED
    BY <1>0, <2>1, TypesIntro DEF WiresInLog
<1>12. CASE TimerFires
  <2>1. /\ Connect(conn, run) /\ timer' = FALSE /\ UNCHANGED token
        /\ UNCHANGED <<log, trimmed, attempted, session, run, emitted, owed, faults>>
    BY <1>12 DEF TimerFires, streamVars
  <2>2. ConnOK(conn') /\ cursor' \in {0, cursor} /\ aged' \in {FALSE, aged}
    BY <1>0, <2>1, ConnectFacts
  <2>3. WiresInLog'
    BY <1>0, <2>1, WireConnect DEF WiresInLog
  <2>4. timer' \in BOOLEAN /\ aged' \in BOOLEAN
    BY <1>0, <2>1, <2>2, Zenon
  <2>5. cursor' \in 0 .. Len(log)
    BY <1>0, <2>2
  <2> QED
    BY <1>0, <2>1, <2>2, <2>3, <2>4, <2>5, TypesSameLog
<1> QED
  BY <1>1, <1>2, <1>3, <1>4, <1>6, <1>7, <1>8, <1>9, <1>10, <1>11, <1>12
     DEF Next, ServerStep, ClientStep

LEMMA TypesCorrect == Spec => []Types
<1>1. Init => Types
  <2> SUFFICES ASSUME Init
               PROVE  Types
    OBVIOUS
  <2>1. conn = [c \in Conn |-> IdleConn] /\ faults \in Nat
    BY UserEventsAssumption DEF Init
  <2>2. WiresInLog /\ ConnOK(conn)
    BY <2>1, IdleFacts DEF WiresInLog, ConnOK
  <2>3. log \in Seq(Notification) /\ Len(log) = 0 /\ emitted \in Seq(1 .. Len(log))
    BY EmptySeq DEF Init
  <2>4. {session, timer, token, aged} \subseteq BOOLEAN
    BY Zenon DEF Init
  <2>5. /\ trimmed \in 0 .. Len(log) /\ attempted \subseteq BillingNotification
        /\ run \in Nat /\ cursor \in 0 .. Len(log) /\ owed \subseteq trimmed + 1 .. Len(log)
    BY <2>3 DEF Init
  <2> QED
    BY <2>1, <2>2, <2>3, <2>4, <2>5 DEF Types, TypeOK, ConnOK
<1> QED
  BY <1>1, TypesInductive, PTL DEF Spec

THEOREM TypeCorrect == Spec => []TypeOK
<1>1. Types => TypeOK
  BY DEF Types
<1> QED
  BY <1>1, TypesCorrect, PTL
-----------------------------------------------------------------------------
\* One connection

\* One run of connect() is alive or the timer for the next is running, never both or two:
\* of the session, and started with its runId.
Single ==
  /\ \A c, d \in Conn : Live(c) /\ Live(d) => c = d
  /\ \A c \in Conn : Live(c) => session /\ ~timer /\ conn[c].run = run
  /\ timer => session
  /\ session /\ token => timer \/ \E c \in Conn : Live(c)

\* Most steps of a run leave alive what was alive.
LEMMA SameLive ==
  ASSUME Single, UNCHANGED <<session, run, timer>>, token' => token,
         \A c \in Conn : (Live(c)' <=> Live(c)) /\ (Live(c) => conn'[c].run = conn[c].run)
  PROVE  Single'
BY DEF Single

\* What the steps do to the record of a run, field by field.
SameRun(c) ==
  /\ conn'[c].pc = conn[c].pc /\ conn'[c].aborted = conn[c].aborted
  /\ conn'[c].run = conn[c].run
  /\ \A d \in Conn : d # c => conn'[d] = conn[d]

LEMMA ReadFacts ==
  ASSUME Types, NEW c \in Conn, Read(c)
  PROVE  /\ SameRun(c) /\ conn[c].server = "ready" /\ conn'[c].server = "reading"
         /\ conn'[c].from = conn[c].from /\ conn'[c].wire = conn[c].wire
         /\ conn'[c].after = IF conn[c].from = 0 THEN Len(log) ELSE conn[c].from
<1> DEFINE k == conn[c]
           a == IF k.from = 0 THEN Len(log) ELSE k.from
           w == [k EXCEPT !.server = "reading", !.after = a]
<1>1. k \in ConnState /\ conn \in [Conn -> ConnState]
  BY TypesElim DEF ConnOK
<1>2. conn' = [conn EXCEPT ![c] = w] /\ k.server = "ready"
  BY DEF Read
<1> HIDE DEF a
<1>3. /\ w.pc = k.pc /\ w.aborted = k.aborted /\ w.run = k.run /\ w.server = "reading"
      /\ w.from = k.from /\ w.wire = k.wire /\ w.after = a
  BY <1>1 DEF ConnState
<1> HIDE DEF w
<1>4. conn'[c] = w /\ \A d \in Conn : d # c => conn'[d] = conn[d]
  BY <1>1, <1>2
<1> QED
  BY <1>2, <1>3, <1>4 DEF SameRun, a

LEMMA ReadReturnsFacts ==
  ASSUME Types, NEW c \in Conn, ReadReturns(c)
  PROVE  LET b == Batch(conn[c].after) IN
         /\ SameRun(c) /\ conn[c].server = "reading" /\ conn'[c].server = "ready"
         /\ Available(conn[c].after) > 0
         /\ conn'[c].from = b[Len(b)] /\ conn'[c].wire = conn[c].wire \o b
         /\ conn'[c].after = conn[c].after
<1> DEFINE k == conn[c]
           b == Batch(k.after)
           w == [k EXCEPT !.server = "ready", !.from = b[Len(b)], !.wire = @ \o b]
<1>1. k \in ConnState /\ conn \in [Conn -> ConnState]
  BY TypesElim DEF ConnOK
<1>2. conn' = [conn EXCEPT ![c] = w] /\ k.server = "reading" /\ Available(k.after) > 0
  BY DEF ReadReturns
<1> HIDE DEF b
<1>3. /\ w.pc = k.pc /\ w.aborted = k.aborted /\ w.run = k.run /\ w.server = "ready"
      /\ w.from = b[Len(b)] /\ w.wire = k.wire \o b /\ w.after = k.after
  BY <1>1 DEF ConnState
<1> HIDE DEF w
<1>4. conn'[c] = w /\ \A d \in Conn : d # c => conn'[d] = conn[d]
  BY <1>1, <1>2
<1> QED
  BY <1>2, <1>3, <1>4 DEF SameRun, b

LEMMA ReadTimesOutFacts ==
  ASSUME Types, NEW c \in Conn, ReadTimesOut(c)
  PROVE  /\ SameRun(c) /\ conn[c].server = "reading" /\ conn'[c].server = "ready"
         /\ conn'[c].from = conn[c].from /\ conn'[c].wire = conn[c].wire
         /\ conn'[c].after = conn[c].after /\ Available(conn[c].after) = 0
<1> DEFINE k == conn[c]
           w == [k EXCEPT !.server = "ready"]
<1>1. k \in ConnState /\ conn \in [Conn -> ConnState]
  BY TypesElim DEF ConnOK
<1>2. conn' = [conn EXCEPT ![c] = w] /\ k.server = "reading" /\ Available(k.after) = 0
  BY DEF ReadTimesOut
<1>3. /\ w.pc = k.pc /\ w.aborted = k.aborted /\ w.run = k.run /\ w.server = "ready"
      /\ w.from = k.from /\ w.wire = k.wire /\ w.after = k.after
  BY <1>1 DEF ConnState
<1> HIDE DEF w
<1>4. conn'[c] = w /\ \A d \in Conn : d # c => conn'[d] = conn[d]
  BY <1>1, <1>2
<1> QED
  BY <1>2, <1>3, <1>4 DEF SameRun

LEMMA StreamFailsFacts ==
  ASSUME Types, NEW c \in Conn, StreamFails(c)
  PROVE  /\ SameRun(c) /\ conn[c].server # "none" /\ conn'[c].server = "none"
         /\ conn'[c].from = conn[c].from /\ conn'[c].wire \in {conn[c].wire, <<>>}
         /\ conn'[c].after = conn[c].after
<1> DEFINE k == conn[c]
<1>1. k \in ConnState /\ conn \in [Conn -> ConnState]
  BY TypesElim DEF ConnOK
<1>2. PICK wire \in {k.wire, <<>>} :
        conn' = [conn EXCEPT ![c] = [k EXCEPT !.server = "none", !.wire = wire]]
  BY DEF StreamFails
<1> DEFINE w == [k EXCEPT !.server = "none", !.wire = wire]
<1>3. /\ w.pc = k.pc /\ w.aborted = k.aborted /\ w.run = k.run /\ w.server = "none"
      /\ w.from = k.from /\ w.wire = wire /\ w.after = k.after
  BY <1>1 DEF ConnState
<1>4. k.server # "none" /\ conn' = [conn EXCEPT ![c] = w]
  BY <1>2 DEF StreamFails
<1> HIDE DEF w
<1>5. conn'[c] = w /\ \A d \in Conn : d # c => conn'[d] = conn[d]
  BY <1>1, <1>4
<1> QED
  BY <1>2, <1>3, <1>4, <1>5 DEF SameRun

LEMMA ReceiveFacts ==
  ASSUME Types, NEW c \in Conn, Receive(c)
  PROVE  /\ SameRun(c) /\ conn[c].wire # <<>> /\ conn'[c].server = conn[c].server
         /\ conn'[c].from = conn[c].from /\ conn'[c].wire = Tail(conn[c].wire)
         /\ conn'[c].after = conn[c].after
<1> DEFINE k == conn[c]
           w == [k EXCEPT !.wire = Tail(@)]
<1>1. k \in ConnState /\ conn \in [Conn -> ConnState]
  BY TypesElim DEF ConnOK
<1>2. conn' = [conn EXCEPT ![c] = w] /\ k.wire # <<>>
  BY DEF Receive
<1>3. /\ w.pc = k.pc /\ w.aborted = k.aborted /\ w.run = k.run /\ w.server = k.server
      /\ w.from = k.from /\ w.wire = Tail(k.wire) /\ w.after = k.after
  BY <1>1 DEF ConnState
<1> HIDE DEF w
<1>4. conn'[c] = w /\ \A d \in Conn : d # c => conn'[d] = conn[d]
  BY <1>1, <1>2
<1> QED
  BY <1>2, <1>3, <1>4 DEF SameRun

LEMMA RespondsFacts ==
  ASSUME Types, NEW c \in Conn, Responds(c)
  PROVE  /\ conn[c].pc = "fetch" /\ conn'[c].pc = "open" /\ conn'[c].server = "ready"
         /\ conn'[c].aborted = conn[c].aborted /\ conn'[c].run = conn[c].run
         /\ conn'[c].from = conn[c].from /\ conn'[c].wire = conn[c].wire
         /\ conn'[c].after = conn[c].after
         /\ \A d \in Conn : d # c => conn'[d] = conn[d]
<1> DEFINE k == conn[c]
           w == [k EXCEPT !.pc = "open", !.server = "ready"]
<1>1. k \in ConnState /\ conn \in [Conn -> ConnState]
  BY TypesElim DEF ConnOK
<1>2. conn' = [conn EXCEPT ![c] = w] /\ k.pc = "fetch"
  BY DEF Responds
<1>3. /\ w.pc = "open" /\ w.aborted = k.aborted /\ w.run = k.run /\ w.server = "ready"
      /\ w.from = k.from /\ w.wire = k.wire /\ w.after = k.after
  BY <1>1 DEF ConnState
<1> HIDE DEF w
<1>4. conn'[c] = w /\ \A d \in Conn : d # c => conn'[d] = conn[d]
  BY <1>1, <1>2
<1> QED
  BY <1>2, <1>3, <1>4

\* They leave alive what was alive.
LEMMA StepLive ==
  ASSUME Types, NEW c \in Conn,
         ServerStep(c) \/ StreamFails(c) \/ Responds(c) \/ Returns(c) \/ Receive(c)
  PROVE  /\ UNCHANGED <<session, run, timer, token>>
         /\ \A d \in Conn : (Live(d)' <=> Live(d)) /\ (Live(d) => conn'[d].run = conn[d].run)
<1>0. conn \in [Conn -> ConnState]
  BY TypesElim DEF ConnOK
<1>1. CASE ServerStep(c) \/ StreamFails(c) \/ Receive(c)
  <2>1. SameRun(c)
    BY <1>1, ReadFacts, ReadReturnsFacts, ReadTimesOutFacts, StreamFailsFacts, ReceiveFacts
       DEF ServerStep
  <2>2. UNCHANGED <<session, run, timer, token>>
    BY <1>1 DEF ServerStep, Read, ReadReturns, ReadTimesOut, StreamFails, Receive, tabVars
  <2> QED
    BY <2>1, <2>2 DEF Live, SameRun
<1>2. CASE Responds(c)
  <2>1. UNCHANGED <<session, run, timer, token>>
    BY <1>2 DEF Responds, tabVars
  <2> QED
    BY <1>2, <2>1, RespondsFacts DEF Live
<1>3. CASE Returns(c)
  <2>1. conn' = [conn EXCEPT ![c] = IdleConn] /\ conn[c].aborted
        /\ UNCHANGED <<session, run, timer, token>>
    BY <1>3 DEF Returns, tabVars
  <2> QED
    BY <1>0, <2>1, IdleFacts DEF Live
<1> QED
  BY <1>1, <1>2, <1>3

\* connect() makes the run alive that it begins.
LEMMA ConnectLive ==
  ASSUME Types, NEW others, ConnOK(others), NEW r \in Nat, Connect(others, r),
         \A c \in Conn : others[c].pc = "idle" \/ others[c].aborted
  PROVE  /\ \A c, d \in Conn : Live(c)' /\ Live(d)' => c = d
         /\ \A c \in Conn : Live(c)' => token' /\ conn'[c] = NewRun(r) /\ conn'[c].run = r
         /\ token' => \E c \in Conn : Live(c)'
<1>1. TypeOK
  BY TypesElim
<1>2. NewRun(r).pc = "fetch" /\ ~NewRun(r).aborted /\ NewRun(r).run = r
  BY <1>1, NewRunFacts
<1>3. CASE ~token' /\ conn' = others
  BY <1>3 DEF Live
<1>4. CASE token' /\ \E c \in Conn : /\ others[c].pc = "idle"
                                     /\ conn'[c] = NewRun(r)
                                     /\ \A d \in Conn : d # c => conn'[d] = others[d]
  BY <1>2, <1>4 DEF Live
<1> QED
  BY <1>1, <1>3, <1>4, ConnectFacts

LEMMA SingleInductive == Types /\ Single /\ [Next]_vars => Single'
<1> SUFFICES ASSUME Types, Single, [Next]_vars
             PROVE  Single'
  OBVIOUS
<1>0. /\ ConnOK(conn) /\ TypeOK /\ run \in Nat /\ run + 1 \in Nat
      /\ conn \in [Conn -> ConnState]
  BY TypesElim DEF ConnOK
<1>1. CASE UNCHANGED vars
  BY <1>1 DEF vars, tabVars, Single, Live
<1>2. CASE (\E n \in Notification : Publish(n)) \/ DeleteUserStream \/ CursorAges
  <2>1. UNCHANGED <<conn, session, run, timer, token>>
    BY <1>2 DEF Publish, DeleteUserStream, CursorAges, tabVars
  <2> QED
    BY <2>1 DEF Single, Live
<1>3. CASE LogOut
  <2>1. UNCHANGED <<conn, session, run, timer>> /\ ~token'
    BY <1>3 DEF LogOut
  <2> QED
    BY <2>1 DEF Single, Live
<1>4. ASSUME NEW c \in Conn,
             ServerStep(c) \/ StreamFails(c) \/ Responds(c) \/ Returns(c) \/ Receive(c)
      PROVE  Single'
  BY <1>4, StepLive, SameLive
<1>5. ASSUME NEW c \in Conn, Live(c), conn' = [conn EXCEPT ![c] = IdleConn]
      PROVE  \A d \in Conn : ~Live(d)'
  BY <1>0, <1>5, IdleFacts DEF Single, Live
<1>6. ASSUME NEW c \in Conn, Unauthorized(c)
      PROVE  Single'
  <2>1. /\ Live(c) /\ conn' = [conn EXCEPT ![c] = IdleConn]
        /\ session' = FALSE /\ timer' = FALSE
    BY <1>6 DEF Unauthorized, Shutdown
  <2> QED
    BY <1>5, <2>1 DEF Single
<1>7. ASSUME NEW c \in Conn, Unavailable(c) \/ Ended(c)
      PROVE  Single'
  <2>1. /\ Live(c) /\ conn' = [conn EXCEPT ![c] = IdleConn]
        /\ timer' = (timer \/ (session /\ conn[c].run = run))
        /\ UNCHANGED <<session, token>>
    BY <1>7 DEF Unavailable, Ended, Reconnect
  <2>2. session /\ conn[c].run = run
    BY <2>1 DEF Single
  <2>3. timer' /\ session'
    BY <2>1, <2>2
  <2> QED
    BY <1>5, <2>1, <2>3 DEF Single
<1>8. CASE Retain
  <2>1. /\ Connect(Aborted, run + 1) /\ session' = TRUE /\ run' = run + 1 /\ timer' = FALSE
    BY <1>8 DEF Retain
  <2>2. /\ \A c, d \in Conn : Live(c)' /\ Live(d)' => c = d
        /\ \A c \in Conn : Live(c)' => conn'[c].run = run + 1
        /\ token' => \E c \in Conn : Live(c)'
    BY <1>0, <2>1, AbortedFacts, ConnectLive
  <2> QED
    BY <2>1, <2>2 DEF Single
<1>9. CASE Release
  <2>1. conn' = Aborted /\ session' = FALSE /\ timer' = FALSE
    BY <1>9 DEF Release, Shutdown
  <2>2. \A c \in Conn : ~Live(c)'
    BY <1>0, <2>1, AbortedFacts DEF Live
  <2> QED
    BY <2>1, <2>2 DEF Single
<1>10. CASE TimerFires
  <2>1. /\ Connect(conn, run) /\ timer /\ timer' = FALSE /\ UNCHANGED <<token, session, run>>
    BY <1>10 DEF TimerFires
  <2>2. \A c \in Conn : conn[c].pc = "idle" \/ conn[c].aborted
    BY <2>1 DEF Single, Live
  <2>3. /\ \A c, d \in Conn : Live(c)' /\ Live(d)' => c = d
        /\ \A c \in Conn : Live(c)' => conn'[c].run = run
        /\ token' => \E c \in Conn : Live(c)'
    BY <1>0, <2>1, <2>2, ConnectLive
  <2> QED
    BY <2>1, <2>3 DEF Single
<1> QED
  BY <1>1, <1>2, <1>3, <1>4, <1>6, <1>7, <1>8, <1>9, <1>10 DEF Next, ClientStep

LEMMA SingleCorrect == Spec => []Single
<1>1. Init => Single
  BY IdleFacts DEF Init, Single, Live
<1> QED
  BY <1>1, SingleInductive, TypesCorrect, PTL DEF Spec

\* OneConnection of every reachable state.
THEOREM OneConnectionCorrect == Spec => []OneConnection
<1>1. Single => OneConnection
  <2> SUFFICES ASSUME Single
               PROVE  OneConnection
    OBVIOUS
  <2> DEFINE L == {c \in Conn : Live(c)}
  <2>1. CASE L = {}
    <3>1. Cardinality(L) = 0
      BY <2>1, FS_EmptySet
    <3>2. session /\ token => timer
      BY <2>1 DEF Single
    <3> HIDE DEF L
    <3>3. OneConnection <=> LET alive == Cardinality(L) + (IF timer THEN 1 ELSE 0) IN
                              alive <= 1 /\ (session /\ token => alive = 1)
      BY DEF OneConnection, L
    <3> QED
      BY <3>1, <3>2, <3>3
  <2>2. CASE L # {}
    <3>1. PICK c \in Conn : L = {c}
      BY <2>2 DEF Single
    <3>2. Cardinality(L) = 1 /\ ~timer
      BY <3>1, FS_Singleton DEF Single
    <3> HIDE DEF L
    <3>3. OneConnection <=> LET alive == Cardinality(L) + (IF timer THEN 1 ELSE 0) IN
                              alive <= 1 /\ (session /\ token => alive = 1)
      BY DEF OneConnection, L
    <3> QED
      BY <3>2, <3>3
  <2> QED
    BY <2>1, <2>2
<1> QED
  BY <1>1, SingleCorrect, PTL
-----------------------------------------------------------------------------
\* The promise to a tab

\* The cursor is the last entry received, and what is owed is later than the cursor.
Claims ==
  /\ \A i \in DOMAIN emitted : cursor # 0 => emitted[i] <= cursor
  /\ \A o \in owed : cursor # 0 /\ ~aged /\ o > cursor

\* The response of this run is still to come, or it has a generator.
Serves(k) == k.pc = "fetch" \/ k.server # "none"

\* A run's position, and what was read for it, are of the log; without a position the tab
\* has no cursor.
Placed(k) ==
  /\ k.from \in 0 .. Len(log) /\ k.after \in 0 .. Len(log)
  /\ k.wire \in Seq(1 .. Len(log))
  /\ k.from = 0 => cursor = 0 /\ k.wire = <<>>

\* The listeners know nothing later than the position, and nothing of what is on its way.
Ahead(k) ==
  \A j \in DOMAIN emitted :
    /\ k.from # 0 => emitted[j] <= k.from
    /\ \A i \in DOMAIN k.wire : emitted[j] < k.wire[i]

\* That is in order, up to the position.
Ascending(k) ==
  \A i \in DOMAIN k.wire : k.wire[i] <= k.from /\ \A j \in 1 .. i - 1 : k.wire[j] < k.wire[i]

\* What is owed is on its way before any later entry, or later than the position.
Complete(k) ==
  \A o \in owed :
    /\ \A i \in DOMAIN k.wire : o < k.wire[i] => \E j \in 1 .. i - 1 : k.wire[j] = o
    /\ Serves(k) /\ o <= k.from => \E i \in DOMAIN k.wire : k.wire[i] = o

\* An XREAD is for what comes after the position, and after what the listeners know.
Aimed(k) ==
  k.server = "reading" =>
    /\ \A j \in DOMAIN emitted : emitted[j] <= k.after
    /\ k.from # 0 => k.after = k.from

Ordered(k) == Placed(k) /\ Ahead(k) /\ Ascending(k) /\ Complete(k) /\ Aimed(k)

Pipe == \A c \in Conn : Live(c) => Ordered(conn[c])

\* The log may grow and claims may end: what was read stays in order.
LEMMA OrderedKept ==
  ASSUME Types, NEW c \in Conn, Ordered(conn[c]),
         conn'[c].from = conn[c].from, conn'[c].wire = conn[c].wire,
         conn'[c].after = conn[c].after,
         Serves(conn[c])' => Serves(conn[c]),
         conn'[c].server = "reading" => conn[c].server = "reading",
         emitted' = emitted, Len(log') \in Nat, Len(log) <= Len(log'),
         conn[c].from = 0 => cursor' = 0,
         \A o \in owed' : o \in owed \/ (o \in Nat /\ o > Len(log))
  PROVE  Ordered(conn[c])'
<1> DEFINE k == conn[c]
<1>1. /\ Len(log) \in Nat /\ owed \subseteq Nat
      /\ k.from \in 0 .. Len(log) /\ k.after \in 0 .. Len(log) /\ k.wire \in Seq(1 .. Len(log))
  BY TypesElim DEF Ordered, Placed
<1>2. Placed(conn[c])'
  <2>1. k.wire \in Seq(1 .. Len(log'))
    BY <1>1, SeqMonotonic
  <2>2. k.from = 0 => k.wire = <<>>
    BY DEF Ordered, Placed
  <2> QED
    BY <1>1, <2>1, <2>2 DEF Placed
<1>3. Ahead(conn[c])' /\ Ascending(conn[c])'
  BY DEF Ordered, Ahead, Ascending
<1>4. Complete(conn[c])'
  <2> SUFFICES ASSUME NEW o \in owed'
               PROVE  /\ \A i \in DOMAIN k.wire :
                           o < k.wire[i] => \E j \in 1 .. i - 1 : k.wire[j] = o
                      /\ Serves(conn[c])' /\ o <= k.from => \E i \in DOMAIN k.wire : k.wire[i] = o
    BY DEF Complete
  <2>1. CASE o \in owed
    BY <2>1 DEF Ordered, Complete
  <2>2. CASE o > Len(log) /\ o \in Nat
    <3>1. \A i \in DOMAIN k.wire : k.wire[i] \in 1 .. Len(log)
      BY <1>1, ElementOfSeq, LenProperties
    <3> QED
      BY <1>1, <2>2, <3>1
  <2> QED
    BY <2>1, <2>2
<1>5. Aimed(conn[c])'
  BY DEF Ordered, Aimed
<1> QED
  BY <1>2, <1>3, <1>4, <1>5 DEF Ordered

\* XREAD returns what comes after the position, without a gap but for what was trimmed.
LEMMA OrderedReadReturns ==
  ASSUME Types, Types', Claims, NEW c \in Conn, Ordered(conn[c]), ReadReturns(c)
  PROVE  Ordered(conn[c])'
<1> DEFINE k == conn[c]
           v == conn'[c]
           b == Batch(k.after)
           f == First(k.after)
           n == Len(k.wire)
<1>1. /\ Len(log) \in Nat /\ trimmed \in 0 .. Len(log) /\ owed \subseteq trimmed + 1 .. Len(log)
      /\ k.from \in 0 .. Len(log) /\ k.after \in 0 .. Len(log) /\ k.wire \in Seq(1 .. Len(log))
      /\ k.from = 0 => cursor = 0 /\ k.wire = <<>>
      /\ emitted \in Seq(1 .. Len(log))
  BY TypesElim DEF Ordered, Placed
<1>2. /\ k.server = "reading" /\ v.server = "ready" /\ Available(k.after) > 0
      /\ v.from = b[Len(b)] /\ v.wire = k.wire \o b /\ v.after = k.after
  BY ReadReturnsFacts
<1>3. UNCHANGED <<log, trimmed, cursor, emitted, owed>>
  BY DEF ReadReturns, streamVars, tabVars
<1>a. /\ f \in Nat /\ f >= k.after /\ DOMAIN b = 1 .. Len(b) /\ b \in Seq(1 .. Len(log))
      /\ Len(b) \in Nat /\ Len(b) >= 1
      /\ \A i \in 1 .. Len(b) : b[i] = f + i
      /\ f + Len(b) <= Len(log)
      /\ v.from = f + Len(b)
      /\ f > trimmed => f = k.after
  <2>1. /\ f \in Nat /\ f >= k.after /\ Available(k.after) \in Nat /\ Len(b) \in 1 .. Available(k.after)
        /\ DOMAIN b = 1 .. Len(b) /\ \A i \in DOMAIN b : b[i] = f + i
        /\ f + Available(k.after) = Len(log) /\ b \in Seq(1 .. Len(log))
        /\ b[Len(b)] = f + Len(b)
    <3>1. TypeOK /\ k.after \in Nat
      BY <1>1, TypesElim
    <3> QED
      BY <1>2, <3>1, BatchFacts
  <2>2. f > trimmed => f = k.after
    BY <1>1 DEF First
  <2>3. v.from = b[Len(b)]
    BY <1>2
  <2>4. Len(log) \in Nat
    BY <1>1
  <2> HIDE DEF b, f, v, k, n
  <2>5. f \in Nat /\ f >= k.after /\ DOMAIN b = 1 .. Len(b) /\ b \in Seq(1 .. Len(log))
    BY <2>1
  <2>6. Len(b) \in Nat /\ Len(b) >= 1 
    BY <2>1
  <2>7. \A i \in 1 .. Len(b) : b[i] = f + i
    BY <2>1
  <2>8. f + Len(b) <= Len(log)
    BY <2>1, <2>4
  <2>9. v.from = f + Len(b)
    BY <2>1, <2>3
  <2> QED
    BY <2>2, <2>5, <2>6, <2>7, <2>8, <2>9
<1>4. /\ f \in Nat /\ f >= k.after /\ Len(b) \in Nat /\ Len(b) >= 1
      /\ f + Len(b) <= Len(log) /\ v.from = f + Len(b)
  BY <1>a
<1>b. f > trimmed => f = k.after
  BY <1>a
<1>5. /\ v.wire \in Seq(1 .. Len(log)) /\ n \in Nat
      /\ DOMAIN v.wire = 1 .. n + Len(b) /\ DOMAIN k.wire = 1 .. n
      /\ \A i \in 1 .. n : v.wire[i] = k.wire[i]
      /\ \A i \in 1 .. n + Len(b) : i > n => v.wire[i] = f + (i - n)
  <2>1. k.wire \in Seq(1 .. Len(log)) /\ b \in Seq(1 .. Len(log)) /\ v.wire = k.wire \o b
    BY <1>1, <1>2, <1>a
  <2> HIDE DEF k, b, v, f, n
  <2>2. /\ v.wire \in Seq(1 .. Len(log)) /\ n \in Nat /\ DOMAIN k.wire = 1 .. n
        /\ Len(v.wire) = n + Len(b) /\ DOMAIN v.wire = 1 .. Len(v.wire)
        /\ \A i \in 1 .. n + Len(b) : v.wire[i] = IF i <= n THEN k.wire[i] ELSE b[i - n]
    BY <2>1, ConcatProperties, LenProperties DEF n
  <2>3. ASSUME NEW i \in 1 .. n + Len(b), i > n
        PROVE  v.wire[i] = f + (i - n)
    <3>1. i - n \in 1 .. Len(b)
      BY <1>4, <2>2, <2>3
    <3>2. v.wire[i] = b[i - n]
      BY <1>4, <2>2, <2>3
    <3>3. b[i - n] = f + (i - n)
      BY <1>a, <3>1
    <3> QED
      BY <3>2, <3>3
  <2>4. ASSUME NEW i \in 1 .. n
        PROVE  v.wire[i] = k.wire[i]
    <3>1. n \in Nat /\ Len(b) \in Nat
      BY <1>4, <2>2
    <3>2. i \in 1 .. n + Len(b) /\ i <= n
      BY <3>1
    <3> QED
      BY <2>2, <3>2
  <2> QED
    BY <2>2, <2>3, <2>4
<1>6. /\ k.from # 0 => k.after = k.from
      /\ \A j \in DOMAIN emitted : emitted[j] \in Nat /\ emitted[j] <= k.after
      /\ \A i \in 1 .. n : k.wire[i] \in Nat /\ k.wire[i] <= k.from /\ k.from # 0
  <2>1. \A j \in DOMAIN emitted : emitted[j] \in Nat
    BY <1>1, ElementOfSeq, LenProperties
  <2>2. \A i \in 1 .. n : k.wire[i] \in 1 .. Len(log)
    BY <1>1, <1>5, ElementOfSeq
  <2>3. \A i \in 1 .. n : k.wire[i] <= k.from
    BY <1>5 DEF Ordered, Ascending
  <2>4. k.from = 0 => n = 0
    BY <1>1, EmptySeq
  <2> QED
    BY <1>1, <1>2, <1>5, <2>1, <2>2, <2>3, <2>4 DEF Ordered, Aimed
<1>7. \A o \in owed : o \in Nat /\ o > trimmed /\ k.from # 0
  BY <1>1 DEF Claims
\* An entry that is owed is on its way, is in the batch, or is later than it.
<1>8. ASSUME NEW o \in owed, o <= f + Len(b)
      PROVE  \/ \E i \in 1 .. n : k.wire[i] = o
             \/ o > f /\ o - f \in 1 .. Len(b)
  <2>1. CASE o > f
    <3> HIDE DEF f, b
    <3> QED
      BY <1>4, <1>7, <1>8, <2>1
  <2>2. CASE o <= f
    <3>1. f = k.after /\ k.after = k.from
      BY <1>1, <1>4, <1>b, <1>6, <1>7, <2>2
    <3>2. Serves(k)
      BY <1>2 DEF Serves
    <3> QED
      BY <1>5, <2>2, <3>1, <3>2 DEF Ordered, Complete
  <2> QED
    BY <1>4, <1>7, <2>1, <2>2
<1> HIDE DEF b, f, n, k, v
\* A place in the new wire is one in the old, or in the batch.
<1>c. ASSUME NEW i \in DOMAIN v.wire
      PROVE  /\ i \in Nat
             /\ i <= n => /\ i \in DOMAIN k.wire /\ i \in 1 .. n /\ v.wire[i] = k.wire[i]
                          /\ k.wire[i] \in Nat /\ k.wire[i] <= k.from /\ k.from # 0
             /\ i > n => i - n \in 1 .. Len(b) /\ v.wire[i] = f + (i - n)
  <2>1. i \in Nat /\ i \in 1 .. n + Len(b)
    BY <1>4, <1>5
  <2>2. ASSUME i > n
        PROVE  i - n \in 1 .. Len(b) /\ v.wire[i] = f + (i - n)
    <3>1. i - n \in 1 .. Len(b)
      BY <1>4, <1>5, <2>1, <2>2
    <3>2. v.wire[i] = f + (i - n)
      BY <1>5, <2>1, <2>2
    <3> QED
      BY <3>1, <3>2
  <2>3. ASSUME i <= n
        PROVE  /\ i \in DOMAIN k.wire /\ i \in 1 .. n /\ v.wire[i] = k.wire[i]
               /\ k.wire[i] \in Nat /\ k.wire[i] <= k.from /\ k.from # 0
    <3>1. i \in 1 .. n
      BY <1>4, <1>5, <2>1, <2>3
    <3>2. v.wire[i] = k.wire[i] /\ i \in DOMAIN k.wire
      BY <1>5, <3>1
    <3> QED
      BY <1>6, <3>1, <3>2
  <2> QED
    BY <2>1, <2>2, <2>3
\* The other way round.
<1>d. ASSUME NEW m \in 1 .. Len(b)
      PROVE  n + m \in DOMAIN v.wire /\ v.wire[n + m] = f + m
  <2>1. n + m \in 1 .. n + Len(b) /\ n + m > n
    BY <1>4, <1>5
  <2>2. v.wire[n + m] = f + ((n + m) - n)
    BY <1>5, <2>1
  <2> QED
    BY <1>4, <1>5, <2>1, <2>2
<1>e. k.after \in Nat /\ k.from \in Nat /\ (k.from # 0 => k.from <= f) /\ k.after <= f
  BY <1>1, <1>4, <1>6
<1>9. Placed(conn[c])'
  BY <1>1, <1>2, <1>3, <1>4, <1>5 DEF Placed, k, v
<1>10. Ahead(conn[c])'
  <2> SUFFICES ASSUME NEW j \in DOMAIN emitted
               PROVE  emitted[j] <= v.from /\ \A i \in DOMAIN v.wire : emitted[j] < v.wire[i]
    BY <1>3 DEF Ahead, k, v
  <2>1. emitted[j] \in Nat /\ emitted[j] <= f
    BY <1>4, <1>6, <1>e
  <2>2. ASSUME NEW i \in DOMAIN v.wire
        PROVE  emitted[j] < v.wire[i]
    <3>1. CASE i <= n
      <4>1. i \in DOMAIN k.wire /\ v.wire[i] = k.wire[i]
        BY <1>c, <3>1
      <4> QED
        BY <4>1 DEF Ordered, Ahead, k
    <3>2. CASE i > n
      <4>1. i - n \in 1 .. Len(b) /\ v.wire[i] = f + (i - n)
        BY <1>c, <3>2
      <4> QED
        BY <1>4, <2>1, <4>1
    <3>3. i \in Nat /\ n \in Nat
      BY <1>5, <1>c
    <3> QED
      BY <3>1, <3>2, <3>3
  <2> QED
    BY <1>4, <2>1, <2>2
<1>11. Ascending(conn[c])'
  <2> SUFFICES ASSUME NEW i \in DOMAIN v.wire
               PROVE  v.wire[i] <= v.from /\ \A j \in 1 .. i - 1 : v.wire[j] < v.wire[i]
    BY DEF Ascending, v
  <2>0. /\ i \in Nat /\ n \in Nat
        /\ \A j \in 1 .. i - 1 : j \in DOMAIN v.wire
    BY <1>4, <1>5
  <2>1. CASE i <= n
    <3>1. /\ i \in DOMAIN k.wire /\ v.wire[i] = k.wire[i]
          /\ k.wire[i] \in Nat /\ k.wire[i] <= k.from /\ k.from # 0
      BY <1>c, <2>1
    <3>2. \A j \in 1 .. i - 1 : k.wire[j] < k.wire[i]
      BY <3>1 DEF Ordered, Ascending, k
    <3>3. k.wire[i] <= v.from
      BY <1>4, <1>e, <3>1
    <3>4. \A j \in 1 .. i - 1 : v.wire[j] = k.wire[j]
      <4>1. \A j \in 1 .. i - 1 : j <= n
        BY <2>0, <2>1
      <4> QED
        BY <1>c, <2>0, <4>1
    <3> QED
      BY <3>1, <3>2, <3>3, <3>4
  <2>2. CASE i > n
    <3>1. v.wire[i] = f + (i - n) /\ i - n \in 1 .. Len(b)
      BY <1>c, <2>2
    <3>2. ASSUME NEW j \in 1 .. i - 1
          PROVE  v.wire[j] < v.wire[i]
      <4>1. CASE j <= n
        <5>1. v.wire[j] = k.wire[j] /\ k.wire[j] \in Nat /\ k.wire[j] <= k.from /\ k.from # 0
          BY <1>c, <2>0, <4>1
        <5> QED
          BY <1>4, <1>e, <3>1, <5>1
      <4>2. CASE j > n
        <5>1. j - n \in 1 .. Len(b) /\ v.wire[j] = f + (j - n)
          BY <1>c, <2>0, <4>2
        <5> QED
          BY <1>4, <2>0, <3>1, <5>1
      <4> QED
        BY <2>0, <4>1, <4>2
    <3> QED
      BY <1>4, <3>1, <3>2
  <2> QED
    BY <2>0, <2>1, <2>2
<1>12. Complete(conn[c])'
  <2> SUFFICES ASSUME NEW o \in owed
               PROVE  /\ \A i \in DOMAIN v.wire :
                           o < v.wire[i] => \E j \in 1 .. i - 1 : v.wire[j] = o
                      /\ o <= v.from => \E i \in DOMAIN v.wire : v.wire[i] = o
    BY <1>3 DEF Complete, v
  <2>0. o \in Nat
    BY <1>7
  <2>1. ASSUME o <= f + Len(b)
        PROVE  \E i \in DOMAIN v.wire : v.wire[i] = o
    <3>1. CASE \E i \in 1 .. n : k.wire[i] = o
      <4>1. PICK i \in 1 .. n : k.wire[i] = o
        BY <3>1
      <4>2. i \in DOMAIN v.wire /\ v.wire[i] = o /\ i <= n
        <5>1. i \in 1 .. n + Len(b)
          BY <1>4, <1>5
        <5> QED
          BY <1>5, <4>1, <5>1
      <4> QED
        BY <4>2
    <3>2. CASE o > f /\ o - f \in 1 .. Len(b)
      <4>1. n + (o - f) \in DOMAIN v.wire /\ v.wire[n + (o - f)] = f + (o - f)
        BY <1>d, <3>2
      <4>2. f + (o - f) = o
        BY <1>4, <2>0
      <4> QED
        BY <3>2, <4>1, <4>2
    <3> QED
      BY <1>8, <2>1, <3>1, <3>2
  <2>2. ASSUME NEW i \in DOMAIN v.wire, o < v.wire[i]
        PROVE  \E j \in 1 .. i - 1 : v.wire[j] = o
    <3>0. /\ i \in Nat /\ n \in Nat
          /\ \A j \in 1 .. i - 1 : j \in DOMAIN v.wire
      BY <1>4, <1>5
    <3>1. CASE i <= n
      <4>1. i \in DOMAIN k.wire /\ o < k.wire[i]
        BY <1>c, <2>2, <3>1
      <4>2. PICK j \in 1 .. i - 1 : k.wire[j] = o
        BY <4>1 DEF Ordered, Complete, k
      <4>3. j <= n
        BY <3>0, <3>1
      <4>4. v.wire[j] = k.wire[j]
        BY <1>c, <3>0, <4>3
      <4> QED
        BY <4>2, <4>4
    <3>2. CASE i > n
      <4>1. v.wire[i] = f + (i - n) /\ i - n \in 1 .. Len(b)
        BY <1>c, <3>2
      <4>2. o < f + (i - n) /\ o <= f + Len(b)
        BY <1>4, <2>0, <2>2, <4>1
      <4>3. PICK j \in DOMAIN v.wire : v.wire[j] = o
        BY <2>1, <4>2
      <4>4. j \in Nat /\ j >= 1
        BY <1>4, <1>5
      <4>5. CASE j <= n
        BY <3>0, <3>2, <4>3, <4>4, <4>5
      <4>6. CASE j > n
        <5>1. v.wire[j] = f + (j - n)
          BY <1>c, <4>6
        <5>2. f + (j - n) < f + (i - n)
          BY <4>2, <4>3, <5>1
        <5>3. j < i
          BY <1>4, <3>0, <4>4, <5>2
        <5> QED
          BY <3>0, <4>3, <4>4, <5>3
      <4> QED
        BY <3>0, <4>4, <4>5, <4>6
    <3> QED
      BY <3>0, <3>1, <3>2
  <2>3. ASSUME o <= v.from
        PROVE  \E i \in DOMAIN v.wire : v.wire[i] = o
    <3>1. o <= f + Len(b)
      BY <1>4, <2>3
    <3> QED
      BY <2>1, <3>1
  <2> QED
    BY <2>2, <2>3
<1>13. Aimed(conn[c])'
  BY <1>2 DEF Aimed, v
<1> QED
  BY <1>9, <1>10, <1>11, <1>12, <1>13 DEF Ordered

\* The first entry on its way is received: it is later than all the listeners know, and
\* earlier than what is owed besides.
LEMMA ReceivedEntry ==
  ASSUME Types, NEW c \in Conn, Ordered(conn[c]), Receive(c)
  PROVE  LET w == conn[c].wire IN
         /\ w \in Seq(1 .. Len(log)) /\ w # <<>> /\ conn[c].from # 0
         /\ cursor' = w[1] /\ aged' = FALSE /\ emitted' = Append(emitted, w[1])
         /\ owed' = owed \ {w[1]} /\ log' = log
         /\ w[1] \in 1 .. Len(log) /\ w[1] <= conn[c].from
         /\ \A j \in DOMAIN emitted : emitted[j] < w[1]
         /\ \A o \in owed : w[1] <= o
         /\ DOMAIN emitted' = 1 .. Len(emitted) + 1 /\ Len(emitted) \in Nat
         /\ DOMAIN emitted = 1 .. Len(emitted)
         /\ \A j \in DOMAIN emitted' : emitted'[j] = w[1] \/ (j \in DOMAIN emitted /\ emitted'[j] = emitted[j])
<1> DEFINE w == conn[c].wire
<1>1. /\ w \in Seq(1 .. Len(log)) /\ w # <<>> /\ conn[c].from # 0
      /\ Len(log) \in Nat /\ owed \subseteq Nat /\ emitted \in Seq(1 .. Len(log))
  BY TypesElim DEF Ordered, Placed, Receive
<1>2. /\ cursor' = w[1] /\ aged' = FALSE /\ emitted' = Append(emitted, w[1])
      /\ owed' = owed \ {w[1]} /\ log' = log
  BY <1>1, HeadTailProperties DEF Receive, streamVars
<1>3. 1 \in DOMAIN w /\ w[1] \in 1 .. Len(log)
  <2> HIDE DEF w
  <2>1. Len(w) \in Nat /\ DOMAIN w = 1 .. Len(w) /\ Len(w) # 0
    BY <1>1, LenProperties, EmptySeq
  <2> QED
    BY <1>1, <2>1, ElementOfSeq
<1>4. w[1] <= conn[c].from
  BY <1>3 DEF Ordered, Ascending
<1>5. \A j \in DOMAIN emitted : emitted[j] < w[1]
  BY <1>3 DEF Ordered, Ahead
<1>6. \A o \in owed : w[1] <= o
  <2>1. \A o \in owed : ~(o < w[1])
    BY <1>3 DEF Ordered, Complete
  <2> HIDE DEF w
  <2> QED
    BY <1>1, <1>3, <2>1
<1>7. /\ DOMAIN emitted' = 1 .. Len(emitted) + 1 /\ Len(emitted) \in Nat
      /\ DOMAIN emitted = 1 .. Len(emitted)
      /\ \A j \in DOMAIN emitted' :
           emitted'[j] = w[1] \/ (j \in DOMAIN emitted /\ emitted'[j] = emitted[j])
  <2> HIDE DEF w
  <2> QED
    BY <1>1, <1>2, <1>3, AppendProperties, LenProperties
<1> QED
  BY <1>1, <1>2, <1>3, <1>4, <1>5, <1>6, <1>7

LEMMA OrderedReceive ==
  ASSUME Types, NEW c \in Conn, Ordered(conn[c]), Receive(c)
  PROVE  Ordered(conn[c])'
<1> DEFINE k == conn[c]
           v == conn'[c]
           w == k.wire
           n == Len(w)
<1>1. /\ w \in Seq(1 .. Len(log)) /\ w # <<>> /\ k.from # 0
      /\ emitted' = Append(emitted, w[1])
      /\ owed' = owed \ {w[1]} /\ log' = log
      /\ w[1] \in 1 .. Len(log) /\ w[1] <= k.from
      /\ \A j \in DOMAIN emitted' : emitted'[j] = w[1] \/ (j \in DOMAIN emitted /\ emitted'[j] = emitted[j])
  BY ReceivedEntry
<1>2. v.server = k.server /\ v.from = k.from /\ v.wire = Tail(w) /\ v.after = k.after
      /\ Serves(v) = Serves(k)
  BY ReceiveFacts DEF SameRun, Serves
<1>3. /\ n \in Nat /\ DOMAIN w = 1 .. n /\ n # 0 /\ 1 \in DOMAIN w
      /\ v.wire \in Seq(1 .. Len(log)) /\ DOMAIN v.wire = 1 .. n - 1
      /\ \A i \in 1 .. n - 1 : v.wire[i] = w[i + 1] /\ i + 1 \in DOMAIN w
  <2> HIDE DEF w, v
  <2>1. /\ n \in Nat /\ DOMAIN w = 1 .. n /\ n # 0
        /\ Tail(w) \in Seq(1 .. Len(log)) /\ Len(Tail(w)) = n - 1
        /\ DOMAIN Tail(w) = 1 .. Len(Tail(w))
    BY <1>1, LenProperties, EmptySeq, HeadTailProperties
  <2>2. \A i \in 1 .. n - 1 : Tail(w)[i] = w[i + 1]
    BY <1>1, <2>1, HeadTailProperties
  <2> QED
    BY <1>2, <2>1, <2>2
<1>4. /\ Len(log) \in Nat /\ k.from \in 0 .. Len(log) /\ k.after \in 0 .. Len(log)
      /\ owed \subseteq Nat
  BY TypesElim DEF Ordered, Placed
<1>5. Placed(conn[c])'
  BY <1>1, <1>2, <1>3, <1>4 DEF Placed
<1>6. Ahead(conn[c])'
  <2> SUFFICES ASSUME NEW j \in DOMAIN emitted'
               PROVE  emitted'[j] <= v.from /\ \A i \in DOMAIN v.wire : emitted'[j] < v.wire[i]
    BY DEF Ahead
  <2>1. CASE emitted'[j] = w[1]
    <3>1. \A i \in 1 .. n - 1 : w[1] < w[i + 1]
      <4> SUFFICES ASSUME NEW i \in 1 .. n - 1
                   PROVE  w[1] < w[i + 1]
        OBVIOUS
      <4>1. i + 1 \in DOMAIN w /\ 1 \in 1 .. (i + 1) - 1
        BY <1>3
      <4> QED
        BY <4>1 DEF Ordered, Ascending
    <3> QED
      BY <1>1, <1>2, <1>3, <2>1, <3>1
  <2>2. CASE j \in DOMAIN emitted /\ emitted'[j] = emitted[j]
    <3>1. emitted[j] <= k.from /\ \A i \in DOMAIN w : emitted[j] < w[i]
      BY <1>1, <2>2 DEF Ordered, Ahead
    <3> QED
      BY <1>2, <1>3, <2>2, <3>1
  <2> QED
    BY <1>1, <2>1, <2>2
<1>7. Ascending(conn[c])'
  <2> SUFFICES ASSUME NEW i \in DOMAIN v.wire
               PROVE  v.wire[i] <= v.from /\ \A j \in 1 .. i - 1 : v.wire[j] < v.wire[i]
    BY DEF Ascending
  <2>1. i + 1 \in DOMAIN w /\ v.wire[i] = w[i + 1] /\ i \in 1 .. n - 1
    BY <1>3
  <2>2. w[i + 1] <= k.from /\ \A j \in 1 .. (i + 1) - 1 : w[j] < w[i + 1]
    BY <2>1 DEF Ordered, Ascending
  <2>3. ASSUME NEW j \in 1 .. i - 1
        PROVE  v.wire[j] = w[j + 1] /\ j + 1 \in 1 .. (i + 1) - 1
    <3> HIDE DEF v, w, n
    <3>1. i \in Nat /\ j \in Nat /\ j >= 1 /\ j <= i - 1 /\ n \in Nat /\ i <= n - 1
      BY <1>3, <2>1
    <3>2. j \in 1 .. n - 1 /\ j + 1 \in 1 .. (i + 1) - 1
      BY <3>1
    <3> QED
      BY <1>3, <3>2
  <2> QED
    BY <1>2, <2>1, <2>2, <2>3
<1>8. Complete(conn[c])'
  <2> SUFFICES ASSUME NEW o \in owed, o # w[1]
               PROVE  /\ \A i \in DOMAIN v.wire :
                           o < v.wire[i] => \E j \in 1 .. i - 1 : v.wire[j] = o
                      /\ Serves(v) /\ o <= v.from => \E i \in DOMAIN v.wire : v.wire[i] = o
    BY <1>1 DEF Complete, Serves
  <2>1. ASSUME NEW i \in DOMAIN v.wire, o < v.wire[i]
        PROVE  \E j \in 1 .. i - 1 : v.wire[j] = o
    <3>1. i + 1 \in DOMAIN w /\ v.wire[i] = w[i + 1] /\ i \in 1 .. n - 1
      BY <1>3
    <3>2. PICK j \in 1 .. (i + 1) - 1 : w[j] = o
      BY <2>1, <3>1 DEF Ordered, Complete
    <3>3. j # 1
      BY <3>2
    <3>4. j - 1 \in 1 .. i - 1 /\ j - 1 \in 1 .. n - 1 /\ (j - 1) + 1 = j
      <4>1. i \in Nat /\ j \in Nat /\ j >= 1 /\ j <= i /\ n \in Nat /\ i <= n - 1
        BY <1>3, <3>1
      <4> HIDE DEF n
      <4> QED
        BY <3>3, <4>1
    <3>5. v.wire[j - 1] = w[(j - 1) + 1]
      BY <1>3, <3>4
    <3> QED
      BY <3>2, <3>4, <3>5
  <2>2. ASSUME Serves(v), o <= v.from
        PROVE  \E i \in DOMAIN v.wire : v.wire[i] = o
    <3>1. PICK j \in DOMAIN w : w[j] = o
      BY <1>2, <2>2 DEF Ordered, Complete
    <3>2. j # 1
      BY <3>1
    <3>3. j - 1 \in 1 .. n - 1 /\ (j - 1) + 1 = j
      BY <1>3, <3>2
    <3>4. v.wire[j - 1] = w[(j - 1) + 1] /\ j - 1 \in DOMAIN v.wire
      BY <1>3, <3>3
    <3> QED
      BY <3>1, <3>3, <3>4
  <2> QED
    BY <2>1, <2>2
<1>9. Aimed(conn[c])'
  <2> SUFFICES ASSUME k.server = "reading"
               PROVE  /\ \A j \in DOMAIN emitted' : emitted'[j] <= k.after
                      /\ k.after = k.from
    BY <1>1, <1>2 DEF Aimed
  <2>1. k.after = k.from /\ \A j \in DOMAIN emitted : emitted[j] <= k.after
    BY <1>1 DEF Ordered, Aimed
  <2> QED
    BY <1>1, <2>1
<1> QED
  BY <1>5, <1>6, <1>7, <1>8, <1>9 DEF Ordered

\* connect() starts from the cursor, when no other run is alive.
LEMMA OrderedConnect ==
  ASSUME Types, Claims, NEW others, ConnOK(others), NEW r \in Nat, Connect(others, r),
         \A c \in Conn : others[c].pc = "idle" \/ others[c].aborted,
         UNCHANGED <<log, emitted, owed>>
  PROVE  Claims' /\ Pipe'
<1>1. TypeOK /\ cursor \in 0 .. Len(log) /\ Len(log) \in Nat /\ owed \subseteq Nat
  BY TypesElim
<1>2. cursor' \in {0, cursor} /\ aged' \in {FALSE, aged}
      /\ ((UNCHANGED <<cursor, aged>>) \/ (cursor' = StoredCursor /\ aged' = FALSE))
  BY <1>1, ConnectFacts
<1>3. Claims'
  BY <1>2 DEF Claims, StoredCursor
<1>4. ASSUME NEW c \in Conn, Live(c)'
      PROVE  Ordered(conn[c])'
  <2>1. token' /\ conn'[c] = NewRun(r)
    BY <1>4, ConnectLive
  <2>2. cursor' = StoredCursor /\ aged' = FALSE
    BY <1>1, <2>1, ConnectFacts
  <2>3. /\ conn'[c].pc = "fetch" /\ conn'[c].server = "none" /\ conn'[c].from = cursor'
        /\ conn'[c].after = 0 /\ conn'[c].wire = <<>>
    BY <1>1, <2>1, <2>2, NewRunFacts
  <2>4. cursor' \in 0 .. Len(log) /\ cursor' \in Nat
    BY <1>1, <1>2
  <2>5. Placed(conn[c])'
    BY <1>1, <2>3, <2>4, EmptySeq DEF Placed
  <2>6. DOMAIN conn'[c].wire = {}
    BY <2>3
  <2>7. Ahead(conn[c])' /\ Ascending(conn[c])'
    BY <1>3, <2>3, <2>6 DEF Ahead, Ascending, Claims
  <2>8. Complete(conn[c])'
    <3> SUFFICES ASSUME NEW o \in owed'
                 PROVE  ~(o <= cursor')
      BY <2>3, <2>6 DEF Complete
    <3> QED
      BY <1>1, <1>3, <2>4 DEF Claims
  <2>9. Aimed(conn[c])'
    BY <2>3 DEF Aimed
  <2> QED
    BY <2>5, <2>7, <2>8, <2>9 DEF Ordered
<1> QED
  BY <1>3, <1>4 DEF Pipe

Promise == Claims /\ Pipe

LEMMA PromiseInductive == Types /\ Types' /\ Single /\ Promise /\ [Next]_vars => Promise'
<1> SUFFICES ASSUME Types, Types', Single, Promise, [Next]_vars
             PROVE  Claims' /\ Pipe'
  BY DEF Promise
<1>0. /\ ConnOK(conn) /\ TypeOK /\ run \in Nat /\ run + 1 \in Nat /\ Len(log) \in Nat
      /\ conn \in [Conn -> ConnState] /\ owed \subseteq Nat /\ cursor \in 0 .. Len(log)
      /\ \A c \in Conn : conn[c].server # "none" => Live(c)
  BY TypesElim DEF ConnOK, Live, ConnState
<1>p. Claims /\ Pipe
  BY DEF Promise
\* A step that leaves the runs alone.
<1>1. ASSUME UNCHANGED <<conn, emitted>>, Len(log') \in Nat, Len(log) <= Len(log'),
             cursor' \in {0, cursor},
             \A o \in owed' : o \in owed \/ (o \in Nat /\ o > Len(log))
      PROVE  Pipe'
  <2> SUFFICES ASSUME NEW c \in Conn, Live(c)
               PROVE  Ordered(conn[c])'
    BY <1>1 DEF Pipe, Live
  <2>1. Ordered(conn[c])
    BY <1>p DEF Pipe
  <2>2. conn[c].from = 0 => cursor = 0
    BY <2>1 DEF Ordered, Placed
  <2> QED
    BY <1>1, <2>1, <2>2, OrderedKept DEF Serves
\* A step of the one run that is alive.
<1>2. ASSUME NEW c \in Conn, Live(c), Ordered(conn[c])', UNCHANGED <<cursor, aged, emitted, owed>>,
             \A d \in Conn : d # c => conn'[d] = conn[d]
      PROVE  Claims' /\ Pipe'
  <2>1. Claims'
    BY <1>2, <1>p DEF Claims
  <2>2. \A d \in Conn : d # c => ~Live(d)'
    BY <1>2 DEF Single, Live
  <2> QED
    BY <1>2, <2>1, <2>2 DEF Pipe
<1>3. CASE UNCHANGED vars
  <2>1. UNCHANGED <<conn, emitted, log, cursor, aged, owed>>
    BY <1>3 DEF vars, tabVars, streamVars
  <2> QED
    BY <1>0, <1>1, <1>p, <2>1 DEF Claims
<1>4. ASSUME NEW m \in Notification, Publish(m)
      PROVE  Claims' /\ Pipe'
  <2>1. UNCHANGED <<conn, tabVars, emitted>>
    BY <1>0, <1>4, PublishFacts
  <2>2. CASE UNCHANGED <<log, trimmed, owed>>
    BY <1>0, <1>1, <1>p, <2>1, <2>2 DEF Claims, tabVars
  <2>3. CASE Add(m)
    <3>1. /\ Len(log') = Len(log) + 1 /\ owed' \subseteq owed \cup {Len(log')}
          /\ Len(log') \in owed' => cursor # 0 /\ ~aged
      BY <1>0, <2>3, AddFacts
    <3>2. \A o \in owed' : o \in owed \/ (o \in Nat /\ o > Len(log))
      BY <1>0, <3>1
    <3>3. Claims'
      <4>1. \A o \in owed' : o \in owed \/ (o = Len(log) + 1 /\ cursor # 0 /\ ~aged)
        BY <3>1
      <4>2. \A o \in owed' : cursor # 0 /\ ~aged /\ o > cursor
        <5>1. Len(log) + 1 > cursor
          BY <1>0
        <5> QED
          BY <1>p, <4>1, <5>1 DEF Claims
      <4> QED
        BY <1>p, <2>1, <4>2 DEF Claims, tabVars
    <3>4. Pipe'
      BY <1>0, <1>1, <2>1, <3>1, <3>2 DEF tabVars
    <3> QED
      BY <3>3, <3>4
  <2> QED
    BY <1>0, <1>4, <2>2, <2>3, PublishFacts
<1>5. CASE DeleteUserStream \/ LogOut \/ CursorAges
  <2>1. /\ UNCHANGED <<conn, emitted, log>> /\ cursor' \in {0, cursor} /\ owed' \subseteq owed
        /\ owed' = {} \/ UNCHANGED <<cursor, aged, owed>>
    <3>1. CASE DeleteUserStream
      BY <3>1 DEF DeleteUserStream, tabVars
    <3>2. CASE LogOut
      BY <3>2 DEF LogOut, streamVars
    <3>3. CASE CursorAges
      BY <3>3 DEF CursorAges, streamVars
    <3> QED
      BY <1>5, <3>1, <3>2, <3>3
  <2>2. Claims'
    BY <1>p, <2>1 DEF Claims
  <2> QED
    BY <1>0, <1>1, <2>1, <2>2
<1>6. ASSUME NEW c \in Conn, ServerStep(c) \/ StreamFails(c) \/ Responds(c) \/ Receive(c)
      PROVE  Claims' /\ Pipe'
  <2>1. /\ conn[c].server # "none" \/ Live(c)
        /\ Receive(c) \/ UNCHANGED <<log, cursor, aged, emitted, owed>>
    BY <1>6 DEF ServerStep, Read, ReadReturns, ReadTimesOut, StreamFails, Responds, Receive,
                tabVars, streamVars
  <2>2. Live(c) /\ Ordered(conn[c])
    BY <1>0, <1>p, <2>1 DEF Pipe
  <2>3. \A d \in Conn : d # c => conn'[d] = conn[d]
    BY <1>6, ReadFacts, ReadReturnsFacts, ReadTimesOutFacts, StreamFailsFacts, RespondsFacts,
       ReceiveFacts DEF ServerStep, SameRun
  <2>4. CASE Read(c)
    <3>1. /\ conn[c].server = "ready" /\ conn'[c].server = "reading" /\ conn'[c].pc = conn[c].pc
          /\ conn'[c].from = conn[c].from /\ conn'[c].wire = conn[c].wire
          /\ conn'[c].after = IF conn[c].from = 0 THEN Len(log) ELSE conn[c].from
          /\ UNCHANGED <<log, cursor, aged, emitted, owed>>
      BY <2>4, ReadFacts DEF SameRun, Read, streamVars, tabVars
    <3>2. Placed(conn[c])'
      BY <1>0, <2>2, <3>1 DEF Ordered, Placed
    <3>3. Ahead(conn[c])' /\ Ascending(conn[c])' /\ Complete(conn[c])'
      BY <2>2, <3>1 DEF Ordered, Ahead, Ascending, Complete, Serves
    <3>4. Aimed(conn[c])'
      <4>1. \A j \in DOMAIN emitted : emitted[j] <= Len(log)
        <5>1. emitted \in Seq(1 .. Len(log))
          BY TypesElim
        <5> QED
          BY <1>0, <5>1, ElementOfSeq, LenProperties
      <4> QED
        BY <2>2, <3>1, <4>1 DEF Ordered, Ahead, Aimed
    <3> QED
      BY <1>2, <2>2, <2>3, <3>1, <3>2, <3>3, <3>4 DEF Ordered
  <2>5. CASE ReadReturns(c)
    <3>1. Ordered(conn[c])' /\ UNCHANGED <<cursor, aged, emitted, owed>>
      BY <1>p, <2>2, <2>5, OrderedReadReturns DEF ReadReturns, tabVars
    <3> QED
      BY <1>2, <2>2, <2>3, <3>1
  <2>6. CASE ReadTimesOut(c) \/ Responds(c)
    <3>1. /\ conn'[c].from = conn[c].from /\ conn'[c].wire = conn[c].wire
          /\ conn'[c].after = conn[c].after /\ conn'[c].server = "ready" /\ Serves(conn[c])
      BY <2>6, ReadTimesOutFacts, RespondsFacts DEF SameRun, Serves
    <3>2. UNCHANGED <<log, cursor, aged, emitted, owed>>
      BY <2>6 DEF ReadTimesOut, Responds, streamVars, tabVars
    <3>3. conn[c].from = 0 => cursor' = 0
      BY <2>2, <3>2 DEF Ordered, Placed
    <3>4. Ordered(conn[c])'
      BY <1>0, <2>2, <3>1, <3>2, <3>3, OrderedKept
    <3> QED
      BY <1>2, <2>2, <2>3, <3>2, <3>4
  <2>7. CASE StreamFails(c)
    <3>1. /\ conn[c].server # "none" /\ conn'[c].server = "none" /\ conn'[c].pc = conn[c].pc
          /\ conn'[c].from = conn[c].from /\ conn'[c].wire \in {conn[c].wire, <<>>}
          /\ conn'[c].after = conn[c].after
          /\ UNCHANGED <<log, cursor, aged, emitted, owed>>
      BY <2>7, StreamFailsFacts DEF SameRun, StreamFails, streamVars, tabVars
    <3>2. conn'[c].pc = "open"
      BY <1>0, <3>1 DEF ConnOK
    <3>3. conn'[c].wire = conn[c].wire \/ DOMAIN conn'[c].wire = {}
      BY <3>1
    <3>4. Placed(conn[c])'
      BY <2>2, <3>1, EmptySeq DEF Ordered, Placed
    <3>5. Ahead(conn[c])' /\ Ascending(conn[c])' /\ Complete(conn[c])' /\ Aimed(conn[c])'
      BY <2>2, <3>1, <3>2, <3>3 DEF Ordered, Ahead, Ascending, Complete, Aimed, Serves
    <3> QED
      BY <1>2, <2>2, <2>3, <3>1, <3>4, <3>5 DEF Ordered
  <2>8. CASE Receive(c)
    <3>1. Claims'
      <4> DEFINE e == conn[c].wire[1]
      <4>1. /\ cursor' = e /\ aged' = FALSE /\ owed' = owed \ {e} /\ e \in 1 .. Len(log)
            /\ \A j \in DOMAIN emitted : emitted[j] < e
            /\ \A o \in owed : e <= o
            /\ \A j \in DOMAIN emitted' :
                 emitted'[j] = e \/ (j \in DOMAIN emitted /\ emitted'[j] = emitted[j])
        BY <2>2, <2>8, ReceivedEntry
      <4> HIDE DEF e
      <4>2. \A o \in owed' : o > e
        <5>1. \A o \in owed' : o \in Nat /\ o # e /\ e <= o
          BY <1>0, <4>1
        <5>2. e \in Nat
          BY <1>0, <4>1
        <5> QED
          BY <5>1, <5>2
      <4>3. \A j \in DOMAIN emitted' : emitted'[j] <= e
        <5>1. \A j \in DOMAIN emitted : emitted[j] \in Nat
          <6>1. emitted \in Seq(1 .. Len(log))
            BY TypesElim
          <6> QED
            BY <1>0, <6>1, ElementOfSeq, LenProperties
        <5> QED
          BY <1>0, <4>1, <5>1
      <4>4. e # 0 /\ e \in Nat
        BY <1>0, <4>1
      <4> QED
        BY <4>1, <4>2, <4>3, <4>4 DEF Claims
    <3>2. Ordered(conn[c])'
      BY <2>2, <2>8, OrderedReceive
    <3>3. \A d \in Conn : d # c => ~Live(d)'
      BY <2>2, <2>3 DEF Single, Live
    <3> QED
      BY <3>1, <3>2, <3>3 DEF Pipe
  <2> QED
    BY <1>6, <2>4, <2>5, <2>6, <2>7, <2>8 DEF ServerStep
\* The steps that leave no run alive, or abort it.
<1>7. ASSUME UNCHANGED <<cursor, aged, emitted, owed>>, \A d \in Conn : ~Live(d)'
      PROVE  Claims' /\ Pipe'
  BY <1>7, <1>p DEF Claims, Pipe
<1>8. ASSUME NEW c \in Conn, Unauthorized(c) \/ Unavailable(c) \/ Ended(c)
      PROVE  Claims' /\ Pipe'
  <2>1. /\ Live(c) /\ conn' = [conn EXCEPT ![c] = IdleConn]
        /\ UNCHANGED <<cursor, aged, emitted, owed>>
    BY <1>8 DEF Unauthorized, Unavailable, Ended, Shutdown, Reconnect
  <2>2. \A d \in Conn : ~Live(d)'
    BY <1>0, <2>1, IdleFacts DEF Single, Live
  <2> QED
    BY <1>7, <2>1, <2>2
<1>9. ASSUME NEW c \in Conn, Returns(c)
      PROVE  Claims' /\ Pipe'
  <2>1. /\ conn' = [conn EXCEPT ![c] = IdleConn]
        /\ UNCHANGED <<log, cursor, aged, emitted, owed>>
    BY <1>9 DEF Returns, tabVars, streamVars
  <2>2. ASSUME NEW d \in Conn, Live(d)'
        PROVE  Ordered(conn[d])'
    <3>1. d # c /\ conn'[d] = conn[d]
      BY <1>0, <2>1, <2>2, IdleFacts DEF Live
    <3>2. Ordered(conn[d])
      BY <1>p, <2>2, <3>1 DEF Live, Pipe
    <3>3. conn[d].from = 0 => cursor = 0
      BY <3>2 DEF Ordered, Placed
    <3> QED
      BY <1>0, <2>1, <3>1, <3>2, <3>3, OrderedKept DEF Serves
  <2> QED
    BY <1>p, <2>1, <2>2 DEF Claims, Pipe
<1>10. CASE Retain
  <2>1. Connect(Aborted, run + 1) /\ UNCHANGED <<log, emitted, owed>>
    BY <1>10 DEF Retain, streamVars
  <2>2. ConnOK(Aborted) /\ \A c \in Conn : Aborted[c].pc = "idle" \/ Aborted[c].aborted
    BY <1>0, AbortedFacts
  <2> QED
    BY <1>0, <1>p, <2>1, <2>2, OrderedConnect
<1>11. CASE Release
  <2>1. conn' = Aborted /\ UNCHANGED <<cursor, aged, emitted, owed>>
    BY <1>11 DEF Release, Shutdown
  <2>2. \A d \in Conn : ~Live(d)'
    BY <1>0, <2>1, AbortedFacts DEF Live
  <2> QED
    BY <1>7, <2>1, <2>2
<1>12. CASE TimerFires
  <2>1. Connect(conn, run) /\ timer /\ UNCHANGED <<log, emitted, owed>>
    BY <1>12 DEF TimerFires, streamVars
  <2>2. \A c \in Conn : conn[c].pc = "idle" \/ conn[c].aborted
    BY <2>1 DEF Single, Live
  <2> QED
    BY <1>0, <1>p, <2>1, <2>2, OrderedConnect
<1> QED
  BY <1>3, <1>4, <1>5, <1>6, <1>8, <1>9, <1>10, <1>11, <1>12 DEF Next, ClientStep

LEMMA PromiseCorrect == Spec => []Promise
<1>1. Init => Promise
  <2> SUFFICES ASSUME Init
               PROVE  Claims /\ Pipe
    BY DEF Promise
  <2>1. \A c \in Conn : ~Live(c)
    BY IdleFacts DEF Init, Live
  <2>2. DOMAIN emitted = {} /\ owed = {}
    BY DEF Init
  <2> QED
    BY <2>1, <2>2 DEF Claims, Pipe
<1> QED
  BY <1>1, PromiseInductive, TypesCorrect, SingleCorrect, PTL DEF Spec

-----------------------------------------------------------------------------
\* The refinement

\* Every step is one of UserEventDelivery or leaves its variables as they are.
LEMMA RefinesStep ==
  Types /\ Types' /\ Single /\ Promise /\ [Next]_vars => [Delivery!Next]_<<log, owed, emitted>>
<1> SUFFICES ASSUME Types, Types', Single, Promise, [Next]_vars
             PROVE  Delivery!Next \/ UNCHANGED <<log, owed, emitted>>
  OBVIOUS
<1>0. TypeOK /\ log \in Seq(Notification) /\ Len(log) \in Nat /\ DOMAIN log = 1 .. Len(log)
  BY TypesElim, LenProperties
<1>1. ASSUME NEW n \in Notification, Publish(n)
      PROVE  Delivery!Next \/ UNCHANGED <<log, owed, emitted>>
  <2>1. CASE ~Published(n) /\ Add(n)
    <3>1. log' = Append(log, n) /\ owed' \subseteq owed \cup {Len(log')}
      BY <1>0, <2>1, AddFacts
    <3>2. n \in Notification \ {log[i] : i \in DOMAIN log}
      BY <2>1 DEF Published
    <3>3. UNCHANGED emitted
      BY <1>0, <1>1, PublishFacts
    <3> QED
      BY <3>1, <3>2, <3>3 DEF Delivery!Next, Delivery!Publish
  <2> QED
    BY <1>0, <1>1, <2>1, PublishFacts
<1>2. ASSUME NEW c \in Conn, Receive(c)
      PROVE  Delivery!Next
  <2> DEFINE e == conn[c].wire[1]
  <2>1. Ordered(conn[c])
    BY <1>2 DEF Promise, Pipe, Receive
  <2>2. /\ emitted' = Append(emitted, e) /\ owed' = owed \ {e} /\ log' = log
        /\ e \in 1 .. Len(log)
        /\ \A j \in DOMAIN emitted : emitted[j] < e
        /\ \A o \in owed : e <= o
    BY <1>2, <2>1, ReceivedEntry
  <2> HIDE DEF e
  <2> QED
    BY <1>0, <2>2 DEF Delivery!Next, Delivery!Deliver
<1>3. CASE DeleteUserStream \/ LogOut \/ CursorAges
  <2>1. owed' \subseteq owed /\ UNCHANGED <<log, emitted>>
    BY <1>3 DEF DeleteUserStream, LogOut, CursorAges, streamVars
  <2> QED
    BY <2>1 DEF Delivery!Next, Delivery!Forget
<1>4. ASSUME NEW c \in Conn,
             \/ ServerStep(c) \/ StreamFails(c) \/ Unauthorized(c) \/ Unavailable(c)
             \/ Returns(c) \/ Responds(c) \/ Ended(c)
      PROVE  UNCHANGED <<log, owed, emitted>>
  BY <1>4 DEF ServerStep, Read, ReadReturns, ReadTimesOut, StreamFails, Unauthorized,
              Unavailable, Returns, Responds, Ended, streamVars
<1>5. CASE Retain \/ Release \/ TimerFires
  BY <1>5 DEF Retain, Release, TimerFires, streamVars
<1>6. CASE UNCHANGED vars
  BY <1>6 DEF vars, streamVars
<1> QED
  BY <1>1, <1>2, <1>3, <1>4, <1>5, <1>6 DEF Next, ClientStep

\* The stream, the SSE route and the tab keep what UserEventDelivery promises, whatever
\* fails and however often.
THEOREM Refines == Spec => ImplementsDelivery
<1>1. Init => Delivery!Init
  BY DEF Init, Delivery!Init
<1> QED
  BY <1>1, RefinesStep, TypesCorrect, SingleCorrect, PromiseCorrect, PTL
     DEF Spec, ImplementsDelivery, Delivery!Spec
=============================================================================
