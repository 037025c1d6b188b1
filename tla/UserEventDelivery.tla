-------------------------- MODULE UserEventDelivery --------------------------
(***************************************************************************)
(* What the user events promise to one browser tab: each notification      *)
(* enters the user's log once; the tab's listeners are told of the log's   *)
(* entries in order, each at most once; and while an entry is owed to the  *)
(* tab they are told of no later one.                                      *)
(***************************************************************************)
EXTENDS Naturals, Sequences

CONSTANT Notification

VARIABLES
  log,     \* the notifications published, an entry's id is its place
  owed,    \* entries the tab must still be told of
  emitted  \* entries it was told of

Init == log = <<>> /\ owed = {} /\ emitted = <<>>

Publish ==
  /\ \E n \in Notification \ {log[i] : i \in DOMAIN log} : log' = Append(log, n)
  /\ owed' \subseteq owed \cup {Len(log')}
  /\ UNCHANGED emitted

Deliver ==
  /\ \E e \in DOMAIN log :
       /\ \A i \in DOMAIN emitted : emitted[i] < e
       /\ \A o \in owed : e <= o
       /\ emitted' = Append(emitted, e)
       /\ owed' = owed \ {e}
  /\ UNCHANGED log

\* The tab's claim ends: the cursor is too old or cleared, or the stream was trimmed.
Forget == owed' \subseteq owed /\ UNCHANGED <<log, emitted>>

Next == Publish \/ Deliver \/ Forget

Spec == Init /\ [][Next]_<<log, owed, emitted>>
=============================================================================
