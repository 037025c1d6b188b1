-------------------------- MODULE UsageQuotaProofs --------------------------
(***************************************************************************)
(* Proofs about UsageQuota for every set of requests, keys and plans: the  *)
(* types, that the counters match the reservations, and that a cycle is    *)
(* never oversold.                                                         *)
(***************************************************************************)
EXTENDS UsageQuota, FiniteSetTheorems, TLAPS

-----------------------------------------------------------------------------
\* Units and Total

\* The units of one key: {k} \X 1..n has n elements.
LEMMA BlockSize ==
  ASSUME NEW k, NEW n \in Nat
  PROVE  IsFiniteSet({k} \X (1 .. n)) /\ Cardinality({k} \X (1 .. n)) = n
<1> DEFINE S == {k}
           T == 1 .. n
<1>1. IsFiniteSet(S) /\ Cardinality(S) = 1
  BY FS_Singleton
<1>2. IsFiniteSet(T) /\ Cardinality(T) = n
  BY FS_Interval
<1> HIDE DEF S, T
<1>3. /\ IsFiniteSet(S \X T)
      /\ Cardinality(S \X T) = Cardinality(S) * Cardinality(T)
  BY <1>1, <1>2, FS_Product
<1>4. IsFiniteSet(S \X T) /\ Cardinality(S \X T) = n
  BY <1>1, <1>2, <1>3
<1> QED  BY <1>4 DEF S, T

\* Two functions that differ at one key only: their totals differ as they do there.
\* It is behind every step that moves units in or out of a reservation.
LEMMA TotalMoves ==
  ASSUME NEW f \in [Key -> Nat], NEW g \in [Key -> Nat], NEW k \in Key,
         IsFiniteSet(Units(f)), \A i \in Key \ {k} : g[i] = f[i]
  PROVE  /\ IsFiniteSet(Units(g))
         /\ Total(g) \in Nat
         /\ Total(f) \in Nat
         /\ f[k] <= Total(f)
         /\ Total(g) + f[k] = Total(f) + g[k]
<1> DEFINE n == g[k]
           old == {k} \X (1 .. f[k])
           new == {k} \X (1 .. n)
           rest == Units(f) \ old
<1>1. /\ n \in Nat
      /\ IsFiniteSet(old) /\ Cardinality(old) = f[k]
      /\ IsFiniteSet(new) /\ Cardinality(new) = n
  BY BlockSize
<1>2. old \subseteq Units(f)
  BY DEF Units
<1>3. Units(g) = rest \cup new
  <2>1. ASSUME NEW u \in Units(g) PROVE u \in rest \cup new
    <3>1. PICK i \in Key : u \in {i} \X (1 .. g[i])
      BY <2>1 DEF Units
    <3>2. CASE i = k
      BY <3>1, <3>2
    <3>3. CASE i # k
      BY <3>1, <3>3 DEF Units
    <3> QED  BY <3>2, <3>3
  <2>2. ASSUME NEW u \in rest PROVE u \in Units(g)
    <3>1. PICK i \in Key : u \in {i} \X (1 .. f[i])
      BY <2>2 DEF Units
    <3>2. i # k
      BY <2>2, <3>1
    <3> QED  BY <3>1, <3>2 DEF Units
  <2>3. new \subseteq Units(g)
    BY DEF Units
  <2> QED  BY <2>1, <2>2, <2>3
<1>4. rest \cap new = {}
  <2>1. ASSUME NEW u \in rest, u \in new PROVE FALSE
    <3>1. PICK i \in Key : u \in {i} \X (1 .. f[i])
      BY <2>1 DEF Units
    <3>2. i = k
      BY <2>1, <3>1
    <3> QED  BY <2>1, <3>1, <3>2
  <2> QED  BY <2>1
<1>5. /\ IsFiniteSet(rest)
      /\ Cardinality(rest) = Cardinality(Units(f)) - Cardinality(Units(f) \cap old)
  BY FS_Difference
<1>6. Units(f) \cap old = old
  BY <1>2
<1>7. /\ IsFiniteSet(rest \cup new)
      /\ Cardinality(rest \cup new) =
           Cardinality(rest) + Cardinality(new) - Cardinality(rest \cap new)
  BY <1>1, <1>5, FS_Union
<1>8. Cardinality({}) = 0
  BY FS_EmptySet
<1>9. /\ Cardinality(Units(f)) \in Nat /\ Cardinality(rest) \in Nat
      /\ Cardinality(rest \cup new) \in Nat
  BY <1>5, <1>7, FS_CardinalityType
<1>10. f[k] \in Nat
  OBVIOUS
<1> HIDE DEF old, new, rest
<1>11. /\ Cardinality(Units(f) \cap old) = f[k]
       /\ Cardinality(rest \cap new) = 0
       /\ Cardinality(Units(g)) = Cardinality(rest \cup new)
       /\ IsFiniteSet(Units(g))
  BY <1>1, <1>3, <1>4, <1>6, <1>7, <1>8, Zenon
<1>12. /\ Cardinality(rest) + f[k] = Cardinality(Units(f))
       /\ Cardinality(Units(g)) = Cardinality(rest) + n
  BY <1>1, <1>5, <1>7, <1>9, <1>10, <1>11
<1>13. Total(f) = Cardinality(Units(f)) /\ Total(g) = Cardinality(Units(g))
  BY DEF Total
<1> QED  BY <1>9, <1>10, <1>11, <1>12, <1>13

\* A function that is 0 everywhere has no units.
LEMMA TotalZero ==
  ASSUME NEW f, f = [k \in Key |-> 0]
  PROVE  IsFiniteSet(Units(f)) /\ Total(f) = 0
<1>1. Units(f) = {}
  <2>1. 1 .. 0 = {}
    OBVIOUS
  <2>2. \A k \in Key : f[k] = 0
    OBVIOUS
  <2>3. ASSUME NEW u \in Units(f) PROVE FALSE
    <3>1. PICK k \in Key : u \in {k} \X (1 .. f[k])
      BY <2>3 DEF Units
    <3> QED  BY <2>1, <2>2, <3>1
  <2> QED  BY <2>3
<1> QED  BY <1>1, FS_EmptySet DEF Total

-----------------------------------------------------------------------------
\* The inductive invariant

\* What a request has read, and what a row carries, is a plan that was granted;
\* nothing is consumed before a reservation is settled.
PlanInv ==
  /\ \A r \in Request :
       /\ request[r].pc \in {"billable", "ensured"} => request[r].plan \in Plan
       /\ request[r].pc = "ensured" => plan[request[r].cycle] \in Plan
  /\ \A c \in Cycle : plan[c] \in Plan => plan[c] \in granted[c]
OpenInv ==
  \A k \in Key : reservation[k].status \in {"none", "reserved"} => reservation[k].consumed = 0
FiniteInv ==
  \A c \in Cycle : IsFiniteSet(Units(HeldBy(c))) /\ IsFiniteSet(Units(ConsumedBy(c)))

IInv == /\ TypeOK /\ PlanInv /\ OpenInv
        /\ FiniteInv /\ CountersMatch /\ NeverOversold /\ ChargedOnce

\* The two arithmetic helpers on natural numbers.
LEMMA LeastMonus ==
  ASSUME NEW m \in Nat, NEW n \in Nat
  PROVE  /\ Least(m, n) \in Nat /\ Least(m, n) <= m /\ Least(m, n) <= n
         /\ Monus(m, n) \in Nat /\ (n <= m => Monus(m, n) + n = m)
BY DEF Least, Monus

\* Facts about single rows that the type invariant gives.
LEMMA ByType ==
  ASSUME TypeOK, NEW c \in Cycle
  PROVE  HeldBy(c) \in [Key -> Nat] /\ ConsumedBy(c) \in [Key -> Nat]
BY DEF TypeOK, ReservationState, HeldBy, ConsumedBy

\* The same facts after a step.
LEMMA ByTypePrimed ==
  ASSUME TypeOK', NEW c \in Cycle
  PROVE  HeldBy(c)' \in [Key -> Nat] /\ ConsumedBy(c)' \in [Key -> Nat]
BY DEF TypeOK, ReservationState, HeldBy, ConsumedBy

\* The inductive invariant holds initially.
LEMMA InitIInv == Init => IInv
<1> SUFFICES ASSUME Init PROVE IInv
  OBVIOUS
<1> USE UsageAssumption
<1>1. TypeOK
  BY DEF Init, TypeOK, Cycle, RequestState, RequestPc, ReservationState, NoReservation
<1>2. PlanInv /\ OpenInv
  BY DEF Init, PlanInv, OpenInv, NoReservation
<1>3. ASSUME NEW c \in Cycle
      PROVE  HeldBy(c) = [k \in Key |-> 0] /\ ConsumedBy(c) = [k \in Key |-> 0]
  BY DEF Init, NoReservation, HeldBy, ConsumedBy
<1>4. FiniteInv /\ CountersMatch
  BY <1>3, TotalZero DEF Init, FiniteInv, CountersMatch
<1>5. NeverOversold /\ ChargedOnce
  BY DEF Init, NeverOversold, ChargedOnce, NoReservation
<1> QED  BY <1>1, <1>2, <1>4, <1>5 DEF IInv

\* Steps that touch neither the reservations nor the rows' counters.
LEMMA CountersKept ==
  ASSUME IInv, UNCHANGED <<reservation, used, reserved, charges>>,
         \A c \in Cycle : granted[c] \subseteq granted'[c]
  PROVE  OpenInv' /\ FiniteInv' /\ CountersMatch' /\ NeverOversold' /\ ChargedOnce'
<1>1. \A c : HeldBy(c)' = HeldBy(c) /\ ConsumedBy(c)' = ConsumedBy(c)
  BY DEF HeldBy, ConsumedBy
<1>2. \A c : Units(HeldBy(c))' = Units(HeldBy(c)) /\ Units(ConsumedBy(c))' = Units(ConsumedBy(c))
  BY <1>1 DEF Units
<1>3. FiniteInv'
  BY <1>2 DEF IInv, FiniteInv, Cycle
<1>4. CountersMatch'
  BY <1>2 DEF IInv, CountersMatch, Total, Cycle
<1>5. OpenInv' /\ ChargedOnce'
  BY DEF IInv, OpenInv, ChargedOnce
<1>6. NeverOversold'
  BY DEF IInv, NeverOversold, Cycle
<1> QED  BY <1>3, <1>4, <1>5, <1>6

\* reserve_feature_usage keeps the inductive invariant: the row grows by what
\* the new reservation holds, and not beyond its plan.
LEMMA ReserveKeeps ==
  ASSUME IInv, NEW r \in Request, Reserve(r)
  PROVE  IInv'
<1> DEFINE c0 == request[r].cycle
           k == KeyOf[r]
           n == UnitsOf[r]
<1> USE UsageAssumption
<1>1. /\ c0 \in Cycle /\ k \in Key /\ n \in Nat \ {0}
      /\ request[r] \in RequestState
  BY DEF IInv, TypeOK, RequestState
<1>2. TypeOK'
  <2>1. request' \in [Request -> RequestState]
    BY DEF Reserve, IInv, TypeOK, RequestState, RequestPc
  <2>2. reservation' \in [Key -> ReservationState]
    BY <1>1 DEF Reserve, IInv, TypeOK, ReservationState
  <2>3. reserved' \in [Cycle -> Nat]
    BY <1>1 DEF Reserve, IInv, TypeOK
  <2>4. UNCHANGED <<plan, used, period, offered, granted, charges, Cycle>>
    BY DEF Reserve, subscription, Cycle
  <2> QED  BY <2>1, <2>2, <2>3, <2>4 DEF IInv, TypeOK
<1>3. PlanInv'
  BY DEF Reserve, IInv, PlanInv, TypeOK, RequestState, Cycle
<1>4. OpenInv' /\ ChargedOnce'
  BY <1>1 DEF Reserve, IInv, OpenInv, ChargedOnce, TypeOK
<1>5. /\ reservation[k].status = "none" /\ reservation[k].consumed = 0
      /\ \A i \in Key : reservation'[i] = IF i = k
           THEN [status |-> "reserved", cycle |-> c0, units |-> n, consumed |-> 0]
           ELSE reservation[i]
  BY <1>1 DEF Reserve, IInv, OpenInv, TypeOK
<1>6. ASSUME NEW c \in Cycle
      PROVE  /\ IsFiniteSet(Units(HeldBy(c)')) /\ IsFiniteSet(Units(ConsumedBy(c)'))
             /\ Total(HeldBy(c)') = Total(HeldBy(c)) + (IF c = c0 THEN n ELSE 0)
             /\ Total(ConsumedBy(c)') = Total(ConsumedBy(c))
  <2>1. HeldBy(c) \in [Key -> Nat] /\ IsFiniteSet(Units(HeldBy(c)))
        /\ ConsumedBy(c) \in [Key -> Nat] /\ IsFiniteSet(Units(ConsumedBy(c)))
    BY ByType DEF IInv, FiniteInv
  <2>2. HeldBy(c)' \in [Key -> Nat] /\ ConsumedBy(c)' \in [Key -> Nat]
    BY <1>2, ByTypePrimed
  <2>3. /\ HeldBy(c)[k] = 0 /\ HeldBy(c)'[k] = IF c = c0 THEN n ELSE 0
        /\ ConsumedBy(c)[k] = 0 /\ ConsumedBy(c)'[k] = 0
    BY <1>1, <1>5 DEF HeldBy, ConsumedBy
  <2>4. \A i \in Key \ {k} : HeldBy(c)'[i] = HeldBy(c)[i] /\ ConsumedBy(c)'[i] = ConsumedBy(c)[i]
    BY <1>5 DEF HeldBy, ConsumedBy
  <2> QED  BY <1>1, <2>1, <2>2, <2>3, <2>4, TotalMoves
<1>7. FiniteInv'
  BY <1>6 DEF FiniteInv, Units, Cycle
<1>8. CountersMatch'
  <2>1. ASSUME NEW c \in Cycle
        PROVE  /\ reserved'[c] = reserved[c] + (IF c = c0 THEN n ELSE 0)
               /\ used'[c] = used[c]
    BY <1>1 DEF Reserve, IInv, TypeOK
  <2>2. \A c \in Cycle : reserved'[c] = Total(HeldBy(c)') /\ used'[c] = Total(ConsumedBy(c)')
    BY <1>6, <2>1 DEF IInv, CountersMatch
  <2> QED  BY <2>2 DEF CountersMatch, Total, Units, Cycle
<1>9. NeverOversold'
  <2>1. plan[c0] \in granted[c0]
    BY <1>1 DEF Reserve, IInv, PlanInv
  <2>2. plan[c0] \in Unlimited \/ used[c0] + reserved[c0] + n <= LimitOf[plan[c0]]
    BY DEF Reserve, Fits
  <2>3. /\ used' = used /\ granted' = granted
        /\ reserved' = [reserved EXCEPT ![c0] = @ + n]
    BY DEF Reserve
  <2>4. used \in [Cycle -> Nat] /\ reserved \in [Cycle -> Nat]
    BY DEF IInv, TypeOK
  <2>5. plan[c0] \in Plan
    BY <1>1 DEF Reserve, IInv, PlanInv
  <2>6. LimitOf[plan[c0]] \in Nat
    BY <2>5
  <2>7. ASSUME NEW c \in Cycle
        PROVE \/ used'[c] + reserved'[c] = 0
              \/ \E p \in granted'[c] : p \in Unlimited \/ used'[c] + reserved'[c] <= LimitOf[p]
    <3>1. CASE c = c0
      <4>1. used'[c] + reserved'[c] = used[c0] + reserved[c0] + n
        BY <1>1, <2>3, <2>4, <3>1
      <4> QED  BY <2>1, <2>2, <2>3, <3>1, <4>1
    <3>2. CASE c # c0
      <4>1. used'[c] = used[c] /\ reserved'[c] = reserved[c]
        BY <2>3, <2>4, <3>2
      <4> QED  BY <2>3, <4>1 DEF IInv, NeverOversold
    <3> QED  BY <3>1, <3>2
  <2> QED  BY <2>7 DEF NeverOversold, Cycle
<1> QED  BY <1>2, <1>3, <1>4, <1>7, <1>8, <1>9 DEF IInv

\* finalize_usage_reservation keeps it: what a reservation held leaves the row,
\* what it consumed enters it.
LEMMA SettleKeeps ==
  ASSUME IInv, NEW r \in Request, NEW quantity \in 0 .. UnitsOf[r], Settle(r, quantity)
  PROVE  IInv'
<1> DEFINE k == KeyOf[r]
           c0 == reservation[k].cycle
           n == reservation[k].units
           m == Least(quantity, n)
<1> USE UsageAssumption
<1>1. /\ k \in Key /\ reservation[k] \in ReservationState
      /\ c0 \in Cycle /\ n \in Nat /\ m \in Nat /\ m <= n
  <2>1. k \in Key /\ reservation[k] \in ReservationState
    BY DEF IInv, TypeOK
  <2>2. c0 \in Cycle /\ n \in Nat
    BY <2>1 DEF ReservationState
  <2>3. quantity \in Nat
    OBVIOUS
  <2>4. m \in Nat /\ m <= n
    BY <2>2, <2>3 DEF Least
  <2> QED  BY <2>1, <2>2, <2>4
<1>2. PlanInv'
  BY DEF Settle, IInv, PlanInv, TypeOK, RequestState, Cycle
<1>3. request' \in [Request -> RequestState]
  BY DEF Settle, IInv, TypeOK, RequestState, RequestPc
<1>4. CASE reservation[k].status # "reserved"
  <2>1. UNCHANGED <<reservation, used, reserved, charges, plan, granted, period, offered>>
    BY <1>4 DEF Settle, subscription
  <2>2. TypeOK'
    BY <1>3, <2>1 DEF IInv, TypeOK, Cycle
  <2> QED  BY <1>2, <2>1, <2>2, CountersKept DEF IInv
<1>5. CASE reservation[k].status = "reserved"
  <2> DEFINE settled == IF m > 0 THEN "finalized" ELSE "released"
  <2>1. /\ used' = [used EXCEPT ![c0] = @ + m]
        /\ reserved' = [reserved EXCEPT ![c0] = Monus(@, n)]
        /\ reservation' = [reservation EXCEPT ![k].status = settled, ![k].consumed = m]
        /\ charges' = [charges EXCEPT ![k] = @ + 1]
        /\ UNCHANGED <<plan, period, offered, granted>>
    BY <1>5 DEF Settle, subscription
  <2>2. reservation[k].consumed = 0
    BY <1>1, <1>5 DEF IInv, OpenInv
  <2>3. \A i \in Key : /\ reservation'[i].status = IF i = k THEN settled ELSE reservation[i].status
                       /\ reservation'[i].consumed = IF i = k THEN m ELSE reservation[i].consumed
                       /\ reservation'[i].cycle = reservation[i].cycle
                       /\ reservation'[i].units = reservation[i].units
    BY <1>1, <2>1 DEF IInv, TypeOK, ReservationState
  <2>4. TypeOK'
    <3>1. reservation' \in [Key -> ReservationState]
      BY <1>1, <2>1 DEF IInv, TypeOK, ReservationState
    <3>2. used' \in [Cycle -> Nat] /\ charges' \in [Key -> Nat]
      BY <1>1, <2>1 DEF IInv, TypeOK
    <3>3. reserved[c0] \in Nat
      BY <1>1 DEF IInv, TypeOK
    <3>4. reserved' \in [Cycle -> Nat]
      BY <1>1, <2>1, <3>3, LeastMonus DEF IInv, TypeOK
    <3> QED  BY <1>3, <2>1, <3>1, <3>2, <3>4 DEF IInv, TypeOK, Cycle
  <2>5. OpenInv' /\ ChargedOnce'
    <3>1. ChargedOnce'
      BY <1>1, <1>5, <2>1, <2>3 DEF IInv, ChargedOnce, TypeOK
    <3> QED  BY <2>3, <3>1 DEF IInv, OpenInv
  <2>6. ASSUME NEW c \in Cycle
        PROVE  /\ IsFiniteSet(Units(HeldBy(c)')) /\ IsFiniteSet(Units(ConsumedBy(c)'))
               /\ Total(HeldBy(c)') + (IF c = c0 THEN n ELSE 0) = Total(HeldBy(c))
               /\ Total(ConsumedBy(c)') = Total(ConsumedBy(c)) + (IF c = c0 THEN m ELSE 0)
               /\ Total(HeldBy(c)') \in Nat
    <3>1. HeldBy(c) \in [Key -> Nat] /\ IsFiniteSet(Units(HeldBy(c)))
          /\ ConsumedBy(c) \in [Key -> Nat] /\ IsFiniteSet(Units(ConsumedBy(c)))
      BY ByType DEF IInv, FiniteInv
    <3>2. HeldBy(c)' \in [Key -> Nat] /\ ConsumedBy(c)' \in [Key -> Nat]
      BY <2>4, ByTypePrimed
    <3>3. /\ HeldBy(c)[k] = IF c = c0 THEN n ELSE 0
          /\ HeldBy(c)'[k] = 0
          /\ ConsumedBy(c)[k] = 0
          /\ ConsumedBy(c)'[k] = IF c = c0 THEN m ELSE 0
      BY <1>1, <1>5, <2>2, <2>3 DEF HeldBy, ConsumedBy
    <3>4. \A i \in Key \ {k} : HeldBy(c)'[i] = HeldBy(c)[i] /\ ConsumedBy(c)'[i] = ConsumedBy(c)[i]
      BY <2>3 DEF HeldBy, ConsumedBy
    <3> QED  BY <1>1, <3>1, <3>2, <3>3, <3>4, TotalMoves
  <2>7. FiniteInv'
    BY <2>6 DEF FiniteInv, Units, Cycle
  <2>8. ASSUME NEW c \in Cycle
        PROVE  /\ reserved'[c] = Total(HeldBy(c)') /\ used'[c] = Total(ConsumedBy(c)')
               /\ used'[c] + reserved'[c] <= used[c] + reserved[c]
    <3>1. /\ reserved[c] = Total(HeldBy(c)) /\ used[c] = Total(ConsumedBy(c))
          /\ reserved[c] \in Nat /\ used[c] \in Nat
      BY DEF IInv, CountersMatch, TypeOK
    <3>2. /\ reserved'[c] = IF c = c0 THEN Monus(reserved[c], n) ELSE reserved[c]
          /\ used'[c] = IF c = c0 THEN used[c] + m ELSE used[c]
      BY <1>1, <2>1 DEF IInv, TypeOK
    <3>3. n <= reserved[c] => Monus(reserved[c], n) + n = reserved[c] /\ Monus(reserved[c], n) \in Nat
      BY <1>1, <3>1, LeastMonus
    <3> QED  BY <1>1, <2>6, <3>1, <3>2, <3>3
  <2>9. CountersMatch'
    BY <2>8 DEF CountersMatch, Total, Units, Cycle
  <2>10. NeverOversold'
    <3>1. \A p \in Plan : LimitOf[p] \in Nat
      OBVIOUS
    <3>2. ASSUME NEW c \in Cycle
          PROVE \/ used'[c] + reserved'[c] = 0
                \/ \E p \in granted'[c] : p \in Unlimited \/ used'[c] + reserved'[c] <= LimitOf[p]
      <4>1. used[c] \in Nat /\ reserved[c] \in Nat /\ granted[c] \subseteq Plan
        BY DEF IInv, TypeOK
      <4>2. used'[c] \in Nat /\ reserved'[c] \in Nat
        BY <2>4 DEF TypeOK, Cycle
      <4>3. granted' = granted /\ used'[c] + reserved'[c] <= used[c] + reserved[c]
        BY <2>1, <2>8
      <4>4. CASE used[c] + reserved[c] = 0
        BY <4>1, <4>2, <4>3, <4>4
      <4>5. CASE used[c] + reserved[c] # 0
        <5>1. PICK p \in granted[c] : p \in Unlimited \/ used[c] + reserved[c] <= LimitOf[p]
          BY <4>5 DEF IInv, NeverOversold
        <5>2. p \in Unlimited \/ used'[c] + reserved'[c] <= LimitOf[p]
          BY <3>1, <4>1, <4>2, <4>3, <5>1
        <5> QED  BY <4>3, <5>2
      <4> QED  BY <4>4, <4>5
    <3> QED  BY <3>2 DEF NeverOversold, Cycle
  <2> QED  BY <1>2, <2>4, <2>5, <2>7, <2>9, <2>10 DEF IInv
<1> QED  BY <1>4, <1>5

\* Every step keeps the inductive invariant.
LEMMA NextIInv == IInv /\ [Next]_vars => IInv'
<1> SUFFICES ASSUME IInv, [Next]_vars PROVE IInv'
  OBVIOUS
<1> USE UsageAssumption
<1>1. ASSUME TypeOK', PlanInv', UNCHANGED <<reservation, used, reserved, charges>>,
             \A c \in Cycle : granted[c] \subseteq granted'[c]
      PROVE  IInv'
  BY <1>1, CountersKept DEF IInv
<1>2. ASSUME NEW r \in Request, LookUp(r) PROVE IInv'
  <2>1. \/ request' = [request EXCEPT ![r].pc = "working"]
        \/ request' = [request EXCEPT ![r] = [pc |-> "billable", cycle |-> period, plan |-> offered]]
    BY <1>2 DEF LookUp
  <2>2. UNCHANGED <<reservation, plan, used, reserved, period, offered, granted, charges>>
    BY <1>2 DEF LookUp, row, subscription
  <2>3. request' \in [Request -> RequestState]
    <3>1. request \in [Request -> RequestState] /\ request[r] \in RequestState
      BY DEF IInv, TypeOK
    <3>2. [request[r] EXCEPT !.pc = "working"] \in RequestState
      BY <3>1 DEF RequestState, RequestPc
    <3>3. [pc |-> "billable", cycle |-> period, plan |-> offered] \in RequestState
      BY DEF IInv, TypeOK, RequestState, RequestPc, Cycle
    <3> QED  BY <2>1, <3>1, <3>2, <3>3
  <2>4. TypeOK'
    BY <2>2, <2>3 DEF IInv, TypeOK, Cycle
  <2>5. \A i \in Request : \/ request'[i] = request[i]
                           \/ request'[i].pc = "working"
                           \/ request'[i].pc = "billable" /\ request'[i].plan = offered
    BY <2>1 DEF IInv, TypeOK, RequestState
  <2>6. PlanInv'
    BY <2>2, <2>5 DEF IInv, PlanInv, TypeOK, Cycle
  <2> QED  BY <1>1, <2>2, <2>4, <2>6
<1>3. ASSUME NEW r \in Request, request' = [request EXCEPT ![r].pc = "ended"],
             UNCHANGED <<reservation, plan, used, reserved, period, offered, granted, charges>>
      PROVE  IInv'
  <2>1. TypeOK'
    BY <1>3 DEF IInv, TypeOK, RequestState, RequestPc, Cycle
  <2>2. PlanInv'
    BY <1>3 DEF IInv, PlanInv, TypeOK, RequestState, Cycle
  <2> QED  BY <1>1, <1>3, <2>1, <2>2
<1>4. ASSUME NEW r \in Request, EnsureCycle(r) PROVE IInv'
  <2>1. request[r] \in RequestState /\ request[r].cycle \in Cycle /\ request[r].plan \in Plan
    BY <1>4 DEF EnsureCycle, IInv, TypeOK, PlanInv, RequestState
  <2>2. UNCHANGED <<reservation, used, reserved, period, offered, charges>>
    BY <1>4 DEF EnsureCycle, subscription
  <2>3. TypeOK'
    <3>1. request' \in [Request -> RequestState]
      BY <1>4 DEF EnsureCycle, IInv, TypeOK, RequestState, RequestPc
    <3>2. plan' \in [Cycle -> Plan \cup {NoPlan}] /\ granted' \in [Cycle -> SUBSET Plan]
      BY <1>4, <2>1 DEF EnsureCycle, IInv, TypeOK
    <3> QED  BY <2>2, <3>1, <3>2 DEF IInv, TypeOK, Cycle
  <2>4. PlanInv'
    BY <1>4, <2>1 DEF EnsureCycle, IInv, PlanInv, TypeOK, RequestState, Cycle
  <2>5. \A c \in Cycle : granted[c] \subseteq granted'[c]
    BY <1>4, <2>1 DEF EnsureCycle, IInv, TypeOK
  <2> QED  BY <1>1, <2>2, <2>3, <2>4, <2>5
<1>5. ASSUME UNCHANGED <<request, reservation, plan, used, reserved, granted, charges>>,
             period' \in Cycle, offered' \in Plan
      PROVE  IInv'
  <2>1. TypeOK' /\ PlanInv'
    BY <1>5 DEF IInv, TypeOK, PlanInv, Cycle
  <2> QED  BY <1>1, <1>5, <2>1
<1>6. ASSUME NEW r \in Request, Refuse(r) \/ ReserveFails(r) \/ Crash(r) PROVE IInv'
  BY <1>3, <1>6 DEF Refuse, ReserveFails, Crash, row, subscription
<1>7. CASE NextPeriod
  BY <1>5, <1>7 DEF NextPeriod, row, IInv, TypeOK, Cycle
<1>8. ASSUME NEW p \in Plan, ChangePlan(p) PROVE IInv'
  BY <1>5, <1>8 DEF ChangePlan, row, IInv, TypeOK
<1>9. CASE UNCHANGED vars
  BY <1>5, <1>9 DEF vars, row, subscription, IInv, TypeOK
<1> QED
  BY <1>2, <1>4, <1>6, <1>7, <1>8, <1>9, ReserveKeeps, SettleKeeps DEF Next

-----------------------------------------------------------------------------
\* Every variable keeps its type.
THEOREM TypeCorrect == Spec => []TypeOK
<1>1. IInv => TypeOK
  BY DEF IInv
<1> QED  BY <1>1, InitIInv, NextIInv, PTL DEF Spec

\* The counters that reserve_feature_usage and finalize_usage_reservation keep are
\* what the reservations of the cycle hold and have consumed.
THEOREM CountersAlwaysMatch == Spec => []CountersMatch
<1>1. IInv => CountersMatch
  BY DEF IInv
<1> QED  BY <1>1, InitIInv, NextIInv, PTL DEF Spec

\* The test under the row lock of reserve_feature_usage is enough: however many
\* requests reserve at once, a cycle is never promised more than a plan allowed.
THEOREM QuotaNeverOversold == Spec => []NeverOversold
<1>1. IInv => NeverOversold
  BY DEF IInv
<1> QED  BY <1>1, InitIInv, NextIInv, PTL DEF Spec

\* A reservation yields one usage event, when it is settled.
THEOREM EveryReservationChargedOnce == Spec => []ChargedOnce
<1>1. IInv => ChargedOnce
  BY DEF IInv
<1> QED  BY <1>1, InitIInv, NextIInv, PTL DEF Spec

\* A settled reservation is never settled or taken over again, by another request with
\* its key or by a late answer, and no refresh of a cycle gives consumed units back.
THEOREM SettledStays == Spec => SettledForGood
<1> DEFINE Kept ==
      /\ \A c \in Cycle : used'[c] >= used[c]
      /\ \A k \in Key : reservation[k].status \in {"finalized", "released"}
                          => reservation'[k] = reservation[k]
<1>1. ASSUME IInv, [Next]_vars PROVE Kept
  <2>0. /\ used \in [Cycle -> Nat] /\ reservation \in [Key -> ReservationState]
        /\ KeyOf \in [Request -> Key] /\ UnitsOf \in [Request -> Nat \ {0}]
    BY <1>1, UsageAssumption DEF IInv, TypeOK
  <2>1. CASE UNCHANGED <<used, reservation>>
    BY <2>0, <2>1
  <2>2. ASSUME NEW r \in Request, Reserve(r) PROVE Kept
    <3>1. /\ UNCHANGED used /\ reservation[KeyOf[r]].status = "none"
          /\ \A k \in Key \ {KeyOf[r]} : reservation'[k] = reservation[k]
      BY <2>0, <2>2 DEF Reserve
    <3> QED  BY <2>0, <3>1
  <2>3. ASSUME NEW r \in Request, NEW quantity \in 0 .. UnitsOf[r], Settle(r, quantity)
        PROVE  Kept
    <3> DEFINE k == KeyOf[r]
               consumed == Least(quantity, reservation[k].units)
    <3>1. consumed \in Nat /\ k \in Key
      <4>1. k \in Key /\ UnitsOf[r] \in Nat
        BY <2>0
      <4>2. reservation[k].units \in Nat /\ quantity \in Nat
        BY <2>0, <4>1 DEF ReservationState
      <4> HIDE DEF k
      <4> QED  BY <4>1, <4>2, LeastMonus
    <3>2. CASE reservation[k].status # "reserved"
      BY <2>0, <2>3, <3>2 DEF Settle
    <3>3. CASE reservation[k].status = "reserved"
      <4> HIDE DEF consumed
      <4>1. /\ used' = [used EXCEPT ![reservation[k].cycle] = @ + consumed]
            /\ \A i \in Key \ {k} : reservation'[i] = reservation[i]
        BY <2>0, <2>3, <3>3 DEF Settle, consumed
      <4>2. \A c \in Cycle : used'[c] >= used[c]
        BY <2>0, <3>1, <4>1
      <4> QED  BY <3>3, <4>1, <4>2
    <3> QED  BY <3>2, <3>3
  <2>4. UNCHANGED <<used, reservation>>
        \/ \E r \in Request : Reserve(r) \/ \E quantity \in 0 .. UnitsOf[r] : Settle(r, quantity)
    BY <1>1 DEF Next, LookUp, Refuse, EnsureCycle, ReserveFails, Crash, NextPeriod, ChangePlan,
       vars, row
  <2> QED  BY <2>1, <2>2, <2>3, <2>4
<1>2. IInv /\ [Next]_vars => [Kept]_vars
  BY <1>1
<1> QED  BY <1>2, InitIInv, NextIInv, PTL DEF Spec, SettledForGood
=============================================================================
