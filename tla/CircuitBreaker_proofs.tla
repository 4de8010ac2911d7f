------------------------ MODULE CircuitBreaker_proofs ------------------------
(***************************************************************************)
(* Theorems about CircuitBreaker, for any number of callers, any limits,   *)
(* any costs and any restored counters.                                    *)
(***************************************************************************)
EXTENDS CircuitBreaker, FiniteSetTheorems, TLAPS

\* Calls whose increment of the order counter passed the check and whose cents
\* are still to be added.
Admitted == {c \in Callers : pc[c] = "usd"}

\* Callers that cannot add to the order counter any more without first meeting
\* the flag: at the store, or outside the increment with the flag set.
Halted == {c \in Callers : pc[c] = "trip" \/ (tripped /\ pc[c] # "orders")}

\* An order granted or admitted took one increment, made below the limit.
OrdersInv ==
    LET n == granted + Cardinality(Admitted)
    IN  /\ restored.orders + n <= ordersFired
        /\ n > 0 => restored.orders + n <= MaxOrders

\* The cents granted are among the cents added, and the last grant was made below
\* the limit.
UsdInv ==
    /\ restored.cents + grantedCents <= usdCents
    /\ granted > 0 => restored.cents + grantedCents <= MaxCents
    /\ exposure <= 10 * (restored.cents + grantedCents) + 19 * granted

\* The increments above the limit are owned by distinct halted callers.
OverrunInv ==
    ordersFired <= MaxOf(restored.orders, MaxOrders) + Cardinality(Halted)

\* A call in progress carries the cost of a trigger.
CostInv == \A c \in Callers : pc[c] \in Calling => cost[c] \in Costs

IInv == TypeOK /\ CostInv /\ OrdersInv /\ UsdInv /\ OverrunInv /\ NoEntryAfterTrip

-----------------------------------------------------------------------------

\* The cast to cents is a natural number and drops less than two cents.
LEMMA CentsOfType ==
    ASSUME NEW m \in Nat, m \in ShortCosts => m >= 10
    PROVE  CentsOf(m) \in Nat /\ m <= 10 * CentsOf(m) + 19
BY DEF CentsOf

LEMMA TypeInit == Init => TypeOK
<1> SUFFICES ASSUME NEW r \in Restored, WithInitialCounts(r)
             PROVE  TypeOK
  BY DEF Init
<1>1. /\ r \in [orders : Nat, cents : Nat]
      /\ 10 * r.cents \in Nat
  BY RestoredAssumption
<1>2. QED
  BY <1>1 DEF WithInitialCounts, TypeOK, Resting, Calling

LEMMA TypeStep == TypeOK /\ [Next]_vars => TypeOK'
<1> SUFFICES ASSUME TypeOK, [Next]_vars
             PROVE  TypeOK'
  OBVIOUS
<1> USE DEF TypeOK, Resting, Calling, flags, history
<1>1. ASSUME NEW c \in Callers, NEW m \in Costs, LoadTripped(c, m)
      PROVE  TypeOK'
  BY <1>1, CostsAssumption DEF LoadTripped
<1>2. ASSUME NEW c \in Callers, FireOrder(c)
      PROVE  TypeOK'
  BY <1>2 DEF FireOrder
<1>3. ASSUME NEW c \in Callers, CommitUsd(c)
      PROVE  TypeOK'
  BY <1>3, CentsOfType, CostsAssumption DEF CommitUsd, Granted
<1>4. ASSUME NEW c \in Callers, StoreTripped(c)
      PROVE  TypeOK'
  BY <1>4 DEF StoreTripped, SetTripped, InCall
<1>5. ASSUME NEW c \in Callers, Trip(c)
      PROVE  TypeOK'
  BY <1>5 DEF Trip, SetTripped, InCall
<1>6. CASE UNCHANGED vars
  BY <1>6 DEF vars
<1>7. QED
  BY <1>1, <1>2, <1>3, <1>4, <1>5, <1>6 DEF Next

\* Type correctness of the breaker, for every value of the constants.
THEOREM TypeCorrect == Spec => []TypeOK
BY TypeInit, TypeStep, PTL DEF Spec

-----------------------------------------------------------------------------

\* Both sets of callers are finite; a set of callers that only gains members
\* does not shrink in size, and grows by one at least when it gains c.
LEMMA CallerSets ==
    ASSUME NEW S \in SUBSET Callers, NEW T \in SUBSET Callers
    PROVE  /\ Cardinality(S) \in Nat /\ Cardinality(S) <= Cardinality(Callers)
           /\ S \subseteq T => Cardinality(S) <= Cardinality(T)
           /\ \A c \in T \ S : S \subseteq T => Cardinality(S) + 1 <= Cardinality(T)
           /\ \A c \in T \ S : T = S \cup {c} => Cardinality(T) = Cardinality(S) + 1
<1>1. IsFiniteSet(S) /\ IsFiniteSet(T)
  BY CallersAssumption, FS_Subset
<1>2. Cardinality(S) \in Nat /\ Cardinality(T) \in Nat /\ Cardinality(Callers) \in Nat
  BY <1>1, CallersAssumption, FS_CardinalityType
<1>3. Cardinality(S) <= Cardinality(Callers)
  BY CallersAssumption, FS_Subset
<1>4. S \subseteq T => Cardinality(S) <= Cardinality(T)
  BY <1>1, FS_Subset
<1>5. ASSUME NEW c \in T \ S, S \subseteq T
      PROVE  Cardinality(S) + 1 <= Cardinality(T)
  <2>1. /\ IsFiniteSet(S \cup {c})
        /\ Cardinality(S \cup {c}) = Cardinality(S) + 1
    BY <1>1, <1>5, FS_AddElement
  <2>2. S \cup {c} \in SUBSET T
    BY <1>5
  <2>3. Cardinality(S \cup {c}) <= Cardinality(T)
    BY <1>1, <2>2, FS_Subset
  <2>4. QED
    BY <2>1, <2>3
<1>6. ASSUME NEW c \in T \ S, T = S \cup {c}
      PROVE  Cardinality(T) = Cardinality(S) + 1
  BY <1>1, <1>6, FS_AddElement
<1>7. QED
  BY <1>2, <1>3, <1>4, <1>5, <1>6

LEMMA InvInit == Init => IInv
<1> SUFFICES ASSUME NEW r \in Restored, WithInitialCounts(r)
             PROVE  IInv
  BY DEF Init
<1>1. TypeOK
  BY TypeInit DEF Init
<1>2. Admitted = {} /\ Halted = {} /\ Cardinality({}) = 0
  BY FS_EmptySet DEF Admitted, Halted, WithInitialCounts
<1>3. r.orders \in Nat /\ r.cents \in Nat
  BY RestoredAssumption
<1>4. OrdersInv /\ UsdInv /\ OverrunInv
  BY <1>2, <1>3, LimitsAssumption
     DEF OrdersInv, UsdInv, OverrunInv, MaxOf, WithInitialCounts
<1>5. NoEntryAfterTrip
  BY DEF NoEntryAfterTrip, WithInitialCounts
<1>6. CostInv
  BY DEF CostInv, Calling, WithInitialCounts
<1>7. QED
  BY <1>1, <1>4, <1>5, <1>6 DEF IInv

LEMMA CostStep == TypeOK /\ CostInv /\ [Next]_vars => CostInv'
<1> SUFFICES ASSUME TypeOK, CostInv, [Next]_vars
             PROVE  CostInv'
  OBVIOUS
<1> USE DEF TypeOK, CostInv, Resting, Calling, flags, history
<1>1. ASSUME NEW c \in Callers, NEW m \in Costs, LoadTripped(c, m)
      PROVE  CostInv'
  BY <1>1 DEF LoadTripped
<1>2. ASSUME NEW c \in Callers, FireOrder(c) \/ CommitUsd(c)
      PROVE  CostInv'
  BY <1>2 DEF FireOrder, CommitUsd, Granted
<1>3. ASSUME NEW c \in Callers, StoreTripped(c) \/ Trip(c)
      PROVE  CostInv'
  BY <1>3 DEF StoreTripped, Trip
<1>4. CASE UNCHANGED vars
  BY <1>4 DEF vars
<1>5. QED
  BY <1>1, <1>2, <1>3, <1>4 DEF Next

LEMMA InvStep == IInv /\ [Next]_vars => IInv'
<1> SUFFICES ASSUME IInv, [Next]_vars
             PROVE  IInv'
  OBVIOUS
<1> USE LimitsAssumption, CallersAssumption
<1>1. TypeOK' /\ CostInv'
  BY TypeStep, CostStep DEF IInv
<1>2. /\ Admitted \in SUBSET Callers /\ Admitted' \in SUBSET Callers
      /\ Halted \in SUBSET Callers /\ Halted' \in SUBSET Callers
  BY DEF Admitted, Halted
<1>3. /\ Cardinality(Admitted) \in Nat /\ Cardinality(Admitted') \in Nat
      /\ Cardinality(Halted) \in Nat /\ Cardinality(Halted') \in Nat
  BY <1>2, CallerSets
<1>4. Halted \subseteq Halted' => Cardinality(Halted) <= Cardinality(Halted')
  BY <1>2, CallerSets
<1>5. TypeOK /\ OrdersInv /\ UsdInv /\ OverrunInv /\ NoEntryAfterTrip
  BY DEF IInv
<1>6. ASSUME NEW c \in Callers, NEW m \in Costs, LoadTripped(c, m)
      PROVE  IInv'
  <2>1. Admitted' = Admitted /\ Halted' = Halted
    BY <1>5, <1>6 DEF LoadTripped, Admitted, Halted, TypeOK, Resting, Calling, flags
  <2>2. OrdersInv' /\ UsdInv' /\ OverrunInv'
    BY <2>1, <1>5, <1>6
       DEF LoadTripped, OrdersInv, UsdInv, OverrunInv, flags, history
  <2>3. NoEntryAfterTrip'
    BY <1>5, <1>6
       DEF LoadTripped, NoEntryAfterTrip, TypeOK, flags, history
  <2>4. QED
    BY <1>1, <2>2, <2>3 DEF IInv
<1>7. ASSUME NEW c \in Callers, FireOrder(c)
      PROVE  IInv'
  <2> USE DEF FireOrder, history
  <2>1. /\ c \notin Admitted /\ c \notin Halted
        /\ Halted \subseteq Halted'
    BY <1>5, <1>7 DEF Admitted, Halted, TypeOK
  <2>2. NoEntryAfterTrip'
    BY <1>5, <1>7 DEF NoEntryAfterTrip, TypeOK
  <2>3. CASE ordersFired + 1 > MaxOrders
    <3>1. Admitted' = Admitted /\ c \in Halted'
      BY <1>5, <1>7, <2>3 DEF Admitted, Halted, TypeOK
    <3>2. Cardinality(Halted) + 1 <= Cardinality(Halted')
      BY <2>1, <3>1, <1>2, CallerSets
    <3>3. OrdersInv' /\ UsdInv' /\ OverrunInv'
      BY <1>3, <1>5, <1>7, <3>1, <3>2
         DEF OrdersInv, UsdInv, OverrunInv, MaxOf, TypeOK
    <3>4. QED
      BY <1>1, <2>2, <3>3 DEF IInv
  <2>4. CASE ~(ordersFired + 1 > MaxOrders)
    <3>1. Admitted' = Admitted \cup {c}
      BY <1>5, <1>7, <2>4 DEF Admitted, TypeOK
    <3>2. Cardinality(Admitted') = Cardinality(Admitted) + 1
      BY <2>1, <3>1, <1>2, CallerSets
    <3>3. OrdersInv' /\ UsdInv' /\ OverrunInv'
      BY <1>3, <1>5, <1>7, <2>4, <3>2
         DEF OrdersInv, UsdInv, OverrunInv, MaxOf, TypeOK
    <3>4. QED
      BY <1>1, <2>2, <3>3 DEF IInv
  <2>5. QED
    BY <2>3, <2>4
<1>8. ASSUME NEW c \in Callers, CommitUsd(c)
      PROVE  IInv'
  <2> USE DEF CommitUsd, Granted, history
  <2> DEFINE k == CentsOf(cost[c])
  <2>1. k \in Nat /\ cost[c] \in Nat /\ cost[c] <= 10 * k + 19
    BY <1>5, CentsOfType, CostsAssumption DEF TypeOK
  <2>2. c \in Admitted /\ Admitted = Admitted' \cup {c} /\ c \notin Admitted'
    BY <1>5, <1>8 DEF Admitted, TypeOK
  <2>3. Cardinality(Admitted) = Cardinality(Admitted') + 1
    BY <2>2, <1>2, CallerSets
  <2>4. Halted \subseteq Halted'
    BY <1>5, <1>8 DEF Halted, TypeOK
  <2>5. OverrunInv'
    BY <1>3, <1>4, <1>5, <1>8, <2>4 DEF OverrunInv, MaxOf, TypeOK
  <2>6. NoEntryAfterTrip'
    BY <1>5, <1>8 DEF NoEntryAfterTrip, TypeOK
  <2> HIDE DEF k
  <2>7. CASE usdCents + k > MaxCents
    <3>1. UNCHANGED history /\ usdCents' = usdCents + k
      BY <1>8, <2>7 DEF k
    <3>2. OrdersInv' /\ UsdInv'
      BY <1>3, <1>5, <1>8, <2>1, <2>3, <3>1 DEF OrdersInv, UsdInv, TypeOK
    <3>3. QED
      BY <1>1, <2>5, <2>6, <3>2 DEF IInv
  <2>8. CASE ~(usdCents + k > MaxCents)
    <3>1. /\ granted' = granted + 1
          /\ grantedCents' = grantedCents + k
          /\ exposure' = exposure + cost[c]
          /\ usdCents' = usdCents + k
          /\ UNCHANGED <<restored, stragglers, ordersFired>>
      BY <1>8, <2>8 DEF k
    <3>2. OrdersInv'
      BY <1>3, <1>5, <2>3, <3>1 DEF OrdersInv, TypeOK
    <3>3. UsdInv'
      BY <1>5, <2>1, <2>8, <3>1 DEF UsdInv, TypeOK
    <3>4. QED
      BY <1>1, <2>5, <2>6, <3>2, <3>3 DEF IInv
  <2>9. QED
    BY <2>7, <2>8 DEF k
<1>9. ASSUME NEW c \in Callers, SetTripped(c), pc[c] \in Resting \cup {"trip"},
             pc' = pc \/ (pc[c] = "trip" /\ pc' = [pc EXCEPT ![c] = "err"])
      PROVE  IInv'
  <2> USE DEF SetTripped, Resting
  <2>1. Admitted' = Admitted /\ Halted \subseteq Halted'
    BY <1>5, <1>9 DEF Admitted, Halted, TypeOK
  <2>2. OrdersInv' /\ UsdInv' /\ OverrunInv'
    BY <1>3, <1>4, <1>5, <1>9, <2>1
       DEF OrdersInv, UsdInv, OverrunInv, MaxOf, TypeOK
  <2>3. NoEntryAfterTrip'
    BY <1>5, <1>9 DEF NoEntryAfterTrip, InCall, Calling, TypeOK
  <2>4. QED
    BY <1>1, <2>2, <2>3 DEF IInv
<1>10. ASSUME NEW c \in Callers, StoreTripped(c)
       PROVE  IInv'
  BY <1>9, <1>10 DEF StoreTripped
<1>11. ASSUME NEW c \in Callers, Trip(c)
       PROVE  IInv'
  BY <1>9, <1>11 DEF Trip
<1>12. CASE UNCHANGED vars
  BY <1>1, <1>5, <1>12
     DEF IInv, OrdersInv, UsdInv, OverrunInv, NoEntryAfterTrip, Admitted, Halted,
         vars, flags, history
<1>13. QED
  BY <1>6, <1>7, <1>8, <1>10, <1>11, <1>12 DEF Next

\* No interleaving of the atomic accesses of check_and_record and trip leaves the
\* inductive invariant.
THEOREM Invariance == Spec => []IInv
BY InvInit, InvStep, PTL DEF Spec

-----------------------------------------------------------------------------

\* What the inductive invariant says of the grants.
LEMMA InvLimits ==
    IInv => /\ OrdersWithinLimit
            /\ UsdWithinLimit
            /\ ExposureBounded
            /\ CountersCoverGrants
<1> SUFFICES ASSUME IInv
             PROVE  /\ OrdersWithinLimit
                    /\ UsdWithinLimit
                    /\ ExposureBounded
                    /\ CountersCoverGrants
  OBVIOUS
<1>1. Admitted \in SUBSET Callers
  BY DEF Admitted
<1>2. Cardinality(Admitted) \in Nat
  BY <1>1, CallerSets
<1>3. QED
  BY <1>2, LimitsAssumption
     DEF IInv, TypeOK, OrdersInv, UsdInv, OrdersWithinLimit, UsdWithinLimit,
         ExposureBounded, CountersCoverGrants

\* check_and_record never grants an order past max_orders, whatever the number of
\* callers and however their atomic accesses interleave.
THEOREM OrdersSafe == Spec => []OrdersWithinLimit
BY Invariance, InvLimits, PTL

\* Nor does it record more cents for granted orders than max_usd_cents.
THEOREM UsdSafe == Spec => []UsdWithinLimit
BY Invariance, InvLimits, PTL

\* The real exposure passes the limit by less than two cents an order.
THEOREM ExposureSafe == Spec => []ExposureBounded
BY Invariance, InvLimits, PTL

\* The counters cover what was granted, so the state written to disk does.
THEOREM CountersSafe == Spec => []CountersCoverGrants
BY Invariance, InvLimits, PTL

\* The order counter stops within one increment per caller of its limit.
THEOREM CountersStop == Spec => []CountersBounded
<1>1. ASSUME IInv
      PROVE  CountersBounded
  <2>1. Halted \in SUBSET Callers /\ Callers \in SUBSET Callers
    BY DEF Halted
  <2>2. /\ Cardinality(Halted) \in Nat /\ Cardinality(Callers) \in Nat
        /\ Cardinality(Halted) <= Cardinality(Callers)
    BY <2>1, CallerSets
  <2>3. QED
    BY <1>1, <2>2, LimitsAssumption
       DEF IInv, TypeOK, OverrunInv, CountersBounded, MaxOf
<1>2. QED
  BY <1>1, Invariance, PTL

\* No call that starts after the flag was stored passes the first check.
THEOREM TripIsFinal == Spec => []NoEntryAfterTrip
<1>1. IInv => NoEntryAfterTrip
  BY DEF IInv
<1>2. QED
  BY <1>1, Invariance, PTL

-----------------------------------------------------------------------------

\* Every Ok of check_and_record is a Grant of the abstract budget, every other
\* step a stutter: the lock-free breaker implements Budget.
THEOREM ImplementsBudget == Spec => BudgetKept
<1> DEFINE o == restored.orders + granted
           k == restored.cents + grantedCents
<1>1. Init => BudgetOf!Init
  BY TypeInit DEF BudgetOf!Init, TypeOK, Init, WithInitialCounts
<1>2. ASSUME IInv, [Next]_vars
      PROVE  [BudgetOf!Next]_<<o, k>>
  <2>1. ASSUME NEW c \in Callers, CommitUsd(c)
        PROVE  [BudgetOf!Next]_<<o, k>>
    <3>1. CASE usdCents' > MaxCents
      BY <2>1, <3>1 DEF CommitUsd, Granted, history
    <3>2. CASE ~(usdCents' > MaxCents)
      <4>1. cost[c] \in Costs /\ CentsOf(cost[c]) \in Nat
        BY <1>2, <2>1, CentsOfType, CostsAssumption
           DEF CommitUsd, Granted, IInv, CostInv, TypeOK, Calling
      <4>2. Admitted \in SUBSET Callers /\ {} \in SUBSET Callers /\ c \in Admitted
        BY <2>1 DEF Admitted, CommitUsd, Granted
      <4>3. Cardinality(Admitted) \in Nat /\ Cardinality(Admitted) >= 1
        <5>1. Cardinality({}) + 1 <= Cardinality(Admitted)
          BY <4>2, CallerSets
        <5>2. QED
          BY <5>1, <4>2, CallerSets, FS_EmptySet
      <4>4. o + 1 <= MaxOrders
        BY <1>2, <4>3, LimitsAssumption DEF IInv, OrdersInv, TypeOK
      <4>5. k + CentsOf(cost[c]) <= MaxCents
        BY <1>2, <2>1, <3>2, <4>1, LimitsAssumption
           DEF IInv, UsdInv, TypeOK, CommitUsd, Granted
      <4>6. o' = o + 1 /\ k' = k + CentsOf(cost[c])
        <5>1. /\ granted' = granted + 1
              /\ grantedCents' = grantedCents + CentsOf(cost[c])
              /\ restored' = restored
          BY <2>1, <3>2 DEF CommitUsd, Granted
        <5>2. QED
          BY <1>2, <4>1, <5>1 DEF IInv, TypeOK
      <4>7. BudgetOf!Grant(CentsOf(cost[c]))
        BY <4>4, <4>5, <4>6 DEF BudgetOf!Grant
      <4>8. QED
        BY <4>1, <4>7 DEF BudgetOf!Next
    <3>3. QED
      BY <3>1, <3>2
  <2>2. UNCHANGED <<restored, granted, grantedCents>> => [BudgetOf!Next]_<<o, k>>
    OBVIOUS
  <2>3. QED
    BY <1>2, <2>1, <2>2
       DEF Next, vars, history, LoadTripped, FireOrder, StoreTripped, Trip, SetTripped
<1>3. QED
  BY <1>1, <1>2, Invariance, PTL DEF Spec, BudgetKept, BudgetOf!Spec
=============================================================================
