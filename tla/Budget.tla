------------------------------- MODULE Budget -------------------------------
(***************************************************************************)
(* What the safety rails of pm-executor promise about trading limits, with *)
(* no mechanism: an order may be granted only while the number of orders   *)
(* and the USD committed, this order included, are within max_orders and   *)
(* max_usd_exposure.  CircuitBreaker is shown to implement it.             *)
(***************************************************************************)
EXTENDS Naturals

CONSTANTS
    MaxOrders,   \* safety.max_orders
    MaxCents,    \* safety.max_usd_exposure, in cents
    Costs        \* the costs, in cents, an order can have

VARIABLES
    orders,      \* orders granted so far, those of earlier runs included
    cents        \* cents they committed

Init == orders \in Nat /\ cents \in Nat

Grant(k) ==
    /\ orders + 1 <= MaxOrders
    /\ cents + k <= MaxCents
    /\ orders' = orders + 1
    /\ cents' = cents + k

Next == \E k \in Costs : Grant(k)

Spec == Init /\ [][Next]_<<orders, cents>>
=============================================================================
