--------------------------- MODULE CircuitBreaker ---------------------------
(***************************************************************************)
(* pm-executor/src/safety.rs: the lock-free CircuitBreaker.  It is three   *)
(* atomics behind Arcs that any number of cloned handles use at once.      *)
(* check_and_record is not one atomic step: it loads the tripped flag,     *)
(* adds to the order counter, adds to the USD counter and stores the flag, *)
(* each an atomic of its own, and other callers run in between.  Every     *)
(* atomic access is an action here.                                        *)
(*                                                                         *)
(* The u64 width of the counters is not modelled: CountersBounded shows    *)
(* they never pass the limits by more than one call per caller.            *)
(*                                                                         *)
(* A definition named X_Fault is X with a mistake the code could have made *)
(* in its place; no action uses it.                                        *)
(***************************************************************************)
EXTENDS Integers, FiniteSets

CONSTANTS
    Callers,     \* the threads that call the breaker
    MaxOrders,   \* max_orders
    MaxCents,    \* max_usd_cents
    Costs,       \* price * size of the triggers, in tenths of a cent
    ShortCosts,  \* those whole cents whose f64 product falls just below
    Restored     \* the counters a process may start from

ASSUME CallersAssumption == IsFiniteSet(Callers)
ASSUME LimitsAssumption == MaxOrders \in Nat /\ MaxCents \in Nat
ASSUME CostsAssumption == /\ Costs \subseteq Nat
                          /\ \A m \in ShortCosts : m >= 10
ASSUME RestoredAssumption == Restored \subseteq [orders : Nat, cents : Nat]

VARIABLES
    ordersFired,   \* orders_fired
    usdCents,      \* usd_committed_cents
    tripped,       \* tripped
    pc,            \* where each caller is in check_and_record
    cost,          \* price * size of each caller's current call
    restored,      \* history: the counters the breaker was built with
    granted,       \* history: calls that returned Ok
    grantedCents,  \* history: the cents those calls recorded
    exposure,      \* history: what those calls really commit, in tenths of a cent
    stragglers     \* history: calls in progress when the flag was stored

flags   == <<ordersFired, usdCents, tripped>>
history == <<restored, granted, grantedCents, exposure, stragglers>>
vars    == <<flags, pc, cost, history>>

-----------------------------------------------------------------------------

\* A caller outside check_and_record, with the result of its last call.
Resting == {"idle", "ok", "err"}

\* The points of check_and_record before its next atomic access.
Calling == {"orders", "usd", "trip"}

\* Faults: the cast made on dollars, and a rounding that goes below zero.
CentsOf_Dollars(m) == 100 * (m \div 1000)
CentsOf_Negative(m) == m \div 10 - 1

\* (price_f * size_f * 100.0) as u64: the cast drops the fraction of a cent,
\* and drops a whole cent when the product is just below it (0.58 * 0.5 * 100.0
\* is 28.999999999999996).
CentsOf(m) == IF m \in ShortCosts THEN m \div 10 - 1 ELSE m \div 10

InCall == {c \in Callers : pc[c] \in Calling}

WithInitialCounts(r) ==
    /\ ordersFired = r.orders
    /\ usdCents = r.cents
    /\ tripped = FALSE
    /\ pc = [c \in Callers |-> "idle"]
    /\ cost = [c \in Callers |-> 0]
    /\ restored = r
    /\ granted = 0
    /\ grantedCents = 0
    /\ exposure = 10 * r.cents
    /\ stragglers = {}

Init == \E r \in Restored : WithInitialCounts(r)

\* The same constructor in a process that starts again.
Rebuild(r) ==
    /\ ordersFired' = r.orders
    /\ usdCents' = r.cents
    /\ tripped' = FALSE
    /\ pc' = [c \in Callers |-> "idle"]
    /\ cost' = [c \in Callers |-> 0]
    /\ restored' = r
    /\ granted' = 0
    /\ grantedCents' = 0
    /\ exposure' = 10 * r.cents
    /\ stragglers' = {}

-----------------------------------------------------------------------------

\* The call starts, for a trigger whose price and size make m: refused at once
\* when the flag is set.
LoadTripped(c, m) ==
    /\ pc[c] \in Resting
    /\ cost' = [cost EXCEPT ![c] = m]
    /\ pc' = [pc EXCEPT ![c] = IF tripped THEN "err" ELSE "orders"]
    /\ UNCHANGED <<flags, history>>

\* orders_fired.fetch_add(1), and the check on the value it returned.
FireOrder(c) ==
    /\ pc[c] = "orders"
    /\ ordersFired' = ordersFired + 1
    /\ pc' = [pc EXCEPT ![c] = IF ordersFired + 1 > MaxOrders
                               THEN "trip" ELSE "usd"]
    /\ UNCHANGED <<usdCents, tripped, cost, history>>

\* The call returns Ok.
Granted(c) ==
    /\ pc' = [pc EXCEPT ![c] = "ok"]
    /\ granted' = granted + 1
    /\ grantedCents' = grantedCents + CentsOf(cost[c])
    /\ exposure' = exposure + cost[c]
    /\ UNCHANGED <<restored, stragglers, ordersFired, tripped, cost>>

\* Faults: the sum before the addition is compared; the sum is stored instead of
\* added to.
CommitUsd_Late(c) ==
    /\ pc[c] = "usd" /\ usdCents <= MaxCents
    /\ usdCents' = usdCents + CentsOf(cost[c])
    /\ Granted(c)

CommitUsd_Store(c) ==
    /\ pc[c] = "usd" /\ CentsOf(cost[c]) <= MaxCents
    /\ usdCents' = CentsOf(cost[c])
    /\ Granted(c)

\* usd_committed_cents.fetch_add(cents): the order is granted unless the sum
\* passes the limit.
CommitUsd(c) ==
    /\ pc[c] = "usd"
    /\ usdCents' = usdCents + CentsOf(cost[c])
    /\ IF usdCents' > MaxCents
       THEN /\ pc' = [pc EXCEPT ![c] = "trip"]
            /\ UNCHANGED <<ordersFired, tripped, cost, history>>
       ELSE Granted(c)

\* tripped.store(true), by caller c.
SetTripped(c) ==
    /\ tripped' = TRUE
    /\ stragglers' = IF tripped THEN stragglers ELSE InCall \ {c}
    /\ UNCHANGED <<ordersFired, usdCents, restored, granted, grantedCents, exposure>>

\* Fault: the flag is not stored.
StoreTripped_Lost(c) ==
    /\ pc[c] = "trip"
    /\ pc' = [pc EXCEPT ![c] = "err"]
    /\ UNCHANGED <<flags, cost, history>>

\* A limit was passed: store the flag, return Err.
StoreTripped(c) ==
    /\ pc[c] = "trip"
    /\ SetTripped(c)
    /\ pc' = [pc EXCEPT ![c] = "err"]
    /\ UNCHANGED cost

\* trip(): the manual trip, by a caller that is not inside a call.
Trip(c) ==
    /\ pc[c] \in Resting
    /\ SetTripped(c)
    /\ UNCHANGED <<pc, cost>>

CallStep(c) == FireOrder(c) \/ CommitUsd(c) \/ StoreTripped(c)

Next == \E c \in Callers :
            \/ \E m \in Costs : LoadTripped(c, m)
            \/ FireOrder(c)
            \/ CommitUsd(c)
            \/ StoreTripped(c)
            \/ Trip(c)

Spec == Init /\ [][Next]_vars

-----------------------------------------------------------------------------

TypeOK ==
    /\ ordersFired \in Nat
    /\ usdCents \in Nat
    /\ tripped \in BOOLEAN
    /\ pc \in [Callers -> Resting \cup Calling]
    /\ cost \in [Callers -> Nat]
    /\ restored \in [orders : Nat, cents : Nat]
    /\ granted \in Nat
    /\ grantedCents \in Nat
    /\ exposure \in Nat
    /\ stragglers \subseteq Callers

MaxOf(a, b) == IF a > b THEN a ELSE b

\* However calls interleave, the orders granted, those restored from disk
\* included, never pass max_orders (check_and_record's "Check limits and record
\* an order atomically").
OrdersWithinLimit == granted > 0 => restored.orders + granted <= MaxOrders

\* Nor do the cents recorded for them pass max_usd_cents.
UsdWithinLimit == granted > 0 => restored.cents + grantedCents <= MaxCents

\* What the granted orders really commit can pass the limit only by what the
\* casts to cents drop: less than two cents an order.  It does pass it by that:
\* config.toml's "max total USD committed" is kept only to the cents counted.
ExposureBounded ==
    granted > 0 => exposure <= 10 * MaxCents + 19 * granted

\* The counters that stats() reports and the state file keeps never fall short
\* of what was granted: no interleaving loses an increment.
CountersCoverGrants ==
    /\ restored.orders + granted <= ordersFired
    /\ restored.cents + grantedCents <= usdCents

\* A refused call leaves its increment behind ("prev_orders + 1" is not undone),
\* but the order counter stops growing: each caller passes the limit at most once
\* before the flag it stored refuses it.
CountersBounded ==
    ordersFired <= MaxOf(restored.orders, MaxOrders) + Cardinality(Callers)

\* A call that starts after tripped was stored is refused; only the calls already
\* past the load may still be granted.
NoEntryAfterTrip ==
    tripped => \A c \in Callers : pc[c] \in {"orders", "usd"} => c \in stragglers

\* The breaker implements the abstract budget: an Ok is a Grant.
BudgetOf == INSTANCE Budget WITH Costs  <- {CentsOf(m) : m \in Costs},
                                 orders <- restored.orders + granted,
                                 cents  <- restored.cents + grantedCents
BudgetKept == BudgetOf!Spec
=============================================================================
