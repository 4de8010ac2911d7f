------------------------------ MODULE Universe ------------------------------
(***************************************************************************)
(* The market registry and the subscriptions together: the universe a      *)
(* refresh selects becomes the assets of the feed managers.  What hands    *)
(* one to the other is not in the repository yet: the model supplies the   *)
(* least, which takes the outcome of each refresh, as it comes, and gives  *)
(* the assets of the selected markets to every manager.                    *)
(***************************************************************************)
EXTENDS MarketRegistry, Subscriptions

CONSTANT AssetsOf      \* the assets of a market, by its id

ASSUME UniverseAssumption ==
    \A c \in Catalogs : \A x \in Unite(c) :
        IsFiniteSet(AssetsOf[x.id]) /\ AssetsOf[x.id] \subseteq Nat

VARIABLE wanted        \* the assets the caller gave the managers last

vars == <<registryVars, subscriptionVars, wanted>>

Assets(universe) == UNION {AssetsOf[id] : id \in universe}

\* A caller of refresh_once has its outcome.  An error changes nothing.
HandOver(r) ==
    /\ calls[r].phase = "done"
    /\ calls' = [calls EXCEPT ![r] = Idle]
    /\ IF calls[r].outcome = Nothing \/ Policy.bypass
       THEN UNCHANGED <<subscriptionVars, wanted>>
       ELSE /\ wanted' = Assets(calls[r].outcome.universe)
            /\ Reconfigure(wanted')
    /\ UNCHANGED <<catalog, registry, count>>

Init == RegistryInit /\ SubscriptionsInit /\ wanted = StartAssets

Next ==
    \/ RegistryStep /\ UNCHANGED <<subscriptionVars, wanted>>
    \/ SubscriptionsStep /\ UNCHANGED <<registryVars, wanted>>
    \/ \E r \in Refreshers : HandOver(r)

Spec == Init /\ [][Next]_vars

-----------------------------------------------------------------------------
\* Properties.

TypeOK ==
    /\ registry.next_sequence \in 0..MaxRefreshes
    /\ \A r \in Refreshers :
         /\ calls[r].phase \in {"idle", "fetch", "failed", "number", "store", "done"}
         /\ calls[r].retries \in 0..MaxRetries
    /\ \A m \in Shards : wires[m].up => managers[m].running

\* Every asset that is wanted is some manager's, and no two managers have one:
\* each is fed once (subscription_plan.rs:83).  A manager whose shard stays the
\* same does not tell its client what is wanted now (feed.rs:282).
ShardsPartition ==
    /\ \A m, n \in Shards : m # n => managers[m].assets \cap managers[n].assets = {}
    /\ UNION {managers[m].assets : m \in Shards} = wanted
=============================================================================
