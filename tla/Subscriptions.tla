---------------------------- MODULE Subscriptions ----------------------------
(***************************************************************************)
(* pm-data's subscriptions: the planner (subscription_plan.rs), the feed   *)
(* managers that own a shard of the assets each and their stores (feed.rs, *)
(* reference_store.rs), and the part of the WebSocket client that keeps    *)
(* and replays the assets it wants (ws.rs).                                *)
(*                                                                         *)
(* A manager is reconfigured while it is not running: run borrows it until *)
(* it returns.  Messages may be processed before that too, by              *)
(* process_message.  The exchange is external.  Books and reference states *)
(* are reduced to whether there is one of an asset; module Feed has what   *)
(* is in them.                                                             *)
(*                                                                         *)
(* A definition named X_Fault is X with a mistake the code could have made *)
(* in its place; no action uses it.                                        *)
(***************************************************************************)
EXTENDS Integers, Sequences, FiniteSets, SequencesExt

CONSTANTS
    ShardCount,      \* shard_count, and as many managers, one of each shard_index
    MaxBatch,        \* max_batch_size
    StartAssets,     \* the assets the managers are made with: naturals, in the
                     \*   order of their ids
    MaxMessages,     \* bound: messages
    MaxBreaks        \* bound: connections that break

ASSUME SubscriptionsAssumption ==
    /\ ShardCount \in Nat /\ MaxBatch \in Nat
    /\ StartAssets \subseteq Nat /\ IsFiniteSet(StartAssets)
    /\ {MaxMessages, MaxBreaks} \subseteq Nat

VARIABLES
    managers,    \* PolymarketFeedManager and its WsClient, by shard_index
    stores,      \* FeedStores of each: [books, references], sets of assets
    wires,       \* the connection of each: [up, todo, subscribed, again], again if
                 \*   an earlier one broke
    used         \* [messages, breaks], for the bounds

subscriptionVars == <<managers, stores, wires, used>>

AtLeastOne(n) == IF n > 1 THEN n ELSE 1

Shards == 0..(AtLeastOne(ShardCount) - 1)

-----------------------------------------------------------------------------
\* The planner.

\* The place of an asset in the order of a BTreeSet, from 0.
Place(asset, assets) == Cardinality({a \in assets : a < asset})

\* Fault: the first assets to the first shard, and so on, the rest to none.
Assigned_Blocks(desired, shard) ==
    LET n == AtLeastOne(Cardinality(desired) \div AtLeastOne(ShardCount))
    IN  {a \in desired : Place(a, desired) \div n = shard}

\* assign_subscription_shards, assigned_asset_ids_for_config.
Assigned(desired, shard) ==
    {a \in desired : Place(a, desired) % AtLeastOne(ShardCount) = shard}

Command(operation, assets) == [operation |-> operation, assets |-> assets]

Batch(assets, b) == {a \in assets : Place(a, assets) \div AtLeastOne(MaxBatch) = b - 1}

\* Fault: chunks of the full size only.
Batches_Full(operation, assets) ==
    [b \in 1..(Cardinality(assets) \div AtLeastOne(MaxBatch)) |-> Command(operation, Batch(assets, b))]

\* append_batched_commands: the last chunk may be shorter.
Batches(operation, assets) ==
    [b \in 1..((Cardinality(assets) + AtLeastOne(MaxBatch) - 1) \div AtLeastOne(MaxBatch)) |->
        Command(operation, Batch(assets, b))]

\* plan_subscription_commands
Plan(current, desired, shard) ==
    Batches("Unsubscribe", current \ Assigned(desired, shard))
        \o Batches("Subscribe", Assigned(desired, shard) \ current)

\* What the exchange makes of a command.
Carry(subscribed, c) ==
    IF c.operation = "Subscribe" THEN subscribed \cup c.assets ELSE subscribed \ c.assets

-----------------------------------------------------------------------------
\* A manager.

\* Fault: the assets that are added are cleared.
Cleared_Added(m, next) == next \ managers[m].assets

Cleared(m, next) == managers[m].assets \ next

\* reconfigure_assets of the manager and, unless its shard stays the same, of the
\* client, which keeps its own copy of what is desired.  No connection takes the
\* commands; the next one starts from the desired assets.
Reconfigured(m, desired) ==
    LET next == Assigned(desired, m)
        clientHas == Assigned(managers[m].desired, m)
    IN  IF managers[m].assets = next THEN managers[m]
        ELSE [managers[m] EXCEPT !.assets = next, !.desired = desired,
                                 !.issued = @ \o Plan(clientHas, desired, m)]

\* clear_asset of the order books and clear_instrument of the references.
ClearBooks(store, assets) == [store EXCEPT !.books = @ \ assets]
ClearInstruments(store, assets) == [store EXCEPT !.references = @ \ assets]

StoresAfter(m, desired) ==
    LET gone == Cleared(m, Assigned(desired, m))
    IN  ClearInstruments(ClearBooks(stores[m], gone), gone)

\* All managers that are not running are given the same assets.
Reconfigure(desired) ==
    /\ \A m \in Shards : ~managers[m].running
    /\ managers' = [m \in Shards |-> Reconfigured(m, desired)]
    /\ stores' = [m \in Shards |-> StoresAfter(m, desired)]
    /\ UNCHANGED <<wires, used>>

\* run: the client connects.
Run(m) ==
    /\ ~managers[m].running
    /\ managers' = [managers EXCEPT ![m].running = TRUE]
    /\ UNCHANGED <<stores, wires, used>>

Connect(m) ==
    /\ managers[m].running /\ ~wires[m].up
    /\ wires' = [wires EXCEPT ![m] = [@ EXCEPT !.up = TRUE, !.todo = Plan({}, managers[m].desired, m)]]
    /\ UNCHANGED <<managers, stores, used>>

\* send_subscription_command.
SendCommand(m) ==
    /\ wires[m].up /\ wires[m].todo # <<>>
    /\ wires' = [wires EXCEPT ![m].subscribed = Carry(@, Head(wires[m].todo)),
                              ![m].todo = Tail(@)]
    /\ UNCHANGED <<managers, stores, used>>

\* The connection breaks, between two commands or later; the Reconnected message
\* that follows all but the first of them clears the books, not the references.
Break(m) ==
    /\ wires[m].up /\ used.breaks < MaxBreaks
    /\ wires' = [wires EXCEPT ![m] = [up |-> FALSE, todo |-> <<>>, subscribed |-> {}, again |-> TRUE]]
    /\ used' = [used EXCEPT !.breaks = @ + 1]
    /\ stores' = IF ~wires[m].again THEN stores ELSE [stores EXCEPT ![m].books = {}]
    /\ UNCHANGED managers

\* apply_update_to_stores: a book goes to the one store, any other fact of an
\* asset to the other.
Receive(m, asset) ==
    /\ used.messages < MaxMessages
    /\ used' = [used EXCEPT !.messages = @ + 1]
    /\ asset \in IF managers[m].running THEN wires[m].subscribed ELSE managers[m].assets
    /\ \/ stores' = [stores EXCEPT ![m].books = @ \cup {asset}]
       \/ stores' = [stores EXCEPT ![m].references = @ \cup {asset}]
    /\ UNCHANGED <<managers, wires>>

SubscriptionsInit ==
    /\ managers = [m \in Shards |-> [assets |-> Assigned(StartAssets, m), desired |-> StartAssets,
                                     issued |-> <<>>, running |-> FALSE]]
    /\ stores = [m \in Shards |-> [books |-> {}, references |-> {}]]
    /\ wires = [m \in Shards |-> [up |-> FALSE, todo |-> <<>>, subscribed |-> {}, again |-> FALSE]]
    /\ used = [messages |-> 0, breaks |-> 0]

SubscriptionsStep ==
    \E m \in Shards :
        \/ Run(m) \/ Connect(m) \/ SendCommand(m) \/ Break(m)
        \/ \E asset \in managers[m].assets \cup wires[m].subscribed : Receive(m, asset)

-----------------------------------------------------------------------------
\* Properties.

\* Replaying every command a client issued on the assets it began with gives the
\* assets its manager owns now, and a connection that has sent its commands is
\* subscribed to just those: the client's own copy of what is desired never
\* parts from the manager's (feed.rs:276, ws.rs:151).
CommandsLead ==
    \A m \in Shards :
        /\ FoldLeft(Carry, Assigned(StartAssets, m), managers[m].issued) = managers[m].assets
        /\ wires[m].up /\ wires[m].todo = <<>> => wires[m].subscribed = managers[m].assets

\* Only the assets a manager owns have a state in its stores: a removed asset
\* takes its book and its references with it, and comes back without them
\* (feed.rs:84).
OnlyOwnedStored ==
    \A m \in Shards : stores[m].books \cup stores[m].references \subseteq managers[m].assets
=============================================================================
