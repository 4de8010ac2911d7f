--------------------------- MODULE MarketRegistry ---------------------------
(***************************************************************************)
(* pm-data's market discovery: MarketRegistry (market_registry.rs), the    *)
(* Gamma provider it pages through (registry_provider.rs), the snapshot it *)
(* keeps and the universe selected from it (snapshot.rs).                  *)
(*                                                                         *)
(* refresh_once takes &self, so several calls may be under way: between    *)
(* them lie the awaits of the pages and two separate locks of the state,   *)
(* one to number a snapshot and one to store it.  The service behind the   *)
(* provider is external.  Time (the cadence, the waits between retries) is *)
(* left out: a retry happens.                                              *)
(*                                                                         *)
(* A definition named X_Fault is X with a mistake the code could have made *)
(* in its place; no action uses it.                                        *)
(***************************************************************************)
EXTENDS Integers, Sequences, FiniteSets, SequencesExt

CONSTANTS
    Refreshers,      \* callers of refresh_once
    Catalogs,        \* what the service may hold: sequences of events, an event
                     \*   is a sequence of records, see Record
    PageSize,        \* page_size
    MaxRetries,      \* retry_policy.max_retries
    Policy,          \* UniverseSelectionPolicy
    Nothing,         \* None: nothing stored, no next offset
    MaxRefreshes,    \* bound: calls of refresh_once
    MaxFaults,       \* bound: requests that fail
    MaxChanges       \* bound: changes of the catalog

ASSUME MarketRegistryAssumption ==
    /\ PageSize \in Nat \ {0}
    /\ {MaxRetries, MaxRefreshes, MaxFaults, MaxChanges} \subseteq Nat
    /\ Nothing \notin Nat
    /\ \A c \in Catalogs : /\ c \in Seq({c[i] : i \in DOMAIN c})
                          /\ \A i \in DOMAIN c : c[i] \in Seq(ToSet(c[i]))

VARIABLES
    catalog,     \* the service's events
    registry,    \* RegistryState
    calls,       \* the refresh each refresher is in
    count        \* [refreshes, faults, changes], for the bounds

registryVars == <<catalog, registry, calls, count>>

\* A record of the service: form "ok", "odd" (normalize_gamma_market refuses it)
\* or "broken" (a field without which the page cannot be parsed is missing).
Record(id, form, closed, active, orderBook, reward) ==
    [id |-> id, form |-> form, closed |-> closed, active |-> active,
     enable_order_book |-> orderBook, reward |-> reward]

-----------------------------------------------------------------------------
\* The provider.

\* MarketMeta, from a record that is "ok".
Meta(r) ==
    [market_id |-> r.id, reward |-> r.reward,
     status |-> CASE r.closed -> "Closed"
                  [] ~r.closed /\ r.active /\ r.enable_order_book -> "Active"
                  [] ~r.closed /\ r.active /\ ~r.enable_order_book -> "Suspended"
                  [] OTHER -> "Unknown"]

Unite(events) == UNION {ToSet(events[i]) : i \in DOMAIN events}

ASSUME RecordsAssumption ==
    \A c \in Catalogs : \A x \in Unite(c) : x.form \in {"ok", "odd", "broken"}

RecordCount(events) == FoldFunction(LAMBDA e, n : Len(e) + n, 0, events)

\* Fault: records that are set aside are not counted.
NextOffset_Accepted(offset, events) ==
    IF FoldFunction(LAMBDA e, n : Cardinality({r \in ToSet(e) : r.form = "ok"}) + n, 0, events) < PageSize
    THEN Nothing ELSE offset + PageSize

\* A page of fewer records than the limit is taken for the last one.
NextOffset(offset, events) ==
    IF RecordCount(events) < PageSize THEN Nothing ELSE offset + PageSize

\* The service pages by events: limit and offset count those.
EventsAt(offset) ==
    SubSeq(catalog, offset + 1, IF offset + PageSize > Len(catalog) THEN Len(catalog) ELSE offset + PageSize)

-----------------------------------------------------------------------------
\* The universe, SelectedUniverse::resolve.

Reason(m) ==
    CASE m.market_id \in Policy.exclude -> "ExplicitExclude"
      [] m.market_id \in Policy.include \ Policy.exclude -> "ExplicitInclude"
      [] OTHER -> IF Policy.active_only /\ m.status # "Active" THEN "InactiveStatus"
                  ELSE IF Policy.require_reward /\ ~m.reward THEN "MissingReward"
                  ELSE "Active"

Selected(markets) ==
    IF Policy.bypass THEN {}
    ELSE {m.market_id : m \in {x \in markets : Reason(x) \in {"Active", "ExplicitInclude"}}}

-----------------------------------------------------------------------------
\* A refresh.

Idle == [phase |-> "idle", offset |-> 0, markets |-> {}, quarantined |-> {},
         retries |-> 0, sequence |-> 0, settled |-> FALSE, outcome |-> Nothing]

Outcome(snapshot, universe, degraded) ==
    [sequence |-> snapshot.sequence, universe |-> universe, degraded |-> degraded]

Begin(r) ==
    /\ calls[r].phase = "idle" /\ count.refreshes < MaxRefreshes
    /\ calls' = [calls EXCEPT ![r] = [Idle EXCEPT !.phase = "fetch", !.settled = TRUE]]
    /\ count' = [count EXCEPT !.refreshes = @ + 1]
    /\ UNCHANGED <<catalog, registry>>

\* markets.insert: the later record of an id stays.
Insert(markets, new) ==
    {m \in markets : \A n \in new : n.market_id # m.market_id} \cup new

\* A page arrives.
FetchPage(r) ==
    LET c == calls[r]
        events == EventsAt(c.offset)
        next == NextOffset(c.offset, events)
        records == Unite(events)
    IN  /\ c.phase = "fetch"
        /\ \A x \in records : x.form # "broken"
        /\ calls' = [calls EXCEPT ![r] =
               [c EXCEPT !.markets = Insert(@, {Meta(x) : x \in {y \in records : y.form = "ok"}}),
                         !.quarantined = @ \cup {x.id : x \in {y \in records : y.form = "odd"}},
                         !.retries = 0,
                         !.offset = IF next = Nothing THEN @ ELSE next,
                         !.phase = IF next = Nothing THEN "number" ELSE "fetch"]]
        /\ UNCHANGED <<catalog, registry, count>>

MayRetry(c) == c.retries < MaxRetries

\* A request fails: 429, 5xx and transport errors are retried, others not.  A
\* page that cannot be parsed fails for good.
FetchFails(r, transient) ==
    LET c == calls[r]
    IN  /\ c.phase = "fetch"
        /\ \/ /\ count.faults < MaxFaults
              /\ count' = [count EXCEPT !.faults = @ + 1]
           \/ /\ ~transient /\ \E x \in Unite(EventsAt(c.offset)) : x.form = "broken"
              /\ UNCHANGED count
        /\ calls' = [calls EXCEPT ![r] =
               IF transient /\ MayRetry(c) THEN [c EXCEPT !.retries = @ + 1]
               ELSE [c EXCEPT !.phase = "failed"]]
        /\ UNCHANGED <<catalog, registry>>

\* Fault: the snapshot is numbered after the one that is stored.
SequenceFor_Stored == IF registry.current = Nothing THEN 1 ELSE registry.current.sequence + 1

SequenceFor == registry.next_sequence + 1

\* The first lock.
Number(r) ==
    /\ calls[r].phase = "number"
    /\ registry' = [registry EXCEPT !.next_sequence = @ + 1]
    /\ calls' = [calls EXCEPT ![r].sequence = SequenceFor, ![r].phase = "store"]
    /\ UNCHANGED <<catalog, count>>

\* The second lock.
Store(r) ==
    LET c == calls[r]
        snapshot == [sequence |-> c.sequence, markets |-> c.markets, quarantined |-> c.quarantined]
        universe == Selected(c.markets)
    IN  /\ c.phase = "store"
        /\ registry' = [registry EXCEPT !.current = snapshot, !.current_universe = universe,
                                        !.last_good = snapshot, !.last_good_universe = universe]
        /\ calls' = [calls EXCEPT ![r].phase = "done",
                                  ![r].outcome = Outcome(snapshot, universe, FALSE)]
        /\ UNCHANGED <<catalog, count>>

\* Fault: what a failed refresh had collected is taken for the universe.
FallBack_Partial(r) == Outcome([sequence |-> 0], Selected(calls[r].markets), TRUE)

\* The last good snapshot, or an error.
FallBack(r) ==
    IF registry.last_good = Nothing THEN Nothing
    ELSE Outcome(registry.last_good, registry.last_good_universe, TRUE)

Degrade(r) ==
    /\ calls[r].phase = "failed"
    /\ calls' = [calls EXCEPT ![r].phase = "done", ![r].outcome = FallBack(r)]
    /\ UNCHANGED <<catalog, registry, count>>

\* The service lists other markets now.
CatalogChanges ==
    /\ count.changes < MaxChanges
    /\ count' = [count EXCEPT !.changes = @ + 1]
    /\ \E c \in Catalogs \ {catalog} : catalog' = c
    /\ calls' = [r \in Refreshers |-> [calls[r] EXCEPT !.settled = FALSE]]
    /\ UNCHANGED registry

RegistryInit ==
    /\ catalog \in Catalogs
    /\ registry = [current |-> Nothing, current_universe |-> Nothing, last_good |-> Nothing,
                   last_good_universe |-> Nothing, next_sequence |-> 0]
    /\ calls = [r \in Refreshers |-> Idle]
    /\ count = [refreshes |-> 0, faults |-> 0, changes |-> 0]

RegistryStep ==
    \/ \E r \in Refreshers :
         \/ Begin(r) \/ FetchPage(r) \/ Number(r) \/ Store(r) \/ Degrade(r)
         \/ \E transient \in BOOLEAN : FetchFails(r, transient)
    \/ CatalogChanges

-----------------------------------------------------------------------------
\* Properties.

\* specs/11b: "multi-page discovery returns a complete registry snapshot".  When
\* the service did not change under it, a snapshot about to be stored accounts
\* for every record the service lists (registry_provider.rs:113).
SnapshotsComplete ==
    \A r \in Refreshers : calls[r].phase \in {"number", "store"} /\ calls[r].settled =>
        {m.market_id : m \in calls[r].markets} \cup calls[r].quarantined
            = {x.id : x \in Unite(catalog)}

\* Whatever request fails, a refresh yields the universe of all the service lists
\* or that of the last complete refresh, never one of the pages it got
\* (market_registry.rs:113); here while the service's list stays as it is.
UniversesWhole ==
    \A r \in Refreshers : calls[r].outcome # Nothing /\ count.changes = 0 =>
        calls[r].outcome.universe
            = Selected({Meta(x) : x \in {y \in Unite(catalog) : y.form = "ok"}})

\* Two snapshots never have the same number, whatever refreshes overlap
\* (market_registry.rs:159).
SequencesUnique ==
    /\ \A r, s \in Refreshers : r # s /\ calls[r].phase = "store" /\ calls[s].phase = "store" =>
           calls[r].sequence # calls[s].sequence
    /\ \A r \in Refreshers : calls[r].phase = "store" /\ registry.current # Nothing =>
           calls[r].sequence # registry.current.sequence
=============================================================================
