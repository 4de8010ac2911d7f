--------------------------- MODULE Universe_proofs ---------------------------
(***************************************************************************)
(* Theorems about Universe, for any number of refreshers, shards, pages    *)
(* and faults, and any catalogs the service may go through.                *)
(***************************************************************************)
EXTENDS Universe, FiniteSetTheorems, SequenceTheorems, WellFoundedInduction, TLAPS

\* All the service may list.
Records == UNION {Unite(c) : c \in Catalogs}
Metas == {Meta(x) : x \in Records}
Ids == {x.id : x \in Records}

Snapshots == [sequence : Nat, markets : SUBSET Metas, quarantined : SUBSET Ids]
Outcomes == [sequence : Nat, universe : SUBSET Ids, degraded : BOOLEAN]

Calls == [phase : {"idle", "fetch", "failed", "number", "store", "done"},
          offset : Nat, markets : SUBSET Metas, quarantined : SUBSET Ids, retries : Nat,
          sequence : Nat, settled : BOOLEAN, outcome : Outcomes \cup {Nothing}]

\* What the refreshes have and leave.
GoodCall(c) ==
    /\ c \in Calls
    /\ IsFiniteSet(c.markets)
    /\ c.outcome # Nothing => IsFiniteSet(c.outcome.universe)

RegistryTypeOK ==
    /\ catalog \in Catalogs
    /\ registry \in [current : Snapshots \cup {Nothing}, last_good : Snapshots \cup {Nothing},
                     current_universe : (SUBSET Ids) \cup {Nothing},
                     last_good_universe : (SUBSET Ids) \cup {Nothing}, next_sequence : Nat]
    /\ registry.last_good # Nothing =>
           /\ registry.last_good_universe \in SUBSET Ids
           /\ IsFiniteSet(registry.last_good_universe)
    /\ calls \in [Refreshers -> Calls]
    /\ \A r \in Refreshers : GoodCall(calls[r])

\* The numbers that were given out are below the next one.
NumbersBelow ==
    /\ \A r \in Refreshers : calls[r].phase = "store" => calls[r].sequence <= registry.next_sequence
    /\ registry.current # Nothing =>
           /\ registry.current.sequence \in Nat
           /\ registry.current.sequence <= registry.next_sequence

\* All the assets there may be, and commands about some of them.
AllAssets == StartAssets \cup UNION {AssetsOf[id] : id \in Ids}

Commands(assets) == [operation : {"Subscribe", "Unsubscribe"}, assets : SUBSET assets]

SubscriptionsTypeOK ==
    /\ managers \in [Shards -> [assets : SUBSET AllAssets, desired : SUBSET AllAssets,
                                issued : Seq(Commands(AllAssets)), running : BOOLEAN]]
    /\ stores \in [Shards -> [books : SUBSET AllAssets, references : SUBSET AllAssets]]
    /\ wires \in [Shards -> [up : BOOLEAN, todo : Seq(Commands(AllAssets)),
                             subscribed : SUBSET AllAssets, again : BOOLEAN]]
    /\ wanted \in SUBSET AllAssets

\* A manager has its shard of what is wanted, and its client wants the same shard.
Shared ==
    /\ IsFiniteSet(wanted)
    /\ \A m \in Shards :
         /\ managers[m].assets = Assigned(wanted, m)
         /\ IsFiniteSet(managers[m].desired)
         /\ Assigned(managers[m].desired, m) = managers[m].assets

\* A connection, of a manager that runs, asks for nothing else.
Confined ==
    \A m \in Shards :
         /\ wires[m].todo \in Seq(Commands(managers[m].assets))
         /\ wires[m].subscribed \subseteq managers[m].assets
         /\ wires[m].up => managers[m].running
         /\ ~wires[m].up => wires[m].todo = <<>> /\ wires[m].subscribed = {}

RegistryInv == RegistryTypeOK /\ NumbersBelow /\ SequencesUnique

SubscriptionsInv == SubscriptionsTypeOK /\ Shared /\ Confined /\ OnlyOwnedStored

-----------------------------------------------------------------------------
\* Finite sets.

\* The values of a function of finitely many arguments are finitely many.
LEMMA ImageFinite ==
    ASSUME NEW S, IsFiniteSet(S), NEW f, f = [x \in S |-> f[x]]
    PROVE  IsFiniteSet({f[x] : x \in S})
<1>1. f \in Surjection(S, {f[x] : x \in S})
  BY DEF Surjection
<1> QED BY <1>1, FS_Surjection

\* An event has finitely many records.
LEMMA EventFinite ==
    ASSUME NEW e, e \in Seq(ToSet(e)) PROVE IsFiniteSet(ToSet(e))
<1> DEFINE D == DOMAIN e
<1>1. D = 1..Len(e) /\ Len(e) \in Nat /\ e = [i \in D |-> e[i]] /\ ToSet(e) = {e[i] : i \in D}
  BY DEF ToSet
<1> HIDE DEF D
<1>2. IsFiniteSet(D)
  BY <1>1, FS_Interval
<1> QED BY <1>1, <1>2, ImageFinite

\* The records of a catalog, and of a page of it, are finitely many; a page has
\* no others.
LEMMA PageFinite ==
    ASSUME NEW offset \in Nat, catalog \in Catalogs
    PROVE  /\ IsFiniteSet(Unite(EventsAt(offset)))
           /\ Unite(EventsAt(offset)) \subseteq Unite(catalog)
<1> DEFINE events == EventsAt(offset)
           last == IF offset + PageSize > Len(catalog) THEN Len(catalog) ELSE offset + PageSize
           S == {catalog[i] : i \in DOMAIN catalog}
<1>1. catalog \in Seq(S) /\ \A i \in DOMAIN catalog : IsFiniteSet(ToSet(catalog[i]))
  <2>1. /\ catalog \in Seq(S)
        /\ \A i \in DOMAIN catalog : catalog[i] \in Seq(ToSet(catalog[i]))
    BY MarketRegistryAssumption
  <2> QED BY <2>1, EventFinite
<1>2. last \in Nat /\ last <= Len(catalog)
  BY <1>1, MarketRegistryAssumption
<1>3. events = SubSeq(catalog, offset + 1, last)
  BY DEF EventsAt
<1> HIDE DEF events, last, S
<1>4. events \in Seq(S) /\ \A i \in DOMAIN events : /\ i + offset \in DOMAIN catalog
                                                   /\ events[i] = catalog[i + offset]
  BY <1>1, <1>2, <1>3
<1>5. IsFiniteSet({ToSet(events[i]) : i \in DOMAIN events})
  <2>1. DOMAIN events = 1..Len(events) /\ Len(events) \in Nat
    BY <1>4
  <2>2. IsFiniteSet(DOMAIN events)
    BY <2>1, FS_Interval
  <2> DEFINE f == [i \in DOMAIN events |-> ToSet(events[i])]
  <2>3. IsFiniteSet({f[i] : i \in DOMAIN events})
    BY <2>2, ImageFinite
  <2>4. {f[i] : i \in DOMAIN events} = {ToSet(events[i]) : i \in DOMAIN events}
    OBVIOUS
  <2> QED BY <2>3, <2>4
<1>6. \A T \in {ToSet(events[i]) : i \in DOMAIN events} : IsFiniteSet(T)
  BY <1>1, <1>4
<1>7. IsFiniteSet(UNION {ToSet(events[i]) : i \in DOMAIN events})
  BY <1>5, <1>6, FS_UNION
<1> QED BY <1>4, <1>7 DEF Unite, events

\* What the selection leaves of finitely many markets.
LEMMA SelectedGood ==
    ASSUME NEW markets \in SUBSET Metas, IsFiniteSet(markets)
    PROVE  Selected(markets) \in SUBSET Ids /\ IsFiniteSet(Selected(markets))
<1>1. CASE Policy.bypass
  BY <1>1, FS_EmptySet DEF Selected
<1>2. CASE ~Policy.bypass
  <2> DEFINE chosen == {x \in markets : Reason(x) \in {"Active", "ExplicitInclude"}}
  <2>1. chosen \subseteq markets /\ IsFiniteSet(chosen)
    BY FS_Subset
  <2> HIDE DEF chosen
  <2>2. IsFiniteSet({m.market_id : m \in chosen})
    <3> DEFINE f == [m \in chosen |-> m.market_id]
    <3>1. IsFiniteSet({f[m] : m \in chosen})
      BY <2>1, ImageFinite
    <3>2. {f[m] : m \in chosen} = {m.market_id : m \in chosen}
      OBVIOUS
    <3> QED BY <3>1, <3>2
  <2>3. Selected(markets) = {m.market_id : m \in chosen}
    BY <1>2 DEF Selected, chosen
  <2>4. \A m \in Metas : m.market_id \in Ids
    BY DEF Metas, Meta, Ids
  <2> QED BY <2>1, <2>2, <2>3, <2>4
<1> QED BY <1>1, <1>2

\* Finitely many markets stay so with those of a page.
LEMMA InsertGood ==
    ASSUME NEW markets \in SUBSET Metas, IsFiniteSet(markets),
           NEW records \in SUBSET Records, IsFiniteSet(records)
    PROVE  LET all == Insert(markets, {Meta(x) : x \in {y \in records : y.form = "ok"}})
           IN  all \in SUBSET Metas /\ IsFiniteSet(all)
<1> DEFINE kept(new) == {m \in markets : \A n \in new : n.market_id # m.market_id}
           ok == {y \in records : y.form = "ok"}
           new == {Meta(x) : x \in ok}
<1>1. IsFiniteSet(ok)
  BY FS_Subset
<1>2. IsFiniteSet(new)
  <2> HIDE DEF ok
  <2> DEFINE f == [x \in ok |-> Meta(x)]
  <2>1. IsFiniteSet({f[x] : x \in ok})
    BY <1>1, ImageFinite
  <2>2. {f[x] : x \in ok} = new
    OBVIOUS
  <2> QED BY <2>1, <2>2
<1>3. new \subseteq Metas
  BY DEF Metas
<1>4. IsFiniteSet(kept(new)) /\ kept(new) \subseteq markets
  BY FS_Subset
<1> HIDE DEF new
<1>5. IsFiniteSet(kept(new) \cup new)
  BY <1>2, <1>4, FS_Union
<1> QED BY <1>3, <1>4, <1>5 DEF Insert, new

\* The assets of a universe are finitely many.
LEMMA AssetsFinite ==
    ASSUME NEW ids \in SUBSET Ids, IsFiniteSet(ids)
    PROVE  IsFiniteSet(Assets(ids))
<1>1. IsFiniteSet({AssetsOf[id] : id \in ids})
  <2> DEFINE f == [id \in ids |-> AssetsOf[id]]
  <2>1. IsFiniteSet({f[id] : id \in ids})
    BY ImageFinite
  <2>2. {f[id] : id \in ids} = {AssetsOf[id] : id \in ids}
    OBVIOUS
  <2> QED BY <2>1, <2>2
<1>2. \A id \in ids : IsFiniteSet(AssetsOf[id])
  BY UniverseAssumption DEF Ids, Records
<1> QED BY <1>1, <1>2, FS_UNION DEF Assets

-----------------------------------------------------------------------------
\* The registry.

\* A refresher that is not about to store leaves the numbers in order.
LEMMA OtherCall ==
    ASSUME RegistryInv, NEW r \in Refreshers, NEW c, GoodCall(c), c.phase # "store",
           calls' = [calls EXCEPT ![r] = c], UNCHANGED <<catalog, registry>>
    PROVE  RegistryInv'
<1>1. /\ calls' \in [Refreshers -> Calls]
      /\ calls'[r] = c /\ \A s \in Refreshers \ {r} : calls'[s] = calls[s]
  BY DEF RegistryInv, RegistryTypeOK, GoodCall
<1>2. RegistryTypeOK'
  BY <1>1 DEF RegistryInv, RegistryTypeOK, GoodCall
<1>3. NumbersBelow' /\ SequencesUnique'
  BY <1>1 DEF RegistryInv, NumbersBelow, SequencesUnique
<1> QED BY <1>2, <1>3 DEF RegistryInv

\* No refresh, nothing collected.
LEMMA IdleGood == GoodCall(Idle) /\ Idle.phase = "idle"
BY FS_EmptySet DEF Idle, GoodCall, Calls

\* The steps of a refresh up to its snapshot.
LEMMA BeginInv ==
    ASSUME RegistryInv, NEW r \in Refreshers, Begin(r) PROVE RegistryInv'
<1> DEFINE c == [Idle EXCEPT !.phase = "fetch", !.settled = TRUE]
<1>1. GoodCall(c) /\ c.phase # "store"
  BY IdleGood DEF GoodCall, Calls
<1> HIDE DEF c
<1> QED BY <1>1, OtherCall DEF Begin, c

\* A page.
LEMMA FetchPageInv ==
    ASSUME RegistryInv, NEW r \in Refreshers, FetchPage(r) PROVE RegistryInv'
<1> DEFINE c == calls[r]
           events == EventsAt(c.offset)
           next == NextOffset(c.offset, events)
           records == Unite(events)
           markets == Insert(c.markets, {Meta(x) : x \in {y \in records : y.form = "ok"}})
           odd == c.quarantined \cup {x.id : x \in {y \in records : y.form = "odd"}}
           offset == IF next = Nothing THEN c.offset ELSE next
           phase == IF next = Nothing THEN "number" ELSE "fetch"
           new == [c EXCEPT !.markets = markets, !.quarantined = odd, !.retries = 0,
                            !.offset = offset, !.phase = phase]
<1>1. GoodCall(c) /\ c \in Calls /\ catalog \in Catalogs
  BY DEF RegistryInv, RegistryTypeOK, GoodCall
<1>2. IsFiniteSet(records) /\ records \in SUBSET Records
  BY <1>1, PageFinite DEF Calls, Records
<1>3. markets \in SUBSET Metas /\ IsFiniteSet(markets)
  <2>1. c.markets \in SUBSET Metas /\ IsFiniteSet(c.markets)
    BY <1>1 DEF GoodCall, Calls
  <2> HIDE DEF c, records
  <2> QED BY <1>2, <2>1, InsertGood
<1>4. odd \in SUBSET Ids
  <2>1. c.quarantined \in SUBSET Ids
    BY <1>1 DEF Calls
  <2> HIDE DEF c, records
  <2> QED BY <1>2, <2>1 DEF Ids
<1>5. offset \in Nat
  BY <1>1, MarketRegistryAssumption DEF NextOffset, Calls
<1>6. calls' = [calls EXCEPT ![r] = new] /\ UNCHANGED <<catalog, registry>>
  BY DEF FetchPage
<1>7. phase \in {"number", "fetch"}
  OBVIOUS
<1> HIDE DEF c, markets, odd, offset, phase, next
<1>8. new \in Calls /\ new.markets = markets /\ new.outcome = c.outcome /\ new.phase = phase
  BY <1>1, <1>3, <1>4, <1>5, <1>7 DEF Calls
<1>9. GoodCall(new)
  BY <1>1, <1>3, <1>8 DEF GoodCall
<1> HIDE DEF new
<1> QED BY <1>6, <1>7, <1>8, <1>9, OtherCall

\* A request that fails.
LEMMA FetchFailsInv ==
    ASSUME RegistryInv, NEW r \in Refreshers, NEW transient \in BOOLEAN, FetchFails(r, transient)
    PROVE  RegistryInv'
<1> DEFINE c == calls[r]
           new == IF transient /\ MayRetry(c) THEN [c EXCEPT !.retries = @ + 1]
                  ELSE [c EXCEPT !.phase = "failed"]
<1>1. GoodCall(c) /\ c.phase = "fetch"
  BY DEF RegistryInv, RegistryTypeOK, FetchFails
<1>2. calls' = [calls EXCEPT ![r] = new] /\ UNCHANGED <<catalog, registry>>
  BY DEF FetchFails
<1>3. GoodCall(new) /\ new.phase # "store"
  <2> HIDE DEF c
  <2>1. GoodCall([c EXCEPT !.retries = @ + 1]) /\ [c EXCEPT !.retries = @ + 1].phase = c.phase
    BY <1>1 DEF GoodCall, Calls
  <2>2. GoodCall([c EXCEPT !.phase = "failed"]) /\ [c EXCEPT !.phase = "failed"].phase = "failed"
    BY <1>1 DEF GoodCall, Calls
  <2> QED BY <1>1, <2>1, <2>2
<1> HIDE DEF new
<1> QED BY <1>2, <1>3, OtherCall

\* The first lock: the number is above all that were given out.
LEMMA NumberInv ==
    ASSUME RegistryInv, NEW r \in Refreshers, Number(r) PROVE RegistryInv'
<1> DEFINE c == calls[r]
           n == registry.next_sequence + 1
           new == [c EXCEPT !.sequence = n, !.phase = "store"]
<1>1. GoodCall(c) /\ c \in Calls /\ n \in Nat /\ registry.next_sequence \in Nat
  BY DEF RegistryInv, RegistryTypeOK, GoodCall
<1>2. /\ calls' = [calls EXCEPT ![r] = new]
      /\ registry' = [registry EXCEPT !.next_sequence = n]
      /\ UNCHANGED catalog
  BY DEF Number, SequenceFor, RegistryInv, RegistryTypeOK
<1>3. n > registry.next_sequence
  BY <1>1
<1> HIDE DEF c, n
<1>4. new \in Calls /\ new.sequence = n /\ new.phase = "store" /\ GoodCall(new)
  BY <1>1 DEF GoodCall, Calls
<1> HIDE DEF new
<1>5. /\ calls' \in [Refreshers -> Calls]
      /\ calls'[r] = new /\ \A s \in Refreshers \ {r} : calls'[s] = calls[s]
  BY <1>2, <1>4 DEF RegistryInv, RegistryTypeOK
<1>6. /\ registry' \in [current : Snapshots \cup {Nothing}, last_good : Snapshots \cup {Nothing},
                        current_universe : (SUBSET Ids) \cup {Nothing},
                        last_good_universe : (SUBSET Ids) \cup {Nothing}, next_sequence : Nat]
      /\ registry'.next_sequence = n
      /\ registry'.last_good = registry.last_good /\ registry'.current = registry.current
      /\ registry'.last_good_universe = registry.last_good_universe
  BY <1>1, <1>2 DEF RegistryInv, RegistryTypeOK
<1>7. RegistryTypeOK'
  BY <1>2, <1>4, <1>5, <1>6 DEF RegistryInv, RegistryTypeOK, GoodCall
<1>8. \A s \in Refreshers : calls[s].phase = "store" =>
        calls[s].sequence \in Nat /\ calls[s].sequence < n
  BY <1>1, <1>3 DEF RegistryInv, RegistryTypeOK, Calls, NumbersBelow
<1>9. registry.current # Nothing =>
        registry.current.sequence \in Nat /\ registry.current.sequence < n
  BY <1>1, <1>3 DEF RegistryInv, NumbersBelow
<1>10. NumbersBelow'
  BY <1>1, <1>4, <1>5, <1>6, <1>8, <1>9 DEF NumbersBelow
<1>11. SequencesUnique'
  <2>1. ASSUME NEW s \in Refreshers, NEW t \in Refreshers, s # t,
               calls'[s].phase = "store", calls'[t].phase = "store"
        PROVE  calls'[s].sequence # calls'[t].sequence
    BY <1>1, <1>4, <1>5, <1>8, <2>1 DEF RegistryInv, SequencesUnique
  <2>2. ASSUME NEW s \in Refreshers, calls'[s].phase = "store", registry'.current # Nothing
        PROVE  calls'[s].sequence # registry'.current.sequence
    BY <1>1, <1>4, <1>5, <1>6, <1>9, <2>2 DEF RegistryInv, SequencesUnique
  <2> QED BY <2>1, <2>2 DEF SequencesUnique
<1> QED BY <1>7, <1>10, <1>11 DEF RegistryInv

\* The second lock: the number goes from the refresh to the snapshot.
LEMMA StoreInv ==
    ASSUME RegistryInv, NEW r \in Refreshers, Store(r) PROVE RegistryInv'
<1> DEFINE c == calls[r]
           snapshot == [sequence |-> c.sequence, markets |-> c.markets,
                        quarantined |-> c.quarantined]
           universe == Selected(c.markets)
           outcome == Outcome(snapshot, universe, FALSE)
           new == [c EXCEPT !.phase = "done", !.outcome = outcome]
<1>1. GoodCall(c) /\ c \in Calls /\ c.phase = "store"
  BY DEF RegistryInv, RegistryTypeOK, Store, GoodCall
<1>2. universe \in SUBSET Ids /\ IsFiniteSet(universe)
  BY <1>1, SelectedGood DEF GoodCall, Calls
<1>3. /\ calls' = [calls EXCEPT ![r] = new]
      /\ registry' = [registry EXCEPT !.current = snapshot, !.current_universe = universe,
                                      !.last_good = snapshot, !.last_good_universe = universe]
      /\ UNCHANGED catalog
  <2>1. /\ calls' = [calls EXCEPT ![r].phase = "done", ![r].outcome = outcome]
        /\ registry' = [registry EXCEPT !.current = snapshot, !.current_universe = universe,
                                        !.last_good = snapshot, !.last_good_universe = universe]
        /\ UNCHANGED catalog
    BY DEF Store
  <2> HIDE DEF outcome
  <2> QED BY <2>1 DEF RegistryInv, RegistryTypeOK
<1>4. /\ snapshot \in Snapshots /\ snapshot.sequence = c.sequence
      /\ outcome \in Outcomes /\ outcome.universe = universe
  BY <1>1, <1>2 DEF Outcome, Snapshots, Outcomes, Calls
<1> HIDE DEF c, snapshot, universe, outcome
<1>5. new \in Calls /\ new.phase = "done" /\ new.outcome = outcome /\ new.markets = c.markets
  BY <1>1, <1>4 DEF Calls
<1>6. GoodCall(new)
  BY <1>1, <1>2, <1>4, <1>5 DEF GoodCall
<1> HIDE DEF new
<1>7. /\ calls' \in [Refreshers -> Calls]
      /\ calls'[r] = new /\ \A s \in Refreshers \ {r} : calls'[s] = calls[s]
  BY <1>3, <1>5 DEF RegistryInv, RegistryTypeOK
<1>8. /\ registry' \in [current : Snapshots \cup {Nothing}, last_good : Snapshots \cup {Nothing},
                        current_universe : (SUBSET Ids) \cup {Nothing},
                        last_good_universe : (SUBSET Ids) \cup {Nothing}, next_sequence : Nat]
      /\ registry'.next_sequence = registry.next_sequence
      /\ registry'.current = snapshot /\ registry'.last_good_universe = universe
  BY <1>2, <1>3, <1>4 DEF RegistryInv, RegistryTypeOK
<1>9. RegistryTypeOK'
  BY <1>2, <1>3, <1>6, <1>7, <1>8 DEF RegistryInv, RegistryTypeOK, GoodCall
<1>10. c.sequence \in Nat /\ c.sequence <= registry.next_sequence
  BY <1>1 DEF Calls, RegistryInv, NumbersBelow, c
<1>11. NumbersBelow'
  BY <1>4, <1>5, <1>7, <1>8, <1>10 DEF RegistryInv, NumbersBelow
<1>12. SequencesUnique'
  BY <1>1, <1>4, <1>5, <1>7, <1>8 DEF RegistryInv, SequencesUnique, c
<1> QED BY <1>9, <1>11, <1>12 DEF RegistryInv

\* A refresh that failed has the outcome of the last good one.
LEMMA DegradeInv ==
    ASSUME RegistryInv, NEW r \in Refreshers, Degrade(r) PROVE RegistryInv'
<1> DEFINE c == calls[r]
           outcome == FallBack(r)
           new == [c EXCEPT !.phase = "done", !.outcome = outcome]
<1>1. GoodCall(c) /\ c \in Calls
  BY DEF RegistryInv, RegistryTypeOK, GoodCall
<1>2. /\ outcome \in Outcomes \cup {Nothing}
      /\ outcome # Nothing => IsFiniteSet(outcome.universe)
  BY DEF FallBack, Outcome, Outcomes, Snapshots, RegistryInv, RegistryTypeOK
<1>3. calls' = [calls EXCEPT ![r] = new] /\ UNCHANGED <<catalog, registry>>
  <2>1. calls' = [calls EXCEPT ![r].phase = "done", ![r].outcome = outcome]
    BY DEF Degrade
  <2> HIDE DEF outcome
  <2> QED BY <2>1 DEF Degrade, RegistryInv, RegistryTypeOK
<1> HIDE DEF c, outcome
<1>4. GoodCall(new) /\ new.phase = "done"
  BY <1>1, <1>2 DEF GoodCall, Calls
<1> HIDE DEF new
<1> QED BY <1>3, <1>4, OtherCall

\* The service lists other markets: nothing of a refresh changes but the mark.
LEMMA CatalogInv ==
    ASSUME RegistryInv, CatalogChanges PROVE RegistryInv'
<1>1. /\ calls' = [r \in Refreshers |-> [calls[r] EXCEPT !.settled = FALSE]]
      /\ catalog' \in Catalogs /\ UNCHANGED registry
  BY DEF CatalogChanges
<1>2. ASSUME NEW c \in Calls
      PROVE  LET new == [c EXCEPT !.settled = FALSE]
             IN  /\ new \in Calls /\ new.phase = c.phase /\ new.sequence = c.sequence
                 /\ new.markets = c.markets /\ new.outcome = c.outcome
  BY DEF Calls
<1>3. \A r \in Refreshers :
        /\ calls'[r] \in Calls /\ calls'[r].phase = calls[r].phase
        /\ calls'[r].sequence = calls[r].sequence
        /\ calls'[r].markets = calls[r].markets /\ calls'[r].outcome = calls[r].outcome
  BY <1>1, <1>2 DEF RegistryInv, RegistryTypeOK
<1>4. calls' \in [Refreshers -> Calls]
  BY <1>1, <1>2 DEF RegistryInv, RegistryTypeOK
<1>5. RegistryTypeOK'
  BY <1>1, <1>3, <1>4 DEF RegistryInv, RegistryTypeOK, GoodCall
<1>6. NumbersBelow'
  BY <1>1, <1>3 DEF RegistryInv, NumbersBelow
<1>7. SequencesUnique'
  <2>1. \A r \in Refreshers : /\ calls'[r].phase = calls[r].phase
                              /\ calls'[r].sequence = calls[r].sequence
    BY <1>3
  <2>2. ASSUME NEW s \in Refreshers, NEW t \in Refreshers, s # t,
               calls'[s].phase = "store", calls'[t].phase = "store"
        PROVE  calls'[s].sequence # calls'[t].sequence
    <3>1. calls[s].phase = "store" /\ calls[t].phase = "store"
      BY <2>1, <2>2
    <3>2. calls[s].sequence # calls[t].sequence
      BY <2>2, <3>1 DEF RegistryInv, SequencesUnique
    <3> QED BY <2>1, <3>2
  <2>3. ASSUME NEW s \in Refreshers, calls'[s].phase = "store", registry'.current # Nothing
        PROVE  calls'[s].sequence # registry'.current.sequence
    BY <1>1, <2>1, <2>3 DEF RegistryInv, SequencesUnique
  <2> QED BY <2>2, <2>3 DEF SequencesUnique
<1> QED BY <1>5, <1>6, <1>7 DEF RegistryInv

\* Each step of the registry keeps its part of the invariant.
LEMMA RegistryStepInv == RegistryInv /\ RegistryStep => RegistryInv'
BY BeginInv, FetchPageInv, FetchFailsInv, NumberInv, StoreInv, DegradeInv, CatalogInv
   DEF RegistryStep

-----------------------------------------------------------------------------
\* The planner.

\* A shard is a part of the assets, and every asset is in just one.
LEMMA AssignedPart ==
    ASSUME NEW assets, IsFiniteSet(assets)
    PROVE  /\ \A m \in Shards : Assigned(assets, m) \subseteq assets /\ IsFiniteSet(Assigned(assets, m))
           /\ \A m, n \in Shards : m # n => Assigned(assets, m) \cap Assigned(assets, n) = {}
           /\ UNION {Assigned(assets, m) : m \in Shards} = assets
<1>1. \A m \in Shards : Assigned(assets, m) \subseteq assets /\ IsFiniteSet(Assigned(assets, m))
  BY FS_Subset DEF Assigned
<1>2. \A m, n \in Shards : m # n => Assigned(assets, m) \cap Assigned(assets, n) = {}
  BY DEF Assigned
<1>3. ASSUME NEW a \in assets PROVE \E m \in Shards : a \in Assigned(assets, m)
  <2>1. IsFiniteSet({b \in assets : b < a})
    BY FS_Subset
  <2>2. Place(a, assets) \in Nat
    BY <2>1, FS_CardinalityType DEF Place
  <2>3. Place(a, assets) % AtLeastOne(ShardCount) \in Shards
    BY <2>2, SubscriptionsAssumption DEF Shards, AtLeastOne
  <2> QED BY <2>3 DEF Assigned
<1> QED BY <1>1, <1>2, <1>3

\* The commands of a batched list are about its assets.
LEMMA BatchesType ==
    ASSUME NEW operation \in {"Subscribe", "Unsubscribe"}, NEW assets, IsFiniteSet(assets)
    PROVE  Batches(operation, assets) \in Seq(Commands(assets))
<1> DEFINE size == AtLeastOne(MaxBatch)
           n == (Cardinality(assets) + size - 1) \div size
<1>1. size \in Nat /\ size >= 1
  BY SubscriptionsAssumption DEF AtLeastOne
<1>2. Cardinality(assets) \in Nat
  BY FS_CardinalityType
<1>3. n \in Nat
  <2> HIDE DEF size
  <2> QED BY <1>1, <1>2
<1>4. \A b \in 1..n : Command(operation, Batch(assets, b)) \in Commands(assets)
  BY DEF Command, Commands, Batch
<1>5. Batches(operation, assets) = [b \in 1..n |-> Command(operation, Batch(assets, b))]
  BY DEF Batches
<1> HIDE DEF n
<1> QED BY <1>3, <1>4, <1>5

\* Commands about some assets are commands about more.
LEMMA CommandsMore ==
    ASSUME NEW few, NEW more, few \subseteq more, NEW s \in Seq(Commands(few))
    PROVE  s \in Seq(Commands(more))
<1>1. Commands(few) \subseteq Commands(more)
  BY DEF Commands
<1> QED BY <1>1

\* A plan is about the assets there are and those that are to be.
LEMMA PlanType ==
    ASSUME NEW current, IsFiniteSet(current), NEW desired, IsFiniteSet(desired), NEW m \in Shards
    PROVE  Plan(current, desired, m) \in Seq(Commands(current \cup Assigned(desired, m)))
<1> DEFINE next == Assigned(desired, m)
           all == current \cup next
<1>1. IsFiniteSet(next)
  BY AssignedPart
<1>2. IsFiniteSet(current \ next) /\ IsFiniteSet(next \ current)
  BY <1>1, FS_Subset
<1> HIDE DEF next
<1>3. Batches("Unsubscribe", current \ next) \in Seq(Commands(all))
  <2>1. current \ next \subseteq all
    OBVIOUS
  <2> HIDE DEF all
  <2> QED BY <1>2, <2>1, BatchesType, CommandsMore
<1>4. Batches("Subscribe", next \ current) \in Seq(Commands(all))
  <2>1. next \ current \subseteq all
    OBVIOUS
  <2> HIDE DEF all
  <2> QED BY <1>2, <2>1, BatchesType, CommandsMore
<1>5. Plan(current, desired, m) = Batches("Unsubscribe", current \ next) \o Batches("Subscribe", next \ current)
  BY DEF Plan, next
<1>6. \A r, t \in Seq(Commands(all)) : r \o t \in Seq(Commands(all))
  BY ONLY ConcatProperties
<1>7. Plan(current, desired, m) \in Seq(Commands(all))
  BY ONLY <1>3, <1>4, <1>5, <1>6
<1> QED BY ONLY <1>7 DEF all, next

-----------------------------------------------------------------------------
\* The subscriptions.

\* A manager starts to run.
LEMMA RunInv ==
    ASSUME SubscriptionsInv, UNCHANGED wanted, NEW m \in Shards, Run(m) PROVE SubscriptionsInv'
<1>1. /\ managers' = [managers EXCEPT ![m].running = TRUE]
      /\ UNCHANGED <<stores, wires, wanted>>
  BY DEF Run
<1>2. SubscriptionsTypeOK'
  <2>1. SubscriptionsTypeOK
    BY DEF SubscriptionsInv
  <2>2. [managers[m] EXCEPT !.running = TRUE] \in
             [assets : SUBSET AllAssets, desired : SUBSET AllAssets,
              issued : Seq(Commands(AllAssets)), running : BOOLEAN]
    BY ONLY <2>1 DEF SubscriptionsTypeOK
  <2>3. managers' = [managers EXCEPT ![m] = [managers[m] EXCEPT !.running = TRUE]]
    BY <1>1
  <2> QED BY ONLY <1>1, <2>1, <2>2, <2>3 DEF SubscriptionsTypeOK
<1>3. \A k \in Shards : /\ managers'[k].assets = managers[k].assets
                        /\ managers'[k].desired = managers[k].desired
                        /\ managers[k].running => managers'[k].running
  BY <1>1 DEF SubscriptionsInv, SubscriptionsTypeOK
<1>4. Shared' /\ Confined' /\ OnlyOwnedStored'
  BY <1>1, <1>3 DEF SubscriptionsInv, Shared, Confined, OnlyOwnedStored
<1> QED BY <1>2, <1>4 DEF SubscriptionsInv

\* What changes a connection only keeps the rest.
LEMMA WireInv ==
    ASSUME SubscriptionsInv, UNCHANGED <<managers, wanted>>, NEW m \in Shards,
           NEW w \in [up : BOOLEAN, todo : Seq(Commands(managers[m].assets)),
                      subscribed : SUBSET managers[m].assets, again : BOOLEAN],
           wires' = [wires EXCEPT ![m] = w],
           w.up => managers[m].running,
           ~w.up => w.todo = <<>> /\ w.subscribed = {},
           stores' \in [Shards -> [books : SUBSET AllAssets, references : SUBSET AllAssets]],
           OnlyOwnedStored'
    PROVE  SubscriptionsInv'
<1>1. managers[m].assets \in SUBSET AllAssets
  BY DEF SubscriptionsInv, SubscriptionsTypeOK
<1>2. w.todo \in Seq(Commands(AllAssets))
  BY <1>1, CommandsMore
<1>3. /\ wires' \in [Shards -> [up : BOOLEAN, todo : Seq(Commands(AllAssets)),
                                subscribed : SUBSET AllAssets, again : BOOLEAN]]
      /\ wires'[m] = w /\ \A k \in Shards \ {m} : wires'[k] = wires[k]
  BY <1>1, <1>2 DEF SubscriptionsInv, SubscriptionsTypeOK
<1>4. SubscriptionsTypeOK'
  BY <1>3 DEF SubscriptionsInv, SubscriptionsTypeOK
<1>5. Shared'
  BY DEF SubscriptionsInv, Shared
<1>6. Confined'
  BY <1>3 DEF SubscriptionsInv, Confined
<1> QED BY <1>4, <1>5, <1>6 DEF SubscriptionsInv

\* A connection comes up with the plan of its client's shard, the manager's.
LEMMA ConnectInv ==
    ASSUME SubscriptionsInv, UNCHANGED wanted, NEW m \in Shards, Connect(m)
    PROVE  SubscriptionsInv'
<1> DEFINE plan == Plan({}, managers[m].desired, m)
           w == [wires[m] EXCEPT !.up = TRUE, !.todo = plan]
<1>1. plan \in Seq(Commands(managers[m].assets))
  <2>1. plan \in Seq(Commands({} \cup Assigned(managers[m].desired, m)))
    BY PlanType, FS_EmptySet DEF SubscriptionsInv, Shared
  <2>2. {} \cup Assigned(managers[m].desired, m) = managers[m].assets
    BY DEF SubscriptionsInv, Shared
  <2> QED BY <2>1, <2>2
<1>2. /\ wires' = [wires EXCEPT ![m] = w] /\ managers[m].running
      /\ UNCHANGED <<managers, stores>>
  BY DEF Connect
<1> HIDE DEF plan
<1>3. /\ w \in [up : BOOLEAN, todo : Seq(Commands(managers[m].assets)),
                 subscribed : SUBSET managers[m].assets, again : BOOLEAN]
      /\ w.up
  BY <1>1 DEF SubscriptionsInv, SubscriptionsTypeOK, Confined
<1> HIDE DEF w
<1>4. /\ stores' \in [Shards -> [books : SUBSET AllAssets, references : SUBSET AllAssets]]
      /\ OnlyOwnedStored'
  BY <1>2 DEF SubscriptionsInv, SubscriptionsTypeOK, OnlyOwnedStored
<1> QED BY <1>2, <1>3, <1>4, WireInv

\* A command is carried out.
LEMMA SendCommandInv ==
    ASSUME SubscriptionsInv, UNCHANGED wanted, NEW m \in Shards, SendCommand(m)
    PROVE  SubscriptionsInv'
<1> DEFINE old == wires[m]
           w == [old EXCEPT !.subscribed = Carry(old.subscribed, Head(old.todo)),
                            !.todo = Tail(old.todo)]
<1>1. /\ old \in [up : BOOLEAN, todo : Seq(Commands(AllAssets)),
                   subscribed : SUBSET AllAssets, again : BOOLEAN]
      /\ old.todo \in Seq(Commands(managers[m].assets)) /\ old.todo # <<>>
      /\ old.subscribed \subseteq managers[m].assets
      /\ old.up /\ managers[m].running
  BY DEF SendCommand, SubscriptionsInv, SubscriptionsTypeOK, Confined
<1>2. /\ wires' = [wires EXCEPT ![m] = w]
      /\ UNCHANGED <<managers, stores>>
  BY DEF SendCommand, SubscriptionsInv, SubscriptionsTypeOK
<1>3. Head(old.todo) \in Commands(managers[m].assets)
      /\ Tail(old.todo) \in Seq(Commands(managers[m].assets))
  <2> DEFINE todo == old.todo
             S == Commands(managers[m].assets)
  <2>1. todo \in Seq(S) /\ todo # <<>>
    BY <1>1
  <2> HIDE DEF todo, S
  <2>2. Head(todo) \in S /\ Tail(todo) \in Seq(S)
    BY <2>1
  <2> QED BY <2>2 DEF todo, S
<1>4. Carry(old.subscribed, Head(old.todo)) \in SUBSET managers[m].assets
  BY <1>1, <1>3 DEF Carry, Commands
<1> HIDE DEF old
<1>5. /\ w \in [up : BOOLEAN, todo : Seq(Commands(managers[m].assets)),
                 subscribed : SUBSET managers[m].assets, again : BOOLEAN]
      /\ w.up
  BY <1>1, <1>3, <1>4
<1> HIDE DEF w
<1>6. /\ stores' \in [Shards -> [books : SUBSET AllAssets, references : SUBSET AllAssets]]
      /\ OnlyOwnedStored'
  BY <1>2 DEF SubscriptionsInv, SubscriptionsTypeOK, OnlyOwnedStored
<1> QED BY <1>1, <1>2, <1>5, <1>6, WireInv

\* A connection breaks: its subscriptions go, and the books with them or not.
LEMMA BreakInv ==
    ASSUME SubscriptionsInv, UNCHANGED wanted, NEW m \in Shards, Break(m)
    PROVE  SubscriptionsInv'
<1> DEFINE w == [up |-> FALSE, todo |-> <<>>, subscribed |-> {}, again |-> TRUE]
<1>1. /\ wires' = [wires EXCEPT ![m] = w] /\ UNCHANGED managers
      /\ stores' = IF ~wires[m].again THEN stores ELSE [stores EXCEPT ![m].books = {}]
  BY DEF Break
<1>2. w \in [up : BOOLEAN, todo : Seq(Commands(managers[m].assets)),
             subscribed : SUBSET managers[m].assets, again : BOOLEAN]
  OBVIOUS
<1>3. /\ stores' \in [Shards -> [books : SUBSET AllAssets, references : SUBSET AllAssets]]
      /\ \A k \in Shards : /\ stores'[k].books \subseteq stores[k].books
                            /\ stores'[k].references \subseteq stores[k].references
  BY <1>1 DEF SubscriptionsInv, SubscriptionsTypeOK
<1>4. OnlyOwnedStored'
  BY <1>1, <1>3 DEF SubscriptionsInv, OnlyOwnedStored
<1>5. ~w.up /\ w.todo = <<>> /\ w.subscribed = {}
  OBVIOUS
<1> HIDE DEF w
<1> QED BY <1>1, <1>2, <1>3, <1>4, <1>5, WireInv

\* A message is about an asset the manager owns.
LEMMA ReceiveInv ==
    ASSUME SubscriptionsInv, UNCHANGED wanted, NEW m \in Shards, NEW asset, Receive(m, asset)
    PROVE  SubscriptionsInv'
<1>1. UNCHANGED <<managers, wires>> /\ asset \in managers[m].assets
  BY DEF Receive, SubscriptionsInv, Confined
<1>2. asset \in AllAssets
  BY <1>1 DEF SubscriptionsInv, SubscriptionsTypeOK
<1>3. \/ stores' = [stores EXCEPT ![m].books = @ \cup {asset}]
      \/ stores' = [stores EXCEPT ![m].references = @ \cup {asset}]
  BY DEF Receive
<1>4. /\ stores' \in [Shards -> [books : SUBSET AllAssets, references : SUBSET AllAssets]]
      /\ \A k \in Shards \ {m} : stores'[k] = stores[k]
      /\ stores'[m].books \cup stores'[m].references
           \subseteq stores[m].books \cup stores[m].references \cup {asset}
  <2> DEFINE old == stores[m]
             b == [old EXCEPT !.books = @ \cup {asset}]
             f == [old EXCEPT !.references = @ \cup {asset}]
  <2>1. old \in [books : SUBSET AllAssets, references : SUBSET AllAssets]
    BY DEF SubscriptionsInv, SubscriptionsTypeOK
  <2>2. stores' = [stores EXCEPT ![m] = b] \/ stores' = [stores EXCEPT ![m] = f]
    BY <1>3
  <2> HIDE DEF old
  <2>3. /\ b \in [books : SUBSET AllAssets, references : SUBSET AllAssets]
        /\ b.books = old.books \cup {asset} /\ b.references = old.references
        /\ f \in [books : SUBSET AllAssets, references : SUBSET AllAssets]
        /\ f.references = old.references \cup {asset} /\ f.books = old.books
    BY <1>2, <2>1
  <2> HIDE DEF b, f
  <2>4. \/ stores'[m] = b
        \/ stores'[m] = f
    BY <2>2 DEF SubscriptionsInv, SubscriptionsTypeOK
  <2>5. stores' \in [Shards -> [books : SUBSET AllAssets, references : SUBSET AllAssets]]
    BY <2>2, <2>3 DEF SubscriptionsInv, SubscriptionsTypeOK
  <2>6. \A k \in Shards \ {m} : stores'[k] = stores[k]
    BY <2>2 DEF SubscriptionsInv, SubscriptionsTypeOK
  <2> QED BY <2>3, <2>4, <2>5, <2>6 DEF old
<1>5. SubscriptionsTypeOK'
  BY <1>1, <1>4 DEF SubscriptionsInv, SubscriptionsTypeOK
<1>6. OnlyOwnedStored'
  <2>1. ASSUME NEW k \in Shards
        PROVE  stores'[k].books \cup stores'[k].references \subseteq managers[k].assets
    BY <1>1, <1>4 DEF SubscriptionsInv, OnlyOwnedStored
  <2> QED BY <1>1, <2>1 DEF OnlyOwnedStored
<1>7. Shared' /\ Confined'
  BY <1>1 DEF SubscriptionsInv, Shared, Confined
<1> QED BY <1>5, <1>6, <1>7 DEF SubscriptionsInv

\* All managers are given the same assets: each keeps its shard, forgets the states
\* of what it gives up, and its client is told unless the shard stays the same.
LEMMA ReconfigureInv ==
    ASSUME SubscriptionsInv, NEW desired \in SUBSET AllAssets, IsFiniteSet(desired),
           wanted' = desired, Reconfigure(desired)
    PROVE  SubscriptionsInv'
<1>1. /\ \A m \in Shards : ~managers[m].running
      /\ managers' = [m \in Shards |-> Reconfigured(m, desired)]
      /\ stores' = [m \in Shards |-> StoresAfter(m, desired)]
      /\ UNCHANGED wires
  BY DEF Reconfigure
<1>2. ASSUME NEW m \in Shards
      PROVE  /\ Reconfigured(m, desired) \in [assets : SUBSET AllAssets, desired : SUBSET AllAssets,
                                              issued : Seq(Commands(AllAssets)), running : BOOLEAN]
             /\ Reconfigured(m, desired).assets = Assigned(desired, m)
             /\ IsFiniteSet(Reconfigured(m, desired).desired)
             /\ Assigned(Reconfigured(m, desired).desired, m) = Assigned(desired, m)
             /\ Reconfigured(m, desired).running = managers[m].running
  <2> DEFINE old == managers[m]
             next == Assigned(desired, m)
             plan == Plan(Assigned(old.desired, m), desired, m)
  <2>1. old \in [assets : SUBSET AllAssets, desired : SUBSET AllAssets,
                 issued : Seq(Commands(AllAssets)), running : BOOLEAN]
    BY DEF SubscriptionsInv, SubscriptionsTypeOK
  <2>2. /\ IsFiniteSet(old.desired) /\ Assigned(old.desired, m) = old.assets
    BY DEF SubscriptionsInv, Shared
  <2>3. CASE old.assets = next
    BY <2>1, <2>2, <2>3 DEF Reconfigured
  <2>4. CASE old.assets # next
    <3>1. IsFiniteSet(Assigned(old.desired, m)) /\ next \subseteq desired
      BY <2>2, AssignedPart
    <3>2. plan \in Seq(Commands(Assigned(old.desired, m) \cup next))
      BY <3>1, PlanType
    <3>3. Assigned(old.desired, m) \cup next \subseteq AllAssets
      BY <2>1, <2>2, <3>1
    <3> HIDE DEF plan
    <3>4. plan \in Seq(Commands(AllAssets))
      BY <3>2, <3>3, CommandsMore
    <3>5. Reconfigured(m, desired)
            = [old EXCEPT !.assets = next, !.desired = desired, !.issued = old.issued \o plan]
      BY <2>4 DEF Reconfigured, plan
    <3>6. old.issued \o plan \in Seq(Commands(AllAssets))
      BY <2>1, <3>4
    <3>7. next \in SUBSET AllAssets
      BY <3>1
    <3> HIDE DEF old, next
    <3>8. /\ Reconfigured(m, desired) \in [assets : SUBSET AllAssets, desired : SUBSET AllAssets,
                                           issued : Seq(Commands(AllAssets)), running : BOOLEAN]
          /\ Reconfigured(m, desired).assets = next
          /\ Reconfigured(m, desired).desired = desired
          /\ Reconfigured(m, desired).running = old.running
      BY <2>1, <3>5, <3>6, <3>7
    <3> QED BY <3>8 DEF old, next
  <2> QED BY <2>3, <2>4
<1>3. managers' \in [Shards -> [assets : SUBSET AllAssets, desired : SUBSET AllAssets,
                               issued : Seq(Commands(AllAssets)), running : BOOLEAN]]
  BY <1>1, <1>2
<1>4. \A m \in Shards : /\ managers'[m].assets = Assigned(desired, m)
                        /\ IsFiniteSet(managers'[m].desired)
                        /\ Assigned(managers'[m].desired, m) = managers'[m].assets
                        /\ managers'[m].running = managers[m].running
  BY <1>1, <1>2
<1>5. ASSUME NEW m \in Shards
      PROVE  /\ StoresAfter(m, desired) \in [books : SUBSET AllAssets, references : SUBSET AllAssets]
             /\ StoresAfter(m, desired).books \subseteq Assigned(desired, m)
             /\ StoresAfter(m, desired).references \subseteq Assigned(desired, m)
  <2> DEFINE gone == managers[m].assets \ Assigned(desired, m)
             old == stores[m]
  <2>1. /\ old \in [books : SUBSET AllAssets, references : SUBSET AllAssets]
        /\ old.books \subseteq managers[m].assets /\ old.references \subseteq managers[m].assets
    BY DEF SubscriptionsInv, SubscriptionsTypeOK, OnlyOwnedStored
  <2>2. StoresAfter(m, desired) = [[old EXCEPT !.books = @ \ gone] EXCEPT !.references = @ \ gone]
    BY DEF StoresAfter, ClearBooks, ClearInstruments, Cleared
  <2> HIDE DEF old, gone
  <2>3. /\ StoresAfter(m, desired) \in [books : SUBSET AllAssets, references : SUBSET AllAssets]
        /\ StoresAfter(m, desired).books = old.books \ gone
        /\ StoresAfter(m, desired).references = old.references \ gone
    BY <2>1, <2>2
  <2> QED BY <2>1, <2>3 DEF gone
<1>6. stores' \in [Shards -> [books : SUBSET AllAssets, references : SUBSET AllAssets]]
  BY <1>1, <1>5
<1>7. SubscriptionsTypeOK'
  BY <1>1, <1>3, <1>6 DEF SubscriptionsInv, SubscriptionsTypeOK
<1>8. Shared'
  BY <1>4 DEF Shared
<1>9. Confined'
  BY <1>1, <1>4 DEF SubscriptionsInv, Confined
<1>10. OnlyOwnedStored'
  BY <1>1, <1>4, <1>5 DEF OnlyOwnedStored
<1> QED BY <1>7, <1>8, <1>9, <1>10 DEF SubscriptionsInv

-----------------------------------------------------------------------------
\* The two together.

\* Nothing is fetched and nothing subscribed.
LEMMA InvInit == Init => RegistryInv /\ SubscriptionsInv
<1> SUFFICES ASSUME Init PROVE RegistryInv /\ SubscriptionsInv
  OBVIOUS
<1>1. /\ catalog \in Catalogs /\ calls = [r \in Refreshers |-> Idle]
      /\ registry = [current |-> Nothing, current_universe |-> Nothing, last_good |-> Nothing,
                     last_good_universe |-> Nothing, next_sequence |-> 0]
  BY DEF Init, RegistryInit
<1>2. GoodCall(Idle) /\ Idle \in Calls /\ Idle.phase = "idle"
  BY IdleGood DEF GoodCall
<1>3. RegistryTypeOK
  BY <1>1, <1>2 DEF RegistryTypeOK
<1>4. NumbersBelow /\ SequencesUnique
  BY <1>1, <1>2 DEF NumbersBelow, SequencesUnique
<1>5. /\ managers = [m \in Shards |-> [assets |-> Assigned(StartAssets, m), desired |-> StartAssets,
                                       issued |-> <<>>, running |-> FALSE]]
      /\ stores = [m \in Shards |-> [books |-> {}, references |-> {}]]
      /\ wires = [m \in Shards |-> [up |-> FALSE, todo |-> <<>>, subscribed |-> {}, again |-> FALSE]]
      /\ wanted = StartAssets
  BY DEF Init, SubscriptionsInit
<1>6. IsFiniteSet(StartAssets) /\ StartAssets \in SUBSET AllAssets
  BY SubscriptionsAssumption DEF AllAssets
<1>7. \A m \in Shards : Assigned(StartAssets, m) \in SUBSET AllAssets
  BY <1>6, AssignedPart
<1>8. SubscriptionsTypeOK
  BY <1>5, <1>6, <1>7 DEF SubscriptionsTypeOK
<1>9. Shared /\ OnlyOwnedStored
  BY <1>5, <1>6 DEF Shared, OnlyOwnedStored
<1>10. Confined
  <2>1. ASSUME NEW m \in Shards
        PROVE  ~wires[m].up /\ wires[m].todo = <<>> /\ wires[m].subscribed = {}
    BY <1>5
  <2>2. \A S : <<>> \in Seq(S)
    OBVIOUS
  <2> QED BY <2>1, <2>2 DEF Confined
<1> QED BY <1>3, <1>4, <1>8, <1>9, <1>10 DEF RegistryInv, SubscriptionsInv

\* The outcome of a refresh is handed over.
LEMMA HandOverInv ==
    ASSUME RegistryInv, SubscriptionsInv, NEW r \in Refreshers, HandOver(r)
    PROVE  RegistryInv' /\ SubscriptionsInv'
<1>1. calls' = [calls EXCEPT ![r] = Idle] /\ UNCHANGED <<catalog, registry>>
  BY DEF HandOver
<1>2. RegistryInv'
  BY <1>1, IdleGood, OtherCall
<1>3. CASE calls[r].outcome = Nothing \/ Policy.bypass
  <2>1. UNCHANGED <<managers, stores, wires, wanted>>
    BY <1>3 DEF HandOver, subscriptionVars
  <2>2. SubscriptionsInv'
    BY <2>1 DEF SubscriptionsInv, SubscriptionsTypeOK, Shared, Confined, OnlyOwnedStored
  <2> QED BY <1>2, <2>2
<1>4. CASE ~(calls[r].outcome = Nothing \/ Policy.bypass)
  <2> DEFINE universe == calls[r].outcome.universe
  <2>1. GoodCall(calls[r])
    BY DEF RegistryInv, RegistryTypeOK
  <2>2. universe \in SUBSET Ids /\ IsFiniteSet(universe)
    BY <1>4, <2>1 DEF GoodCall, Calls, Outcomes
  <2>3. wanted' = Assets(universe) /\ Reconfigure(Assets(universe))
    BY <1>4 DEF HandOver
  <2> HIDE DEF universe
  <2>4. IsFiniteSet(Assets(universe)) /\ Assets(universe) \in SUBSET AllAssets
    BY <2>2, AssetsFinite DEF Assets, AllAssets
  <2>5. SubscriptionsInv'
    BY <2>3, <2>4, ReconfigureInv
  <2> QED BY <1>2, <2>5
<1> QED BY <1>2, <1>3, <1>4

\* Every step keeps the invariant.
LEMMA InvStep == RegistryInv /\ SubscriptionsInv /\ [Next]_vars => RegistryInv' /\ SubscriptionsInv'
<1> SUFFICES ASSUME RegistryInv, SubscriptionsInv, [Next]_vars
             PROVE  RegistryInv' /\ SubscriptionsInv'
  OBVIOUS
<1>1. ASSUME UNCHANGED registryVars PROVE RegistryInv'
  BY <1>1 DEF registryVars, RegistryInv, RegistryTypeOK, NumbersBelow, SequencesUnique, GoodCall
<1>2. ASSUME UNCHANGED <<subscriptionVars, wanted>> PROVE SubscriptionsInv'
  BY <1>2 DEF subscriptionVars, SubscriptionsInv, SubscriptionsTypeOK, Shared, Confined,
              OnlyOwnedStored
<1>3. CASE RegistryStep /\ UNCHANGED <<subscriptionVars, wanted>>
  BY <1>2, <1>3, RegistryStepInv
<1>4. CASE SubscriptionsStep /\ UNCHANGED <<registryVars, wanted>>
  <2>1. RegistryInv'
    BY <1>1, <1>4
  <2>2. SubscriptionsInv'
    BY <1>4, RunInv, ConnectInv, SendCommandInv, BreakInv, ReceiveInv DEF SubscriptionsStep
  <2> QED BY <2>1, <2>2
<1>5. CASE \E r \in Refreshers : HandOver(r)
  BY <1>5, HandOverInv
<1>6. CASE UNCHANGED vars
  BY <1>1, <1>2, <1>6 DEF vars
<1> QED BY <1>3, <1>4, <1>5, <1>6 DEF Next

\* The invariant holds in every behaviour.
LEMMA Inv == Spec => [](RegistryInv /\ SubscriptionsInv)
BY InvInit, InvStep, PTL DEF Spec

-----------------------------------------------------------------------------
\* The theorems.

\* However refreshes overlap, fail and are retried, two snapshots never have the
\* same number.
THEOREM SnapshotNumbers == Spec => []SequencesUnique
BY Inv, PTL DEF RegistryInv

\* Every asset that is wanted is one manager's, and no other's.
THEOREM EachFedOnce == Spec => []ShardsPartition
<1>1. SubscriptionsInv => ShardsPartition
  <2> SUFFICES ASSUME SubscriptionsInv PROVE ShardsPartition
    OBVIOUS
  <2>1. IsFiniteSet(wanted) /\ \A m \in Shards : managers[m].assets = Assigned(wanted, m)
    BY DEF SubscriptionsInv, Shared
  <2>2. {managers[m].assets : m \in Shards} = {Assigned(wanted, m) : m \in Shards}
    BY <2>1
  <2> QED BY <2>1, <2>2, AssignedPart DEF ShardsPartition
<1> QED BY <1>1, Inv, PTL

\* The stores of a manager have no asset it does not own.
THEOREM OwnedOnly == Spec => []OnlyOwnedStored
BY Inv, PTL DEF SubscriptionsInv

-----------------------------------------------------------------------------
\* Commands, carried out one after the other.

\* Induction on finite sets: a set of subsets that holds each one all of whose
\* smaller subsets it holds, holds them all.
LEMMA Smallest ==
    ASSUME NEW S, IsFiniteSet(S), NEW G \in SUBSET SUBSET S,
           \A T \in SUBSET S : (\A U \in SUBSET T : U # T => U \in G) => T \in G
    PROVE  \A T \in SUBSET S : T \in G
<1> DEFINE R == StrictSubsetOrdering(S)
           Bad == (SUBSET S) \ G
<1>1. IsWellFoundedOn(R, SUBSET S)
  BY FS_StrictSubsetOrderingWellFounded, FS_FiniteSubsetsOfFinite
<1>2. SUFFICES ASSUME Bad # {} PROVE FALSE
  OBVIOUS
<1>3. PICK T \in Bad : \A U \in Bad : ~(<<U, T>> \in R)
  <2> HIDE DEF R, Bad
  <2>1. Bad \subseteq SUBSET S
    BY DEF Bad
  <2> QED BY <1>1, <1>2, <2>1, WFMin
<1>4. PICK U \in SUBSET T : U # T /\ U \notin G
  OBVIOUS
<1>5. <<U, T>> \in R
  BY <1>4 DEF StrictSubsetOrdering
<1> QED BY <1>3, <1>4, <1>5

\* A finite set of numbers has a largest.
LEMMA MaxFacts ==
    ASSUME NEW S, IsFiniteSet(S), S \subseteq Int, NEW T \in SUBSET S, T # {}
    PROVE  Max(T) \in T /\ \A y \in T : y <= Max(T)
<1> DEFINE G == {U \in SUBSET S : U = {} \/ \E x \in U : \A y \in U : x >= y}
<1>1. ASSUME NEW U \in SUBSET S, \A V \in SUBSET U : V # U => V \in G
      PROVE  U \in G
  <2>1. CASE U = {}
    BY <2>1
  <2>2. CASE U # {}
    <3>1. PICK a \in U : TRUE
      BY <2>2
    <3>2. U \ {a} \in G
      BY <1>1, <3>1
    <3>3. CASE U \ {a} = {}
      BY <3>1, <3>3
    <3>4. CASE \E x \in U \ {a} : \A y \in U \ {a} : x >= y
      <4>1. PICK x \in U \ {a} : \A y \in U \ {a} : x >= y
        BY <3>4
      <4>2. CASE x >= a
        BY <3>1, <4>1, <4>2
      <4>3. CASE ~(x >= a)
        <5>1. \A y \in U : a >= y
          BY <3>1, <4>1, <4>3
        <5> QED BY <3>1, <5>1
      <4> QED BY <4>2, <4>3
    <3> QED BY <3>2, <3>3, <3>4
  <2> QED BY <2>1, <2>2
<1>2. T \in G
  <2>1. G \in SUBSET SUBSET S
    OBVIOUS
  <2> HIDE DEF G
  <2>2. \A U \in SUBSET S : U \in G
    BY <1>1, <2>1, Smallest
  <2> QED BY <2>2
<1>3. \E x \in T : \A y \in T : x >= y
  BY <1>2
<1>4. Max(T) \in T /\ \A y \in T : Max(T) >= y
  BY <1>3 DEF Max
<1> QED BY <1>4

\* What is subscribed to after the commands of q at the positions s: the assets
\* whose last command subscribes, and those of the base that none is about.
Left(base, q, s) ==
    {a \in base : \A i \in s : a \notin q[i].assets}
        \cup UNION {{a \in q[i].assets : \A j \in s : j > i => a \notin q[j].assets} :
                       i \in {k \in s : q[k].operation = "Subscribe"}}

Carried(base, q) == Left(base, q, DOMAIN q)

\* An asset that is subscribed to.
LEMMA InLeft ==
    ASSUME NEW base, NEW q, NEW s, NEW a
    PROVE  a \in Left(base, q, s) <=>
             \/ a \in base /\ \A i \in s : a \notin q[i].assets
             \/ \E i \in s : /\ q[i].operation = "Subscribe" /\ a \in q[i].assets
                             /\ \A j \in s : j > i => a \notin q[j].assets
BY DEF Left

\* The equation of the fold, and a function that satisfies it.
ReplayStep(base, q, g, s) ==
    IF s = {} THEN base ELSE Carry(g[s \ {Max(s)}], q[Max(s)])
Replayed(base, q, g) == g = [s \in SUBSET DOMAIN q |-> ReplayStep(base, q, g, s)]

\* The last command decides about its assets, and leaves the others.
LEMMA LeftStep ==
    ASSUME NEW base, NEW assets, NEW q \in Seq(Commands(assets)),
           NEW s \in SUBSET DOMAIN q, s # {}
    PROVE  Left(base, q, s) = Carry(Left(base, q, s \ {Max(s)}), q[Max(s)])
<1> DEFINE x == Max(s)
           t == s \ {x}
<1>1. DOMAIN q \subseteq Int /\ IsFiniteSet(DOMAIN q)
  <2>1. DOMAIN q = 1..Len(q) /\ Len(q) \in Nat
    OBVIOUS
  <2> QED BY <2>1, FS_Interval
<1>2. x \in s /\ \A y \in s : y <= x
  BY <1>1, MaxFacts
<1>3. x \in Int /\ \A y \in s : y \in Int
  BY <1>1, <1>2
<1> HIDE DEF x
<1>4. q[x] \in Commands(assets)
  BY <1>2
<1>5. \A j \in s : ~(j > x) /\ (j # x => x > j)
  BY <1>2, <1>3
<1>6. ASSUME NEW a PROVE a \in Left(base, q, s) <=> a \in Carry(Left(base, q, t), q[x])
  <2>1. CASE a \in q[x].assets
    <3>1. a \in Left(base, q, s) <=> q[x].operation = "Subscribe"
      <4>1. \A i \in s : (\A j \in s : j > i => a \notin q[j].assets) => i = x
        BY <1>2, <1>5, <2>1
      <4> QED BY <1>2, <1>5, <2>1, <4>1, InLeft
    <3> QED BY <1>4, <2>1, <3>1 DEF Carry, Commands
  <2>2. CASE a \notin q[x].assets
    <3>1. \A i \in s : a \in q[i].assets => i \in t
      BY <2>2
    <3>2. a \in Left(base, q, s) <=> a \in Left(base, q, t)
      <4>1. a \in Left(base, q, s) <=>
             \/ a \in base /\ \A i \in s : a \notin q[i].assets
             \/ \E i \in s : /\ q[i].operation = "Subscribe" /\ a \in q[i].assets
                             /\ \A j \in s : j > i => a \notin q[j].assets
        BY InLeft
      <4>2. a \in Left(base, q, t) <=>
             \/ a \in base /\ \A i \in t : a \notin q[i].assets
             \/ \E i \in t : /\ q[i].operation = "Subscribe" /\ a \in q[i].assets
                             /\ \A j \in t : j > i => a \notin q[j].assets
        BY InLeft
      <4> QED BY <2>2, <3>1, <4>1, <4>2
    <3> QED BY <2>2, <3>2 DEF Carry
  <2> QED BY <2>1, <2>2
<1> QED BY <1>6 DEF x

\* Replaying the commands from left to right leaves just those assets.
LEMMA ReplayLeaves ==
    ASSUME NEW base, NEW assets, NEW q \in Seq(Commands(assets))
    PROVE  FoldLeft(Carry, base, q) = Carried(base, q)
<1> DEFINE D == DOMAIN q
           h == [s \in SUBSET D |-> Left(base, q, s)]
           g == CHOOSE f : Replayed(base, q, f)
<1>1. D \subseteq Int /\ IsFiniteSet(D)
  <2>1. DOMAIN q = 1..Len(q) /\ Len(q) \in Nat
    OBVIOUS
  <2> QED BY <2>1, FS_Interval
<1>2. \A s \in SUBSET D : s # {} => Max(s) \in s
  BY <1>1, MaxFacts
<1>3. Left(base, q, {}) = base
  BY DEF Left
<1>4. ASSUME NEW s \in SUBSET D PROVE h[s] = ReplayStep(base, q, h, s)
  <2>1. CASE s = {}
    BY <1>3, <2>1 DEF ReplayStep
  <2>2. CASE s # {}
    <3>1. h[s] = Left(base, q, s) /\ h[s \ {Max(s)}] = Left(base, q, s \ {Max(s)})
      OBVIOUS
    <3> HIDE DEF h
    <3> QED BY <2>2, <3>1, LeftStep DEF ReplayStep
  <2> QED BY <2>1, <2>2
<1>5. Replayed(base, q, h)
  <2>1. h = [s \in SUBSET D |-> h[s]]
    OBVIOUS
  <2> HIDE DEF h
  <2>2. h = [s \in SUBSET D |-> ReplayStep(base, q, h, s)]
    BY <1>4, <2>1
  <2> QED BY <2>2 DEF Replayed
<1>6. Replayed(base, q, g)
  <2> HIDE DEF h
  <2> QED BY <1>5
<1>7. FoldLeft(Carry, base, q) = g[D]
  BY DEF FoldLeft, MapThenFoldSet, Replayed, ReplayStep
<1> DEFINE G == {T \in SUBSET D : g[T] = h[T]}
<1>8. ASSUME NEW T \in SUBSET D, \A U \in SUBSET T : U # T => U \in G
      PROVE  T \in G
  <2> HIDE DEF h, g
  <2>1. g[T] = ReplayStep(base, q, g, T) /\ h[T] = ReplayStep(base, q, h, T)
    BY <1>4, <1>6 DEF Replayed
  <2>2. CASE T = {}
    BY <2>1, <2>2 DEF ReplayStep
  <2>3. CASE T # {}
    <3>1. T \ {Max(T)} \in G
      BY <1>2, <1>8, <2>3
    <3> QED BY <2>1, <2>3, <3>1 DEF ReplayStep
  <2> QED BY <2>2, <2>3
<1>9. D \in G
  <2>1. G \in SUBSET SUBSET D
    OBVIOUS
  <2> HIDE DEF G, D
  <2>2. \A T \in SUBSET D : T \in G
    BY <1>1, <1>8, <2>1, Smallest
  <2> QED BY <2>2
<1>10. h[D] = Carried(base, q)
  BY DEF Carried
<1> HIDE DEF g, h
<1> QED BY <1>7, <1>9, <1>10

\* No command, and one.
LEMMA CarriedNone == ASSUME NEW base PROVE Carried(base, <<>>) = base
BY DEF Carried, Left

\* An asset that is subscribed to after a list of commands.
LEMMA InCarried ==
    ASSUME NEW base, NEW q, NEW n, DOMAIN q = 1..n, NEW a
    PROVE  a \in Carried(base, q) <=>
             \/ a \in base /\ \A i \in 1..n : a \notin q[i].assets
             \/ \E i \in 1..n : /\ q[i].operation = "Subscribe" /\ a \in q[i].assets
                                /\ \A j \in 1..n : j > i => a \notin q[j].assets
<1>1. Carried(base, q) = Left(base, q, 1..n)
  BY DEF Carried
<1> DEFINE s == 1..n
<1> HIDE DEF s
<1>2. a \in Left(base, q, s) <=>
             \/ a \in base /\ \A i \in s : a \notin q[i].assets
             \/ \E i \in s : /\ q[i].operation = "Subscribe" /\ a \in q[i].assets
                             /\ \A j \in s : j > i => a \notin q[j].assets
  BY DEF Left
<1> QED BY <1>1, <1>2, Zenon DEF s

\* The commands of two lists one after the other.
LEMMA CarriedMore ==
    ASSUME NEW base, NEW assets, NEW p \in Seq(Commands(assets)), NEW q \in Seq(Commands(assets))
    PROVE  Carried(base, p \o q) = Carried(Carried(base, p), q)
<1> DEFINE r == p \o q
           m == Len(p)
           n == Len(q)
           About(s, i, a) == a \in s[i].assets
<1>1. /\ m \in Nat /\ n \in Nat /\ DOMAIN p = 1..m /\ DOMAIN q = 1..n /\ DOMAIN r = 1..(m + n)
      /\ \A i \in 1..m : r[i] = p[i]
      /\ \A i \in 1..n : r[i + m] = q[i]
  OBVIOUS
<1> HIDE DEF r, m, n
<1>2. \A i \in 1..(m + n) : i \in 1..m \/ (i - m \in 1..n /\ r[i] = q[i - m])
  <2> TAKE i \in 1..(m + n)
  <2>1. CASE i <= m
    BY <1>1, <2>1
  <2>2. CASE ~(i <= m)
    <3>1. i - m \in 1..n /\ (i - m) + m = i
      BY <1>1, <2>2
    <3>2. r[(i - m) + m] = q[i - m]
      BY <1>1, <3>1
    <3> QED BY <3>1, <3>2
  <2> QED BY <2>1, <2>2
<1>3. 1..m \subseteq 1..(m + n) /\ \A i \in 1..n : i + m \in 1..(m + n)
  BY <1>1
<1>4. ASSUME NEW a PROVE a \in Carried(base, r) <=> a \in Carried(Carried(base, p), q)
  <2>1. a \in Carried(base, r) <=>
          \/ a \in base /\ \A i \in 1..(m + n) : a \notin r[i].assets
          \/ \E i \in 1..(m + n) : /\ r[i].operation = "Subscribe" /\ a \in r[i].assets
                                   /\ \A j \in 1..(m + n) : j > i => a \notin r[j].assets
    BY ONLY <1>1, InCarried, Zenon
  <2>2. a \in Carried(base, p) <=>
          \/ a \in base /\ \A i \in 1..m : a \notin p[i].assets
          \/ \E i \in 1..m : /\ p[i].operation = "Subscribe" /\ a \in p[i].assets
                             /\ \A j \in 1..m : j > i => a \notin p[j].assets
    BY ONLY <1>1, InCarried, Zenon
  <2>3. a \in Carried(Carried(base, p), q) <=>
          \/ a \in Carried(base, p) /\ \A i \in 1..n : a \notin q[i].assets
          \/ \E i \in 1..n : /\ q[i].operation = "Subscribe" /\ a \in q[i].assets
                             /\ \A j \in 1..n : j > i => a \notin q[j].assets
    BY ONLY <1>1, InCarried, Zenon
  <2>4. CASE \E k \in 1..n : a \in q[k].assets
    <3>1. PICK k \in 1..n : a \in q[k].assets
      BY <2>4
    <3>2. k + m \in 1..(m + n) /\ a \in r[k + m].assets
      BY <1>1, <1>3, <3>1
    <3>3. ASSUME NEW i \in 1..(m + n), r[i].operation = "Subscribe", a \in r[i].assets,
                 \A j \in 1..(m + n) : j > i => a \notin r[j].assets
          PROVE  \E l \in 1..n : /\ q[l].operation = "Subscribe" /\ a \in q[l].assets
                                 /\ \A j \in 1..n : j > l => a \notin q[j].assets
      <4>1. ~(k + m > i)
        BY <3>2, <3>3
      <4>2. i - m \in 1..n /\ r[i] = q[i - m]
        <5>1. i \notin 1..m
          BY <1>1, <3>1, <4>1
        <5> QED BY <1>2, <5>1
      <4>3. ASSUME NEW j \in 1..n, j > i - m PROVE a \notin q[j].assets
        <5>1. j + m \in 1..(m + n) /\ j + m > i /\ r[j + m] = q[j]
          BY <1>1, <1>3, <4>3
        <5> QED BY <3>3, <5>1
      <4> DEFINE l == i - m
      <4>4. /\ l \in 1..n /\ q[l].operation = "Subscribe" /\ a \in q[l].assets
            /\ \A j \in 1..n : j > l => a \notin q[j].assets
        BY <3>3, <4>2, <4>3
      <4> HIDE DEF l
      <4> QED BY <4>4
    <3>4. ASSUME NEW l \in 1..n, q[l].operation = "Subscribe", a \in q[l].assets,
                 \A j \in 1..n : j > l => a \notin q[j].assets
          PROVE  \E i \in 1..(m + n) : /\ r[i].operation = "Subscribe" /\ a \in r[i].assets
                                       /\ \A j \in 1..(m + n) : j > i => a \notin r[j].assets
      <4>1. l + m \in 1..(m + n) /\ r[l + m] = q[l]
        BY <1>1, <1>3
      <4>2. ASSUME NEW j \in 1..(m + n), j > l + m PROVE a \notin r[j].assets
        <5>1. j - m \in 1..n /\ r[j] = q[j - m] /\ j - m > l
          <6>1. j \notin 1..m
            BY <1>1, <4>2
          <6> QED BY <1>1, <1>2, <4>2, <6>1
        <5> QED BY <3>4, <5>1
      <4> DEFINE i == l + m
      <4>3. /\ i \in 1..(m + n) /\ r[i].operation = "Subscribe" /\ a \in r[i].assets
            /\ \A j \in 1..(m + n) : j > i => a \notin r[j].assets
        BY <3>4, <4>1, <4>2
      <4> HIDE DEF i
      <4> QED BY <4>3
    <3> QED BY <2>1, <2>3, <3>1, <3>2, <3>3, <3>4
  <2>5. CASE \A k \in 1..n : a \notin q[k].assets
    <3>1. \A j \in 1..(m + n) : j \notin 1..m => a \notin r[j].assets
      BY <1>2, <2>5
    <3>2. /\ \A i \in 1..(m + n) : a \in r[i].assets => i \in 1..m /\ r[i] = p[i]
          /\ \A i \in 1..m : i \in 1..(m + n) /\ r[i] = p[i]
      BY <1>1, <1>3, <3>1
    <3>3. (\A i \in 1..(m + n) : a \notin r[i].assets) <=> (\A i \in 1..m : a \notin p[i].assets)
      BY <3>2
    <3>4. (\E i \in 1..(m + n) : /\ r[i].operation = "Subscribe" /\ a \in r[i].assets
                                 /\ \A j \in 1..(m + n) : j > i => a \notin r[j].assets)
            <=> (\E i \in 1..m : /\ p[i].operation = "Subscribe" /\ a \in p[i].assets
                                 /\ \A j \in 1..m : j > i => a \notin p[j].assets)
      BY <3>2
    <3> QED BY <2>1, <2>2, <2>3, <2>5, <3>3, <3>4
  <2> QED BY <2>4, <2>5
<1>5. Carried(base, r) = Carried(Carried(base, p), q)
  BY <1>4
<1> QED BY <1>5 DEF r

\* The first command, and then the others.
LEMMA CarriedHead ==
    ASSUME NEW base, NEW assets, NEW q \in Seq(Commands(assets)), q # <<>>
    PROVE  Carried(Carry(base, Head(q)), Tail(q)) = Carried(base, q)
<1> DEFINE S == Commands(assets)
           c == Head(q)
           t == Tail(q)
<1>1. c \in S /\ <<c>> \in Seq(S) /\ t \in Seq(S) /\ q = <<c>> \o t
  <2>0. q \in Seq(S) /\ q # <<>>
    OBVIOUS
  <2> HIDE DEF S
  <2>1. c \in S /\ t \in Seq(S) /\ Len(t) = Len(q) - 1 /\ Len(q) \in Nat /\ Len(q) >= 1
        /\ c = q[1] /\ \A i \in 1..(Len(q) - 1) : t[i] = q[i + 1]
    BY <2>0
  <2> HIDE DEF c, t
  <2>2. <<c>> \in Seq(S) /\ Len(<<c>>) = 1 /\ <<c>>[1] = c
    BY <2>1
  <2> DEFINE r == <<c>> \o t
  <2>3. r \in Seq(S) /\ Len(r) = 1 + Len(t) /\ r[1] = c /\ \A i \in 1..Len(t) : r[1 + i] = t[i]
    BY <2>1, <2>2
  <2> HIDE DEF r
  <2>4. Len(r) = Len(q)
    BY <2>1, <2>3
  <2>5. ASSUME NEW i \in 1..Len(q) PROVE r[i] = q[i]
    <3>1. CASE i = 1
      BY <2>1, <2>3, <3>1
    <3>2. CASE i # 1
      <4>1. i - 1 \in 1..(Len(q) - 1) /\ 1 + (i - 1) = i /\ (i - 1) + 1 = i
        BY <2>1, <3>2
      <4>2. r[1 + (i - 1)] = t[i - 1] /\ t[i - 1] = q[(i - 1) + 1]
        BY <2>1, <2>3, <4>1
      <4> QED BY <4>1, <4>2
    <3> QED BY <3>1, <3>2
  <2>6. r = q
    BY <2>3, <2>4, <2>5
  <2> QED BY <2>1, <2>2, <2>6 DEF r
<1>2. Carried(base, q) = Carried(Carried(base, <<c>>), t)
  <2> HIDE DEF c, t
  <2> DEFINE p == <<c>>
  <2>1. p \in Seq(Commands(assets)) /\ t \in Seq(Commands(assets)) /\ q = p \o t
    BY <1>1
  <2> HIDE DEF p
  <2>2. Carried(base, p \o t) = Carried(Carried(base, p), t)
    BY ONLY <2>1, CarriedMore
  <2> QED BY <2>1, <2>2 DEF p
<1>3. Carried(base, <<c>>) = Carry(base, c)
  <2> HIDE DEF c
  <2>1. <<c>>[1] = c /\ DOMAIN <<c>> = {1}
    OBVIOUS
  <2>2. ASSUME NEW a PROVE a \in Carried(base, <<c>>) <=> a \in Carry(base, c)
    <3>1. a \in Carried(base, <<c>>) <=>
            \/ a \in base /\ \A i \in {1} : a \notin <<c>>[i].assets
            \/ \E i \in {1} : /\ <<c>>[i].operation = "Subscribe" /\ a \in <<c>>[i].assets
                              /\ \A j \in {1} : j > i => a \notin <<c>>[j].assets
      BY <2>1, InLeft DEF Carried
    <3>2. a \in Carried(base, <<c>>) <=>
            \/ a \in base /\ a \notin c.assets
            \/ c.operation = "Subscribe" /\ a \in c.assets
      BY <2>1, <3>1
    <3> QED BY <1>1, <3>2 DEF Carry, Commands
  <2> QED BY <2>2
<1> QED BY <1>2, <1>3

\* Whole division grows with what is divided.
LEMMA DivGrows ==
    ASSUME NEW a \in Nat, NEW b \in Nat, NEW n \in Nat \ {0}, a <= b
    PROVE  a \div n \in Nat /\ b \div n \in Nat /\ a \div n <= b \div n
           /\ (a + n) \div n = a \div n + 1
<1> DEFINE p == a \div n
           q == b \div n
           r == (a + n) \div n
<1>1. p \in Nat /\ p * n <= a /\ a < (p + 1) * n
  OBVIOUS
<1>2. q \in Nat /\ q * n <= b /\ b < (q + 1) * n
  OBVIOUS
<1>3. r \in Nat /\ r * n <= a + n /\ a + n < (r + 1) * n
  OBVIOUS
<1> HIDE DEF p, q, r
<1>4. p <= q
  <2>1. p * n < (q + 1) * n
    BY <1>1, <1>2
  <2>2. p < q + 1
    BY <1>1, <1>2, <2>1
  <2> QED BY <1>1, <1>2, <2>2
<1>5. r = p + 1
  <2>1. (p + 1) * n <= a + n /\ a + n < (p + 2) * n
    BY <1>1
  <2>2. r < p + 2 /\ p + 1 < r + 1
    <3>1. r * n < (p + 2) * n /\ (p + 1) * n < (r + 1) * n
      BY <1>1, <1>3, <2>1
    <3> QED BY <1>1, <1>3, <3>1
  <2> QED BY <1>1, <1>3, <2>2
<1> QED BY <1>1, <1>2, <1>4, <1>5 DEF p, q, r

\* Every asset is in a batch.
LEMMA InBatch ==
    ASSUME NEW assets, IsFiniteSet(assets), assets \subseteq Nat, NEW a \in assets
    PROVE  LET n == (Cardinality(assets) + AtLeastOne(MaxBatch) - 1) \div AtLeastOne(MaxBatch)
           IN  \E b \in 1..n : a \in Batch(assets, b)
<1> DEFINE size == AtLeastOne(MaxBatch)
           n == (Cardinality(assets) + size - 1) \div size
           c == Cardinality(assets)
           place == Place(a, assets)
<1>1. size \in Nat \ {0}
  BY SubscriptionsAssumption DEF AtLeastOne
<1>2. place \in Nat /\ c \in Nat /\ place < c
  <2> DEFINE before == {x \in assets : x < a}
  <2>1. before \subseteq assets /\ a \notin before /\ a \in assets
    OBVIOUS
  <2>2. IsFiniteSet(before) /\ before # assets
    BY <2>1, FS_Subset
  <2> HIDE DEF before
  <2>3. Cardinality(before) < Cardinality(assets)
    <3>1. /\ Cardinality(before) <= Cardinality(assets)
          /\ Cardinality(assets) = Cardinality(before) => assets = before
      BY <2>1, FS_Subset
    <3>2. Cardinality(before) \in Nat /\ Cardinality(assets) \in Nat
      BY <2>2, FS_CardinalityType
    <3> QED BY <2>2, <3>1, <3>2
  <2> QED BY <2>2, <2>3, FS_CardinalityType DEF Place, before
<1> HIDE DEF size, c, place
<1> DEFINE b == place \div size + 1
<1>3. b \in 1..((c + size - 1) \div size)
  <2>1. /\ place \div size \in Nat /\ (c - 1) \div size \in Nat
        /\ place \div size <= (c - 1) \div size
        /\ ((c - 1) + size) \div size = (c - 1) \div size + 1
    <3>1. c - 1 \in Nat /\ place <= c - 1 /\ c - 1 <= c - 1
      BY <1>2
    <3> QED BY <1>1, <1>2, <3>1, DivGrows
  <2>2. (c - 1) + size = c + size - 1
    BY <1>1, <1>2
  <2> QED BY <2>1, <2>2
<1>4. a \in Batch(assets, b)
  <2>1. place \div size = b - 1
    <3>1. place \div size \in Int
      BY <1>1, <1>2, DivGrows
    <3> QED BY <3>1
  <2> QED BY <2>1 DEF Batch, place, size
<1> HIDE DEF b
<1> QED BY <1>3, <1>4 DEF c, size

\* A batched list carried out adds its assets, or takes them away.
LEMMA BatchesCarried ==
    ASSUME NEW assets, IsFiniteSet(assets), assets \subseteq Nat, NEW base
    PROVE  /\ Carried(base, Batches("Subscribe", assets)) = base \cup assets
           /\ Carried(base, Batches("Unsubscribe", assets)) = base \ assets
<1> DEFINE n == (Cardinality(assets) + AtLeastOne(MaxBatch) - 1) \div AtLeastOne(MaxBatch)
<1>1. \A a \in assets : \E b \in 1..n : a \in Batch(assets, b)
  BY InBatch
<1> HIDE DEF n
<1>2. ASSUME NEW a, NEW b \in 1..n, a \in Batch(assets, b)
      PROVE  /\ a \in assets /\ \A j \in 1..n : j > b => a \notin Batch(assets, j)
  BY <1>2 DEF Batch
<1>3. ASSUME NEW o \in {"Subscribe", "Unsubscribe"}, NEW a
      PROVE  a \in Carried(base, Batches(o, assets)) <=>
               \/ a \in base /\ a \notin assets
               \/ o = "Subscribe" /\ a \in assets
  <2> DEFINE q == Batches(o, assets)
  <2>1. DOMAIN q = 1..n /\ \A i \in 1..n : q[i].operation = o /\ q[i].assets = Batch(assets, i)
    BY DEF Batches, Command, n
  <2> HIDE DEF q
  <2>2. a \in Carried(base, q) <=>
          \/ a \in base /\ \A i \in 1..n : a \notin q[i].assets
          \/ \E i \in 1..n : /\ q[i].operation = "Subscribe" /\ a \in q[i].assets
                             /\ \A j \in 1..n : j > i => a \notin q[j].assets
    BY ONLY <2>1, InCarried, Zenon
  <2>3. (\A i \in 1..n : a \notin q[i].assets) <=> a \notin assets
    BY <1>1, <1>2, <2>1
  <2>4. (\E i \in 1..n : /\ q[i].operation = "Subscribe" /\ a \in q[i].assets
                         /\ \A j \in 1..n : j > i => a \notin q[j].assets)
          <=> (o = "Subscribe" /\ a \in assets)
    <3>1. ASSUME NEW i \in 1..n, a \in q[i].assets
          PROVE  a \in assets /\ \A j \in 1..n : j > i => a \notin q[j].assets
      BY <1>2, <2>1, <3>1
    <3>2. a \in assets => \E i \in 1..n : a \in q[i].assets
      BY <1>1, <2>1
    <3> QED BY <2>1, <3>1, <3>2
  <2> QED BY <2>2, <2>3, <2>4 DEF q
<1> QED BY <1>3

\* A plan carried out leads from the assets there are to the shard of those that
\* are to be.
LEMMA PlanCarried ==
    ASSUME NEW current, IsFiniteSet(current), current \subseteq Nat,
           NEW desired, IsFiniteSet(desired), desired \subseteq Nat, NEW m \in Shards
    PROVE  Carried(current, Plan(current, desired, m)) = Assigned(desired, m)
<1> DEFINE next == Assigned(desired, m)
           all == current \cup next
           p == Batches("Unsubscribe", current \ next)
           q == Batches("Subscribe", next \ current)
<1>1. IsFiniteSet(next) /\ next \subseteq Nat
  BY AssignedPart
<1>2. /\ IsFiniteSet(current \ next) /\ IsFiniteSet(next \ current)
      /\ current \ next \subseteq Nat /\ next \ current \subseteq Nat
  BY <1>1, FS_Subset
<1> HIDE DEF next
<1>3. p \in Seq(Commands(all)) /\ q \in Seq(Commands(all))
  <2>1. current \ next \subseteq all /\ next \ current \subseteq all
    OBVIOUS
  <2> HIDE DEF all
  <2> QED BY <1>2, <2>1, BatchesType, CommandsMore
<1>4. /\ Carried(current, p) = current \ (current \ next)
      /\ Carried(current \ (current \ next), q)
           = (current \ (current \ next)) \cup (next \ current)
  BY <1>2, BatchesCarried
<1>5. Plan(current, desired, m) = p \o q
  BY DEF Plan, next
<1> HIDE DEF p, q, all
<1>6. Carried(current, p \o q) = Carried(Carried(current, p), q)
  BY <1>3, CarriedMore
<1>7. (current \ (current \ next)) \cup (next \ current) = next
  OBVIOUS
<1> QED BY <1>4, <1>5, <1>6, <1>7 DEF next

\* All assets are naturals.
LEMMA AssetsNat == AllAssets \subseteq Nat
<1>1. StartAssets \subseteq Nat
  BY SubscriptionsAssumption
<1>2. \A id \in Ids : AssetsOf[id] \subseteq Nat
  BY UniverseAssumption DEF Ids, Records
<1> QED BY <1>1, <1>2 DEF AllAssets

\* The commands a client issued lead to the assets its manager owns, and so do
\* those its connection has still to send.
ReplayInv ==
    \A m \in Shards :
        /\ Carried(Assigned(StartAssets, m), managers[m].issued) = managers[m].assets
        /\ wires[m].up => Carried(wires[m].subscribed, wires[m].todo) = managers[m].assets

\* Nothing is issued yet.
LEMMA ReplayInit == Init => ReplayInv
<1> SUFFICES ASSUME Init, NEW m \in Shards
             PROVE  /\ Carried(Assigned(StartAssets, m), managers[m].issued) = managers[m].assets
                    /\ ~wires[m].up
  BY DEF ReplayInv
<1>1. /\ managers[m].issued = <<>> /\ managers[m].assets = Assigned(StartAssets, m)
      /\ ~wires[m].up
  BY DEF Init, SubscriptionsInit
<1> QED BY <1>1, CarriedNone

\* What neither issues nor sends a command.
LEMMA ReplayKept ==
    ASSUME ReplayInv,
           \A m \in Shards : /\ managers'[m].assets = managers[m].assets
                             /\ managers'[m].issued = managers[m].issued
                             /\ \/ wires'[m] = wires[m]
                                \/ ~wires'[m].up
    PROVE  ReplayInv'
BY DEF ReplayInv

\* A connection comes up with all the commands of its shard to send.
LEMMA ReplayConnect ==
    ASSUME SubscriptionsInv, ReplayInv, NEW m \in Shards, Connect(m)
    PROVE  ReplayInv'
<1> DEFINE plan == Plan({}, managers[m].desired, m)
<1>1. /\ UNCHANGED managers /\ ~wires[m].up
      /\ wires' = [wires EXCEPT ![m] = [wires[m] EXCEPT !.up = TRUE, !.todo = plan]]
  BY DEF Connect
<1>2. wires[m].subscribed = {}
  BY <1>1 DEF SubscriptionsInv, Confined
<1>3. Carried({}, plan) = managers[m].assets
  <2>1. /\ IsFiniteSet(managers[m].desired) /\ managers[m].desired \subseteq Nat
        /\ Assigned(managers[m].desired, m) = managers[m].assets
    BY AssetsNat DEF SubscriptionsInv, SubscriptionsTypeOK, Shared
  <2>2. IsFiniteSet({}) /\ {} \subseteq Nat
    BY FS_EmptySet
  <2> HIDE DEF plan
  <2> QED BY <2>1, <2>2, PlanCarried DEF plan
<1> HIDE DEF plan
<1>4. /\ wires'[m].todo = plan /\ wires'[m].subscribed = wires[m].subscribed
      /\ \A k \in Shards \ {m} : wires'[k] = wires[k]
  BY <1>1 DEF SubscriptionsInv, SubscriptionsTypeOK
<1> QED BY <1>1, <1>2, <1>3, <1>4 DEF ReplayInv

\* The first of the commands to send is carried out.
LEMMA ReplaySend ==
    ASSUME SubscriptionsInv, ReplayInv, NEW m \in Shards, SendCommand(m)
    PROVE  ReplayInv'
<1> DEFINE old == wires[m]
<1>1. /\ UNCHANGED managers /\ old.up /\ old.todo # <<>>
      /\ old.todo \in Seq(Commands(managers[m].assets))
  BY DEF SendCommand, SubscriptionsInv, Confined
<1>2. /\ wires'[m].subscribed = Carry(old.subscribed, Head(old.todo))
      /\ wires'[m].todo = Tail(old.todo)
      /\ \A k \in Shards \ {m} : wires'[k] = wires[k]
  BY DEF SendCommand, SubscriptionsInv, SubscriptionsTypeOK
<1>3. Carried(old.subscribed, old.todo) = managers[m].assets
  BY <1>1 DEF ReplayInv
<1> HIDE DEF old
<1>4. Carried(Carry(old.subscribed, Head(old.todo)), Tail(old.todo)) = managers[m].assets
  BY <1>1, <1>3, CarriedHead
<1> QED BY <1>1, <1>2, <1>4 DEF ReplayInv

\* A client issues the plan from its shard to the next, while it is not connected.
LEMMA ReplayReconfigure ==
    ASSUME SubscriptionsInv, ReplayInv, NEW desired \in SUBSET AllAssets, IsFiniteSet(desired),
           Reconfigure(desired)
    PROVE  ReplayInv'
<1>1. /\ \A m \in Shards : ~managers[m].running
      /\ managers' = [m \in Shards |-> Reconfigured(m, desired)] /\ UNCHANGED wires
  BY DEF Reconfigure
<1>2. \A m \in Shards : ~wires'[m].up
  BY <1>1 DEF SubscriptionsInv, Confined
<1>3. ASSUME NEW m \in Shards
      PROVE  Carried(Assigned(StartAssets, m), Reconfigured(m, desired).issued)
               = Reconfigured(m, desired).assets
  <2> DEFINE old == managers[m]
             next == Assigned(desired, m)
             base == Assigned(StartAssets, m)
             plan == Plan(Assigned(old.desired, m), desired, m)
  <2>1. /\ old \in [assets : SUBSET AllAssets, desired : SUBSET AllAssets,
                    issued : Seq(Commands(AllAssets)), running : BOOLEAN]
        /\ Carried(base, old.issued) = old.assets
        /\ IsFiniteSet(old.desired) /\ Assigned(old.desired, m) = old.assets
    BY DEF SubscriptionsInv, SubscriptionsTypeOK, Shared, ReplayInv
  <2>2. CASE old.assets = next
    BY <2>1, <2>2 DEF Reconfigured
  <2>3. CASE old.assets # next
    <3>1. /\ IsFiniteSet(old.assets) /\ old.assets \subseteq Nat /\ old.assets \subseteq AllAssets
          /\ next \subseteq AllAssets /\ desired \subseteq Nat
      BY <2>1, AssignedPart, AssetsNat
    <3>2. /\ Carried(old.assets, plan) = next
          /\ plan \in Seq(Commands(old.assets \cup next))
      <4>1. /\ Carried(old.assets, Plan(old.assets, desired, m)) = Assigned(desired, m)
            /\ Plan(old.assets, desired, m) \in Seq(Commands(old.assets \cup Assigned(desired, m)))
        <5> HIDE DEF old
        <5> QED BY <3>1, PlanCarried, PlanType
      <4> QED BY <2>1, <4>1
    <3>3. plan \in Seq(Commands(AllAssets))
      <4>1. old.assets \cup next \subseteq AllAssets
        BY <3>1
      <4> HIDE DEF plan, old, next
      <4> QED BY <3>2, <4>1, CommandsMore
    <3>4. Reconfigured(m, desired)
            = [old EXCEPT !.assets = next, !.desired = desired, !.issued = old.issued \o plan]
      BY <2>3 DEF Reconfigured
    <3> HIDE DEF plan, next, old, base
    <3>5. Carried(base, old.issued \o plan) = next
      <4>1. old.issued \in Seq(Commands(AllAssets))
        BY <2>1
      <4>2. Carried(base, old.issued \o plan) = Carried(Carried(base, old.issued), plan)
        BY <3>3, <4>1, CarriedMore
      <4> QED BY <2>1, <3>2, <4>2
    <3>6. Reconfigured(m, desired).issued = old.issued \o plan /\ Reconfigured(m, desired).assets = next
      BY <2>1, <3>4
    <3> QED BY <3>5, <3>6 DEF base
  <2> QED BY <2>2, <2>3
<1> QED BY <1>1, <1>2, <1>3 DEF ReplayInv

\* Every step keeps it.
LEMMA ReplayNext ==
    RegistryInv /\ SubscriptionsInv /\ ReplayInv /\ [Next]_vars => ReplayInv'
<1> SUFFICES ASSUME RegistryInv, SubscriptionsInv, ReplayInv, [Next]_vars PROVE ReplayInv'
  OBVIOUS
<1>1. ASSUME UNCHANGED <<managers, wires>> PROVE ReplayInv'
  BY <1>1, ReplayKept
<1>2. ASSUME NEW m \in Shards, Run(m) PROVE ReplayInv'
  <2>1. managers' = [managers EXCEPT ![m].running = TRUE] /\ UNCHANGED wires
    BY <1>2 DEF Run
  <2>2. \A k \in Shards : /\ managers'[k].assets = managers[k].assets
                          /\ managers'[k].issued = managers[k].issued
    BY <2>1 DEF SubscriptionsInv, SubscriptionsTypeOK
  <2> QED BY <2>1, <2>2, ReplayKept
<1>3. ASSUME NEW m \in Shards, Break(m) PROVE ReplayInv'
  <2>1. /\ wires' = [wires EXCEPT ![m] = [up |-> FALSE, todo |-> <<>>, subscribed |-> {}, again |-> TRUE]]
        /\ UNCHANGED managers
    BY <1>3 DEF Break
  <2>2. \A k \in Shards : wires'[k] = wires[k] \/ ~wires'[k].up
    BY <2>1 DEF SubscriptionsInv, SubscriptionsTypeOK
  <2> QED BY <2>1, <2>2, ReplayKept
<1>4. ASSUME NEW m \in Shards, NEW asset, Receive(m, asset) PROVE ReplayInv'
  BY <1>1, <1>4 DEF Receive
<1>5. CASE SubscriptionsStep
  BY <1>2, <1>3, <1>4, <1>5, ReplayConnect, ReplaySend DEF SubscriptionsStep
<1>6. ASSUME NEW r \in Refreshers, HandOver(r) PROVE ReplayInv'
  <2>1. CASE calls[r].outcome = Nothing \/ Policy.bypass
    BY <1>1, <1>6, <2>1 DEF HandOver, subscriptionVars
  <2>2. CASE ~(calls[r].outcome = Nothing \/ Policy.bypass)
    <3> DEFINE universe == calls[r].outcome.universe
    <3>1. universe \in SUBSET Ids /\ IsFiniteSet(universe)
      <4>1. GoodCall(calls[r])
        BY DEF RegistryInv, RegistryTypeOK
      <4> QED BY <2>2, <4>1 DEF GoodCall, Calls, Outcomes
    <3>2. Reconfigure(Assets(universe))
      BY <1>6, <2>2 DEF HandOver
    <3> HIDE DEF universe
    <3>3. IsFiniteSet(Assets(universe)) /\ Assets(universe) \in SUBSET AllAssets
      BY <3>1, AssetsFinite DEF Assets, AllAssets
    <3> QED BY <3>2, <3>3, ReplayReconfigure
  <2> QED BY <2>1, <2>2
<1> QED BY <1>1, <1>5, <1>6 DEF Next, vars, subscriptionVars

\* Replaying what a client issued gives the assets its manager owns, and a
\* connection that has sent its commands is subscribed to just those: whatever the
\* number of shards, the size of the batches and the universes in between.
THEOREM CommandsFollowed == Spec => []CommandsLead
<1>1. SubscriptionsInv /\ ReplayInv => CommandsLead
  <2> SUFFICES ASSUME SubscriptionsInv, ReplayInv, NEW m \in Shards
               PROVE  /\ FoldLeft(Carry, Assigned(StartAssets, m), managers[m].issued)
                           = managers[m].assets
                      /\ wires[m].up /\ wires[m].todo = <<>> =>
                           wires[m].subscribed = managers[m].assets
    BY DEF CommandsLead
  <2>1. managers[m].issued \in Seq(Commands(AllAssets))
    BY DEF SubscriptionsInv, SubscriptionsTypeOK
  <2>2. FoldLeft(Carry, Assigned(StartAssets, m), managers[m].issued)
          = Carried(Assigned(StartAssets, m), managers[m].issued)
    BY <2>1, ReplayLeaves
  <2> QED BY <2>2, CarriedNone DEF ReplayInv
<1>2. Init => ReplayInv
  BY ReplayInit
<1>3. RegistryInv /\ SubscriptionsInv /\ ReplayInv /\ [Next]_vars => ReplayInv'
  BY ReplayNext
<1> QED BY <1>1, <1>2, <1>3, Inv, PTL DEF Spec
-----------------------------------------------------------------------------
\* What a refresh has collected.

\* A page has no fewer records than events, when each event has one: the fold
\* that counts them has a value, the number of pairs of an event and the place of
\* a record in it, and no fold of these lengths is less than the number of events.
Chosen(s) == CHOOSE x \in s : TRUE

CountStep(events, g, s) == IF s = {} THEN 0 ELSE Len(events[Chosen(s)]) + g[s \ {Chosen(s)}]

Counted(events, g) == g = [s \in SUBSET DOMAIN events |-> CountStep(events, g, s)]

\* The places of the records of the events in s.
Places(events, s) == UNION {{i} \X (1..Len(events[i])) : i \in s}

LEMMA PlacesCount ==
    ASSUME NEW events, NEW s, IsFiniteSet(s), \A i \in s : Len(events[i]) \in Nat
    PROVE  IsFiniteSet(Places(events, s))
<1> DEFINE f == [i \in s |-> {i} \X (1..Len(events[i]))]
<1>1. IsFiniteSet({f[i] : i \in s})
  <2>1. f = [i \in s |-> f[i]]
    OBVIOUS
  <2> HIDE DEF f
  <2> QED BY <2>1, ImageFinite
<1>2. ASSUME NEW i \in s PROVE IsFiniteSet(f[i])
  <2>1. IsFiniteSet({i})
    BY FS_Singleton
  <2>2. IsFiniteSet(1..Len(events[i]))
    <3>1. Len(events[i]) \in Nat
      OBVIOUS
    <3> QED BY <3>1, FS_Interval
  <2> QED BY <2>1, <2>2, FS_Product
<1>3. {f[i] : i \in s} = {{i} \X (1..Len(events[i])) : i \in s}
  OBVIOUS
<1>4. \A T \in {f[i] : i \in s} : IsFiniteSet(T)
  <2> HIDE DEF f
  <2> QED BY <1>2
<1> HIDE DEF f
<1>5. IsFiniteSet(UNION {f[i] : i \in s})
  BY <1>1, <1>4, FS_UNION
<1> QED BY <1>3, <1>5 DEF Places

LEMMA PlacesMore ==
    ASSUME NEW events, NEW s, IsFiniteSet(s), NEW x \in s,
           \A i \in s : Len(events[i]) \in Nat
    PROVE  Cardinality(Places(events, s)) = Len(events[x]) + Cardinality(Places(events, s \ {x}))
<1> DEFINE n == Len(events[x])
           A == {x} \X (1..n)
           B == Places(events, s \ {x})
<1>1. n \in Nat
  OBVIOUS
<1>2. IsFiniteSet(A) /\ Cardinality(A) = n
  <2> HIDE DEF n
  <2>1. IsFiniteSet({x}) /\ Cardinality({x}) = 1
    BY FS_Singleton
  <2>2. IsFiniteSet(1..n) /\ Cardinality(1..n) = n
    <3>1. 1 \in Int /\ n \in Int /\ (IF 1 > n THEN 0 ELSE n - 1 + 1) = n
      BY <1>1
    <3> QED BY <3>1, FS_Interval
  <2>3. IsFiniteSet(A) /\ Cardinality(A) = Cardinality({x}) * Cardinality(1..n)
    BY <2>1, <2>2, FS_Product
  <2> QED BY <1>1, <2>1, <2>2, <2>3
<1>3. IsFiniteSet(B) /\ Cardinality(B) \in Nat
  <2>1. IsFiniteSet(s \ {x})
    BY FS_Subset
  <2>2. IsFiniteSet(B)
    BY <2>1, PlacesCount
  <2> QED BY <2>2, FS_CardinalityType
<1>4. A \cap B = {} /\ A \cup B = Places(events, s)
  BY DEF Places
<1>5. Cardinality(A \cup B) = Cardinality(A) + Cardinality(B) - Cardinality(A \cap B)
  <2> HIDE DEF A, B
  <2> QED BY <1>2, <1>3, FS_Union
<1> HIDE DEF A, B, n
<1>6. Cardinality(Places(events, s)) = n + Cardinality(B)
  <2>1. Cardinality(A \cap B) = 0
    BY <1>4, FS_EmptySet
  <2>2. Cardinality(A \cup B) = n + Cardinality(B)
    BY <1>1, <1>2, <1>3, <1>5, <2>1
  <2> QED BY <1>4, <2>2
<1> QED BY <1>6 DEF n, B

LEMMA CountExists ==
    ASSUME NEW events, IsFiniteSet(DOMAIN events), \A i \in DOMAIN events : Len(events[i]) \in Nat
    PROVE  \E g : Counted(events, g)
<1> DEFINE D == DOMAIN events
           h == [s \in SUBSET D |-> Cardinality(Places(events, s))]
<1>1. ASSUME NEW s \in SUBSET D PROVE h[s] = CountStep(events, h, s)
  <2>1. h[s] = Cardinality(Places(events, s))
    OBVIOUS
  <2>2. CASE s = {}
    <3>1. Places(events, s) = {}
      BY <2>2 DEF Places
    <3> QED BY <2>1, <2>2, <3>1, FS_EmptySet DEF CountStep
  <2>3. CASE s # {}
    <3>1. Chosen(s) \in s
      BY <2>3 DEF Chosen
    <3>2. IsFiniteSet(s)
      BY FS_Subset
    <3>3. h[s \ {Chosen(s)}] = Cardinality(Places(events, s \ {Chosen(s)}))
      OBVIOUS
    <3>4. Cardinality(Places(events, s))
            = Len(events[Chosen(s)]) + Cardinality(Places(events, s \ {Chosen(s)}))
      <4> DEFINE x == Chosen(s)
      <4>1. x \in s
        BY <3>1
      <4>2. \A i \in s : Len(events[i]) \in Nat
        OBVIOUS
      <4> HIDE DEF x, D, h
      <4>3. Cardinality(Places(events, s)) = Len(events[x]) + Cardinality(Places(events, s \ {x}))
        BY <3>2, <4>1, <4>2, PlacesMore
      <4> QED BY <4>3 DEF x
    <3> HIDE DEF h
    <3> QED BY <2>1, <2>3, <3>3, <3>4 DEF CountStep
  <2> QED BY <2>2, <2>3
<1>2. h = [s \in SUBSET D |-> h[s]]
  OBVIOUS
<1> HIDE DEF h
<1>3. h = [s \in SUBSET D |-> CountStep(events, h, s)]
  BY <1>1, <1>2
<1> QED BY <1>3 DEF Counted

LEMMA RecordsCover ==
    ASSUME NEW S, NEW events \in Seq(S), \A i \in DOMAIN events : Len(events[i]) \in Nat \ {0}
    PROVE  RecordCount(events) \in Nat /\ RecordCount(events) >= Len(events)
<1> DEFINE D == DOMAIN events
           g == CHOOSE h : Counted(events, h)
           G == {T \in SUBSET D : g[T] \in Nat /\ g[T] >= Cardinality(T)}
<1>1. D = 1..Len(events) /\ Len(events) \in Nat
  OBVIOUS
<1>2. IsFiniteSet(D) /\ Cardinality(D) = Len(events)
  <2> DEFINE n == Len(events)
  <2>1. n \in Nat /\ D = 1..n
    BY <1>1
  <2> HIDE DEF D, n
  <2>2. 1 \in Int /\ n \in Int /\ (IF 1 > n THEN 0 ELSE n - 1 + 1) = n
    BY <2>1
  <2>3. IsFiniteSet(D) /\ Cardinality(D) = n
    BY <2>1, <2>2, FS_Interval
  <2> QED BY <2>3 DEF n
<1>3. Counted(events, g)
  BY <1>2, CountExists
<1>4. RecordCount(events) = g[D]
  BY DEF RecordCount, FoldFunction, FoldFunctionOnSet, MapThenFoldSet, Counted, CountStep, Chosen
<1>5. ASSUME NEW T \in SUBSET D, \A U \in SUBSET T : U # T => U \in G
      PROVE  T \in G
  <2> HIDE DEF g
  <2>1. g[T] = CountStep(events, g, T)
    BY <1>3 DEF Counted
  <2>2. CASE T = {}
    BY <2>1, <2>2, FS_EmptySet DEF CountStep
  <2>3. CASE T # {}
    <3> DEFINE x == Chosen(T)
               U == T \ {x}
    <3>1. x \in T
      BY <2>3 DEF Chosen
    <3>2. U \in G
      BY <1>5, <3>1
    <3>3. IsFiniteSet(T)
      BY <1>2, FS_Subset
    <3>4. Cardinality(U) = Cardinality(T) - 1 /\ Cardinality(T) \in Nat
      BY <3>1, <3>3, FS_RemoveElement, FS_CardinalityType
    <3>5. Len(events[x]) \in Nat \ {0}
      BY <3>1
    <3>6. g[T] = Len(events[x]) + g[U]
      BY <2>1, <2>3 DEF CountStep
    <3>7. g[U] \in Nat /\ g[U] >= Cardinality(U)
      BY <3>2
    <3> HIDE DEF x, U
    <3>8. g[T] \in Nat /\ g[T] >= Cardinality(T)
      BY <3>4, <3>5, <3>6, <3>7
    <3> QED BY <3>8
  <2> QED BY <2>2, <2>3
<1>6. D \in G
  <2>1. G \in SUBSET SUBSET D
    OBVIOUS
  <2> HIDE DEF G, D
  <2>2. \A T \in SUBSET D : T \in G
    BY <1>2, <1>5, <2>1, Smallest
  <2> QED BY <2>2
<1> HIDE DEF g
<1> QED BY <1>2, <1>4, <1>6

\* The records of the events before an offset.
SeenBefore(offset) == UNION {ToSet(catalog[i]) : i \in {j \in DOMAIN catalog : j <= offset}}

\* Where a page lies in the catalog.
LEMMA PageOf ==
    ASSUME NEW offset \in Nat, catalog \in Catalogs
    PROVE  LET events == EventsAt(offset)
               S == {catalog[i] : i \in DOMAIN catalog}
           IN  /\ catalog \in Seq(S) /\ events \in Seq(S)
               /\ Len(events) < PageSize => Len(catalog) < offset + PageSize
               /\ \A i \in DOMAIN events : /\ i + offset \in DOMAIN catalog
                                           /\ i + offset <= offset + PageSize
                                           /\ events[i] = catalog[i + offset]
               /\ \A j \in DOMAIN catalog : offset < j /\ j <= offset + PageSize =>
                      j - offset \in DOMAIN events /\ events[j - offset] = catalog[j]
<1> DEFINE events == EventsAt(offset)
           last == IF offset + PageSize > Len(catalog) THEN Len(catalog) ELSE offset + PageSize
           S == {catalog[i] : i \in DOMAIN catalog}
<1>1. catalog \in Seq(S) /\ PageSize \in Nat /\ Len(catalog) \in Nat
  BY MarketRegistryAssumption
<1>2. /\ last \in Nat /\ last <= Len(catalog) /\ last <= offset + PageSize
      /\ last < offset + PageSize => last = Len(catalog)
  BY <1>1
<1>3. events = SubSeq(catalog, offset + 1, last)
  BY DEF EventsAt
<1> HIDE DEF events, last, S
<1>4. /\ events \in Seq(S)
      /\ Len(events) = IF offset + 1 <= last THEN last - offset ELSE 0
      /\ \A i \in 1..(last - offset) : events[i] = catalog[i + offset]
  <2>1. \A i \in (offset + 1)..last : catalog[i] \in S
    BY <1>1, <1>2
  <2>2. offset + 1 \in Int /\ last \in Int
    BY <1>2
  <2>3. /\ events \in Seq(S)
        /\ Len(events) = IF offset + 1 <= last THEN last - (offset + 1) + 1 ELSE 0
        /\ \A i \in 1..(last - (offset + 1) + 1) : events[i] = catalog[offset + 1 + i - 1]
    BY <1>3, <2>1, <2>2, SubSeqProperties
  <2>4. ASSUME NEW i \in 1..(last - offset) PROVE events[i] = catalog[i + offset]
    <3>1. i \in 1..(last - (offset + 1) + 1) /\ offset + 1 + i - 1 = i + offset
      BY <1>2
    <3> QED BY <2>3, <3>1
  <2> QED BY <1>2, <2>3, <2>4
<1>5. /\ DOMAIN catalog = 1..Len(catalog)
      /\ DOMAIN events = 1..(IF offset + 1 <= last THEN last - offset ELSE 0)
  BY <1>1, <1>4
<1>9. /\ PageSize \in Nat /\ offset \in Nat /\ Len(catalog) \in Nat
      /\ last \in Nat /\ last <= Len(catalog) /\ last <= offset + PageSize
  BY <1>1, <1>2
<1>6. Len(events) < PageSize => Len(catalog) < offset + PageSize
  BY ONLY <1>2, <1>4, <1>9
<1>7. ASSUME NEW i \in DOMAIN events
      PROVE  /\ i + offset \in DOMAIN catalog /\ i + offset <= offset + PageSize
             /\ events[i] = catalog[i + offset]
  <2>1. i \in 1..(last - offset)
    BY ONLY <1>5, <1>7, <1>9
  <2>2. i + offset \in 1..Len(catalog) /\ i + offset <= offset + PageSize
    BY ONLY <1>9, <2>1
  <2> QED BY <1>4, <1>5, <2>1, <2>2
<1>8. ASSUME NEW j \in DOMAIN catalog, offset < j, j <= offset + PageSize
      PROVE  j - offset \in DOMAIN events /\ events[j - offset] = catalog[j]
  <2>1. j \in 1..Len(catalog)
    BY <1>5
  <2>2. j - offset \in 1..(last - offset) /\ j - offset + offset = j /\ offset + 1 <= last
    BY ONLY <1>2, <1>8, <1>9, <2>1
  <2> QED BY <1>4, <1>5, <2>2
<1> QED BY <1>1, <1>4, <1>6, <1>7, <1>8 DEF events, S

\* A page adds its records to those before it.
LEMMA PageAdds ==
    ASSUME NEW offset \in Nat, catalog \in Catalogs
    PROVE  SeenBefore(offset + PageSize) = SeenBefore(offset) \cup Unite(EventsAt(offset))
<1> DEFINE events == EventsAt(offset)
<1>1. DOMAIN catalog \subseteq Nat
  BY PageOf
<1>2. /\ \A i \in DOMAIN events : /\ i + offset \in DOMAIN catalog
                                  /\ i + offset <= offset + PageSize
                                  /\ events[i] = catalog[i + offset]
      /\ \A j \in DOMAIN catalog : offset < j /\ j <= offset + PageSize =>
             j - offset \in DOMAIN events /\ events[j - offset] = catalog[j]
  BY PageOf
<1> HIDE DEF events
<1>3. ASSUME NEW j \in DOMAIN catalog, j <= offset + PageSize, ~(j <= offset)
      PROVE  ToSet(catalog[j]) \subseteq Unite(events)
  <2>1. offset < j
    BY <1>1, <1>3
  <2> QED BY <1>2, <1>3, <2>1 DEF Unite
<1>4. ASSUME NEW x \in SeenBefore(offset + PageSize)
      PROVE  x \in SeenBefore(offset) \cup Unite(events)
  <2>1. PICK j \in DOMAIN catalog : j <= offset + PageSize /\ x \in ToSet(catalog[j])
    BY <1>4 DEF SeenBefore
  <2> QED BY <1>3, <2>1 DEF SeenBefore
<1>5. ASSUME NEW x \in SeenBefore(offset) PROVE x \in SeenBefore(offset + PageSize)
  <2>1. PICK j \in DOMAIN catalog : j <= offset /\ x \in ToSet(catalog[j])
    BY <1>5 DEF SeenBefore
  <2>2. j <= offset + PageSize
    BY <1>1, <2>1, MarketRegistryAssumption
  <2> QED BY <2>1, <2>2 DEF SeenBefore
<1>6. ASSUME NEW x \in Unite(events) PROVE x \in SeenBefore(offset + PageSize)
  BY <1>2, <1>6 DEF SeenBefore, Unite
<1> QED BY <1>4, <1>5, <1>6 DEF events

\* What the service lists has a record for each event: the provider takes a page
\* with fewer records than page_size for the last, while the service counts events.
EventsHaveRecords == \A c \in Catalogs : \A i \in DOMAIN c : c[i] # <<>>

\* Then a page that is taken for the last one is.
LEMMA LastPage ==
    ASSUME NEW offset \in Nat, catalog \in Catalogs, EventsHaveRecords,
           RecordCount(EventsAt(offset)) < PageSize
    PROVE  SeenBefore(offset + PageSize) = Unite(catalog)
<1> DEFINE events == EventsAt(offset)
           S == {catalog[i] : i \in DOMAIN catalog}
<1>1. \A i \in DOMAIN catalog : catalog[i] \in Seq(ToSet(catalog[i])) /\ catalog[i] # <<>>
  BY MarketRegistryAssumption DEF EventsHaveRecords
<1>2. \A i \in DOMAIN catalog : Len(catalog[i]) \in Nat \ {0}
  BY <1>1
<1>3. events \in Seq(S) /\ \A i \in DOMAIN events : Len(events[i]) \in Nat \ {0}
  <2>1. events \in Seq(S)
    BY PageOf
  <2>2. \A i \in DOMAIN events : i + offset \in DOMAIN catalog /\ events[i] = catalog[i + offset]
    BY PageOf
  <2> HIDE DEF events, S
  <2> QED BY <1>2, <2>1, <2>2
<1>4. RecordCount(events) \in Nat /\ RecordCount(events) >= Len(events) /\ Len(events) \in Nat
  <2> HIDE DEF events, S
  <2>1. Len(events) \in Nat
    BY <1>3
  <2> QED BY <1>3, <2>1, RecordsCover
<1>5. Len(events) < PageSize
  BY <1>4, MarketRegistryAssumption
<1>6. Len(catalog) < offset + PageSize
  BY <1>5, PageOf
<1>7. DOMAIN catalog = 1..Len(catalog) /\ Len(catalog) \in Nat
  BY PageOf
<1>8. {j \in DOMAIN catalog : j <= offset + PageSize} = DOMAIN catalog
  BY <1>6, <1>7, MarketRegistryAssumption
<1> QED BY <1>8 DEF SeenBefore, Unite

\* What accepting some records leaves.
MetasIn(S) == {Meta(x) : x \in {y \in S : y.form = "ok"}}
IdsIn(S, form) == {x.id : x \in {y \in S : y.form = form}}

\* The records a refresh has accounted for: a market for each id, and the ids
\* that were set aside; none of them broke off a page.
AccountsFor(c, S) ==
    /\ c.markets \subseteq MetasIn(S)
    /\ {m.market_id : m \in c.markets} = IdsIn(S, "ok")
    /\ c.quarantined = IdsIn(S, "odd")
    /\ \A x \in S : x.form \in {"ok", "odd"}

\* A refresh under which the service did not change has the records before its
\* offset, and then all.
Collected(c) ==
    c.settled =>
        /\ c.phase = "fetch" => AccountsFor(c, SeenBefore(c.offset))
        /\ c.phase \in {"number", "store"} => AccountsFor(c, Unite(catalog))

CollectedInv == \A r \in Refreshers : Collected(calls[r])

\* A page of records that can be parsed, put to those before it.
LEMMA InsertAccounts ==
    ASSUME NEW c, NEW d, NEW S, NEW T, AccountsFor(c, S),
           d.markets = Insert(c.markets, MetasIn(T)),
           d.quarantined = c.quarantined \cup IdsIn(T, "odd"),
           \A x \in T : x.form \in {"ok", "odd"}
    PROVE  AccountsFor(d, S \cup T)
<1>1. /\ MetasIn(S \cup T) = MetasIn(S) \cup MetasIn(T)
      /\ \A form : IdsIn(S \cup T, form) = IdsIn(S, form) \cup IdsIn(T, form)
  BY DEF MetasIn, IdsIn
<1>2. {m.market_id : m \in MetasIn(T)} = IdsIn(T, "ok")
  <2>1. \A x : Meta(x).market_id = x.id
    BY DEF Meta
  <2> QED BY <2>1 DEF MetasIn, IdsIn
<1>3. d.markets \subseteq c.markets \cup MetasIn(T)
  BY DEF Insert
<1>4. {m.market_id : m \in d.markets} = {m.market_id : m \in c.markets} \cup IdsIn(T, "ok")
  <2>1. ASSUME NEW m \in d.markets
        PROVE  m.market_id \in {n.market_id : n \in c.markets} \cup IdsIn(T, "ok")
    BY <1>2, <1>3
  <2>2. ASSUME NEW m \in c.markets PROVE \E n \in d.markets : n.market_id = m.market_id
    BY DEF Insert
  <2>3. ASSUME NEW id \in IdsIn(T, "ok") PROVE \E n \in d.markets : n.market_id = id
    <3>1. PICK n \in MetasIn(T) : n.market_id = id
      BY <1>2, <2>3
    <3> QED BY <3>1 DEF Insert
  <2> QED BY <2>1, <2>2, <2>3
<1> QED BY <1>1, <1>3, <1>4 DEF AccountsFor

\* Then each id is accounted for.
LEMMA AllAccounted ==
    ASSUME NEW c, NEW S, AccountsFor(c, S)
    PROVE  {m.market_id : m \in c.markets} \cup c.quarantined = {x.id : x \in S}
BY DEF AccountsFor, IdsIn

\* A refresh that changes alone.
LEMMA OtherCollected ==
    ASSUME RegistryInv, CollectedInv, NEW r \in Refreshers, NEW c, Collected(c),
           calls' = [calls EXCEPT ![r] = c], UNCHANGED catalog
    PROVE  CollectedInv'
<1>1. \A s \in Refreshers : calls'[s] = IF s = r THEN c ELSE calls[s]
  BY DEF RegistryInv, RegistryTypeOK
<1>2. \A s \in Refreshers : Collected(calls'[s])
  BY <1>1 DEF CollectedInv
<1>3. ASSUME NEW d, Collected(d) PROVE Collected(d)'
  <2>1. \A o : SeenBefore(o)' = SeenBefore(o)
    BY DEF SeenBefore
  <2> QED BY <1>3, <2>1 DEF Collected
<1> QED BY <1>2, <1>3 DEF CollectedInv

LEMMA BeginCollected ==
    ASSUME RegistryInv, CollectedInv, NEW r \in Refreshers, Begin(r) PROVE CollectedInv'
<1> DEFINE c == [Idle EXCEPT !.phase = "fetch", !.settled = TRUE]
<1>1. catalog \in Catalogs
  BY DEF RegistryInv, RegistryTypeOK
<1>2. SeenBefore(0) = {}
  <2>1. catalog \in Seq({catalog[i] : i \in DOMAIN catalog})
    BY <1>1, MarketRegistryAssumption
  <2>2. \A i \in DOMAIN catalog : i \in Nat /\ i > 0
    BY <2>1
  <2> QED BY <2>2 DEF SeenBefore
<1>3. AccountsFor(c, {})
  BY DEF AccountsFor, MetasIn, IdsIn, Idle
<1>4. c.phase = "fetch" /\ c.offset = 0
  BY DEF Idle
<1> HIDE DEF c
<1>5. Collected(c)
  BY <1>2, <1>3, <1>4 DEF Collected
<1> QED BY <1>5, OtherCollected DEF Begin, c

LEMMA FetchPageCollected ==
    ASSUME RegistryInv, EventsHaveRecords, CollectedInv, NEW r \in Refreshers, FetchPage(r)
    PROVE  CollectedInv'
<1> DEFINE c == calls[r]
           events == EventsAt(c.offset)
           next == NextOffset(c.offset, events)
           records == Unite(events)
           new == [c EXCEPT !.markets = Insert(@, {Meta(x) : x \in {y \in records : y.form = "ok"}}),
                            !.quarantined = @ \cup {x.id : x \in {y \in records : y.form = "odd"}},
                            !.retries = 0,
                            !.offset = IF next = Nothing THEN @ ELSE next,
                            !.phase = IF next = Nothing THEN "number" ELSE "fetch"]
<1>1. c \in Calls /\ c.offset \in Nat /\ catalog \in Catalogs
  BY DEF RegistryInv, RegistryTypeOK, Calls
<1>2. /\ c.phase = "fetch" /\ \A x \in records : x.form # "broken"
      /\ calls' = [calls EXCEPT ![r] = new] /\ UNCHANGED catalog
  BY DEF FetchPage
<1>3. new.markets = Insert(c.markets, MetasIn(records))
  BY <1>1 DEF MetasIn, Calls
<1>4. new.quarantined = c.quarantined \cup IdsIn(records, "odd")
  BY <1>1 DEF IdsIn, Calls
<1>5. /\ new.settled = c.settled
      /\ new.offset = IF next = Nothing THEN c.offset ELSE next
      /\ new.phase = IF next = Nothing THEN "number" ELSE "fetch"
  BY <1>1 DEF Calls
<1>6. \A x \in records : x.form \in {"ok", "odd"}
  BY <1>1, <1>2, PageFinite, RecordsAssumption
<1>7. next = Nothing => RecordCount(events) < PageSize
  <2>1. c.offset + PageSize \in Nat
    BY <1>1, MarketRegistryAssumption
  <2> QED BY <2>1, MarketRegistryAssumption DEF NextOffset
<1>8. next # Nothing => next = c.offset + PageSize
  BY DEF NextOffset
<1>9. Collected(new)
  <2> HIDE DEF new, next
  <2>1. SUFFICES ASSUME c.settled
                 PROVE  /\ new.phase = "fetch" => AccountsFor(new, SeenBefore(new.offset))
                        /\ new.phase = "number" => AccountsFor(new, Unite(catalog))
                        /\ new.phase \in {"fetch", "number"}
    BY <1>5 DEF Collected
  <2>2. AccountsFor(c, SeenBefore(c.offset))
    BY <1>2, <2>1 DEF CollectedInv, Collected
  <2>3. AccountsFor(new, SeenBefore(c.offset) \cup records)
    <3> HIDE DEF c, records
    <3> QED BY <1>3, <1>4, <1>6, <2>2, InsertAccounts
  <2>4. SeenBefore(c.offset + PageSize) = SeenBefore(c.offset) \cup records
    BY <1>1, PageAdds
  <2>5. next = Nothing => SeenBefore(c.offset + PageSize) = Unite(catalog)
    BY <1>1, <1>7, LastPage
  <2> QED BY <1>5, <1>8, <2>3, <2>4, <2>5
<1> HIDE DEF new
<1> QED BY <1>2, <1>9, OtherCollected

\* The other steps of a refresh collect nothing.
LEMMA KeepsCollected ==
    ASSUME RegistryInv, CollectedInv, NEW r \in Refreshers, NEW c, UNCHANGED catalog,
           calls' = [calls EXCEPT ![r] = c],
           c.markets = calls[r].markets, c.quarantined = calls[r].quarantined,
           c.offset = calls[r].offset, c.settled = calls[r].settled,
           \/ c.phase \in {"failed", "done"} \/ c.phase = calls[r].phase
           \/ c.phase = "store" /\ calls[r].phase = "number"
    PROVE  CollectedInv'
<1>1. Collected(calls[r])
  BY DEF CollectedInv
<1>2. Collected(c)
  BY <1>1 DEF Collected, AccountsFor
<1> QED BY <1>2, OtherCollected

LEMMA RegistryCollected ==
    ASSUME RegistryInv, EventsHaveRecords, CollectedInv, RegistryStep PROVE CollectedInv'
<1>1. ASSUME NEW r \in Refreshers, NEW transient \in BOOLEAN, FetchFails(r, transient)
      PROVE  CollectedInv'
  <2> DEFINE c == IF transient /\ MayRetry(calls[r]) THEN [calls[r] EXCEPT !.retries = @ + 1]
                  ELSE [calls[r] EXCEPT !.phase = "failed"]
  <2>1. calls' = [calls EXCEPT ![r] = c] /\ UNCHANGED catalog /\ calls[r] \in Calls
    BY <1>1 DEF FetchFails, RegistryInv, RegistryTypeOK
  <2>2. /\ c.markets = calls[r].markets /\ c.quarantined = calls[r].quarantined
        /\ c.offset = calls[r].offset /\ c.settled = calls[r].settled
        /\ c.phase = calls[r].phase \/ c.phase = "failed"
    BY <2>1 DEF Calls
  <2> HIDE DEF c
  <2> QED BY <2>1, <2>2, KeepsCollected
<1>2. ASSUME NEW r \in Refreshers, Number(r) PROVE CollectedInv'
  <2> DEFINE c == [calls[r] EXCEPT !.sequence = SequenceFor, !.phase = "store"]
  <2>1. calls' = [calls EXCEPT ![r] = c] /\ UNCHANGED catalog /\ calls[r] \in Calls
        /\ calls[r].phase = "number"
    BY <1>2 DEF Number, RegistryInv, RegistryTypeOK
  <2>2. /\ c.markets = calls[r].markets /\ c.quarantined = calls[r].quarantined
        /\ c.offset = calls[r].offset /\ c.settled = calls[r].settled /\ c.phase = "store"
    BY <2>1 DEF Calls
  <2> HIDE DEF c
  <2> QED BY <2>1, <2>2, KeepsCollected
<1>3. ASSUME NEW r \in Refreshers, Store(r) \/ Degrade(r) PROVE CollectedInv'
  <2>1. PICK outcome : /\ calls' = [calls EXCEPT ![r].phase = "done", ![r].outcome = outcome]
                       /\ UNCHANGED catalog
    BY <1>3 DEF Store, Degrade
  <2> DEFINE c == [calls[r] EXCEPT !.phase = "done", !.outcome = outcome]
  <2>2. calls' = [calls EXCEPT ![r] = c] /\ calls[r] \in Calls
    BY <2>1 DEF RegistryInv, RegistryTypeOK
  <2>3. /\ c.markets = calls[r].markets /\ c.quarantined = calls[r].quarantined
        /\ c.offset = calls[r].offset /\ c.settled = calls[r].settled /\ c.phase = "done"
    BY <2>2 DEF Calls
  <2> HIDE DEF c
  <2> QED BY <2>1, <2>2, <2>3, KeepsCollected
<1>4. ASSUME CatalogChanges PROVE CollectedInv'
  <2>1. \A r \in Refreshers : calls[r] \in Calls
    BY DEF RegistryInv, RegistryTypeOK
  <2>2. \A r \in Refreshers : calls'[r].settled = FALSE
    BY <1>4, <2>1 DEF CatalogChanges, Calls
  <2> QED BY <2>2 DEF CollectedInv, Collected
<1> QED BY <1>1, <1>2, <1>3, <1>4, BeginCollected, FetchPageCollected DEF RegistryStep

LEMMA CollectedNext ==
    ASSUME RegistryInv, EventsHaveRecords, CollectedInv, [Next]_vars PROVE CollectedInv'
<1>1. ASSUME UNCHANGED registryVars PROVE CollectedInv'
  <2>1. \A d : Collected(d) => Collected(d)'
    <3>1. \A o : SeenBefore(o)' = SeenBefore(o)
      BY <1>1 DEF SeenBefore, registryVars
    <3> QED BY <1>1, <3>1 DEF Collected, registryVars
  <2> QED BY <1>1, <2>1 DEF CollectedInv, registryVars
<1>2. ASSUME NEW r \in Refreshers, HandOver(r) PROVE CollectedInv'
  <2>1. Collected(Idle)
    BY DEF Collected, Idle
  <2> QED BY <1>2, <2>1, OtherCollected DEF HandOver
<1> QED BY <1>1, <1>2, RegistryCollected DEF Next, vars

\* registry_provider.rs:113: a refresh under which the service did not change
\* accounts for every record it lists, when each event has a record.
THEOREM SnapshotsWhole == ASSUME EventsHaveRecords PROVE Spec => []SnapshotsComplete
<1>1. Init => CollectedInv
  BY DEF Init, RegistryInit, CollectedInv, Collected, Idle
<1>2. RegistryInv /\ CollectedInv /\ [Next]_vars => CollectedInv'
  BY CollectedNext
<1>3. CollectedInv => SnapshotsComplete
  BY AllAccounted DEF CollectedInv, Collected, SnapshotsComplete
<1> QED BY <1>1, <1>2, <1>3, Inv, PTL DEF Spec

\* Two records of a market in what the service lists say the same of it.
MarketsAgree ==
    \A c \in Catalogs : \A x, y \in Unite(c) :
        x.form = "ok" /\ y.form = "ok" /\ x.id = y.id => Meta(x) = Meta(y)

\* The universe of all the service lists.
FullUniverse == Selected(MetasIn(Unite(catalog)))

\* While that stays as it is: no refresh in progress has seen anything else, and
\* whatever has been stored or handed out is of all of it.
WholeInv ==
    /\ count \in [refreshes : Nat, faults : Nat, changes : Nat]
    /\ count.changes = 0 =>
         /\ \A r \in Refreshers :
              /\ calls[r].phase # "idle" => calls[r].settled
              /\ calls[r].outcome # Nothing => calls[r].outcome.universe = FullUniverse
         /\ registry.last_good # Nothing => registry.last_good_universe = FullUniverse

LEMMA AccountedMetas ==
    ASSUME NEW c, catalog \in Catalogs, MarketsAgree, AccountsFor(c, Unite(catalog))
    PROVE  c.markets = MetasIn(Unite(catalog))
<1>1. ASSUME NEW n \in MetasIn(Unite(catalog)) PROVE n \in c.markets
  <2>0. \A x : Meta(x).market_id = x.id
    BY DEF Meta
  <2>1. PICK x \in Unite(catalog) : x.form = "ok" /\ n = Meta(x)
    BY <1>1 DEF MetasIn
  <2>2. x.id \in IdsIn(Unite(catalog), "ok")
    BY <2>1 DEF IdsIn
  <2>3. PICK m \in c.markets : m.market_id = x.id
    BY <2>2 DEF AccountsFor
  <2>4. PICK y \in Unite(catalog) : y.form = "ok" /\ m = Meta(y)
    BY <2>3 DEF AccountsFor, MetasIn
  <2>5. y.id = x.id
    BY <2>0, <2>3, <2>4
  <2> QED BY <2>1, <2>3, <2>4, <2>5 DEF MarketsAgree
<1> QED BY <1>1 DEF AccountsFor

\* A step of one refresh that stores nothing.
LEMMA OtherWhole ==
    ASSUME RegistryInv, WholeInv, NEW r \in Refreshers, NEW c,
           calls' = [calls EXCEPT ![r] = c], UNCHANGED catalog,
           registry'.last_good = registry.last_good,
           registry'.last_good_universe = registry.last_good_universe,
           count' \in [refreshes : Nat, faults : Nat, changes : Nat],
           count'.changes = count.changes,
           \/ c.phase = "idle" \/ c.settled = TRUE
           \/ calls[r].phase # "idle" /\ c.settled = calls[r].settled,
           c.outcome \in {calls[r].outcome, FallBack(r), Nothing}
    PROVE  WholeInv'
<1>1. \A s \in Refreshers : calls'[s] = IF s = r THEN c ELSE calls[s]
  BY DEF RegistryInv, RegistryTypeOK
<1>3. FullUniverse' = FullUniverse
  BY DEF FullUniverse
<1>4. ASSUME count.changes = 0
      PROVE  /\ c.phase # "idle" => c.settled
             /\ c.outcome # Nothing => c.outcome.universe = FullUniverse
  <2>1. c.phase # "idle" => c.settled
    BY <1>4 DEF WholeInv
  <2>2. c.outcome = FallBack(r) /\ c.outcome # Nothing => c.outcome.universe = FullUniverse
    BY <1>4 DEF WholeInv, FallBack, Outcome
  <2> QED BY <1>4, <2>1, <2>2 DEF WholeInv
<1> QED BY <1>1, <1>3, <1>4 DEF WholeInv

LEMMA StoreWhole ==
    ASSUME RegistryInv, CollectedInv, MarketsAgree, WholeInv, NEW r \in Refreshers, Store(r)
    PROVE  WholeInv'
<1> DEFINE snapshot == [sequence |-> calls[r].sequence, markets |-> calls[r].markets,
                        quarantined |-> calls[r].quarantined]
           universe == Selected(calls[r].markets)
           outcome == Outcome(snapshot, universe, FALSE)
<1>1. catalog \in Catalogs /\ calls \in [Refreshers -> Calls]
  BY DEF RegistryInv, RegistryTypeOK
<1>2. /\ calls[r].phase = "store"
      /\ calls' = [calls EXCEPT ![r].phase = "done", ![r].outcome = outcome]
      /\ registry' = [registry EXCEPT !.current = snapshot, !.current_universe = universe,
                                      !.last_good = snapshot, !.last_good_universe = universe]
      /\ UNCHANGED <<catalog, count>>
  BY DEF Store
<1>3. outcome.universe = universe
  BY DEF Outcome
<1> HIDE DEF snapshot, universe, outcome
<1>4. \A s \in Refreshers : /\ s # r => calls'[s] = calls[s]
                            /\ calls'[s].settled = calls[s].settled
  BY <1>1, <1>2 DEF Calls
<1>5. calls'[r].outcome = outcome
  BY <1>1, <1>2 DEF Calls
<1>6. registry'.last_good_universe = universe
  BY <1>2 DEF RegistryInv, RegistryTypeOK
<1>7. ASSUME count.changes = 0 PROVE universe = FullUniverse
  <2>1. AccountsFor(calls[r], Unite(catalog))
    BY <1>2, <1>7 DEF WholeInv, CollectedInv, Collected
  <2> QED BY <1>1, <2>1, AccountedMetas DEF universe, FullUniverse
<1>8. FullUniverse' = FullUniverse
  BY <1>2 DEF FullUniverse
<1>9. \A s \in Refreshers : calls'[s].phase # "idle" => calls[s].phase # "idle"
  BY <1>2, <1>4
<1>10. ASSUME count.changes = 0, NEW s \in Refreshers
       PROVE  /\ calls'[s].phase # "idle" => calls'[s].settled
              /\ calls'[s].outcome # Nothing => calls'[s].outcome.universe = FullUniverse
  <2>1. calls'[s].phase # "idle" => calls[s].settled
    BY <1>9, <1>10 DEF WholeInv
  <2>2. calls'[s].outcome # Nothing => calls'[s].outcome.universe = FullUniverse
    <3>1. CASE s = r
      BY <1>3, <1>5, <1>7, <1>10, <3>1
    <3>2. CASE s # r
      BY <1>4, <1>10, <3>2 DEF WholeInv
    <3> QED BY <3>1, <3>2
  <2> QED BY <1>4, <2>1, <2>2
<1>11. UNCHANGED count
  BY <1>2
<1> QED BY <1>6, <1>7, <1>8, <1>10, <1>11 DEF WholeInv

LEMMA RegistryWhole ==
    ASSUME RegistryInv, CollectedInv, MarketsAgree, WholeInv, RegistryStep PROVE WholeInv'
<1>1. count \in [refreshes : Nat, faults : Nat, changes : Nat]
  BY DEF WholeInv
<1>2. ASSUME NEW r \in Refreshers, Begin(r) PROVE WholeInv'
  <2> DEFINE c == [Idle EXCEPT !.phase = "fetch", !.settled = TRUE]
  <2>1. calls' = [calls EXCEPT ![r] = c] /\ UNCHANGED <<catalog, registry>>
    BY <1>2 DEF Begin
  <2>2. /\ count' \in [refreshes : Nat, faults : Nat, changes : Nat]
        /\ count'.changes = count.changes
    BY <1>1, <1>2 DEF Begin
  <2>3. c.settled = TRUE /\ c.outcome = Nothing
    BY DEF Idle
  <2> HIDE DEF c
  <2> QED BY <2>1, <2>2, <2>3, OtherWhole
<1>3. ASSUME NEW r \in Refreshers, FetchPage(r) \/ Number(r) \/ Degrade(r)
                                     \/ \E transient \in BOOLEAN : FetchFails(r, transient)
      PROVE  WholeInv'
  <2> DEFINE c == calls'[r]
  <2>1. calls \in [Refreshers -> Calls] /\ calls[r] \in Calls
    BY DEF RegistryInv, RegistryTypeOK
  <2>2. calls[r].phase # "idle" /\ UNCHANGED catalog
    BY <1>3 DEF FetchPage, Number, Degrade, FetchFails
  <2>3. /\ calls' = [calls EXCEPT ![r] = c] /\ c.settled = calls[r].settled
        /\ c.outcome \in {calls[r].outcome, FallBack(r)}
        /\ registry'.last_good = registry.last_good
        /\ registry'.last_good_universe = registry.last_good_universe
        /\ count' \in [refreshes : Nat, faults : Nat, changes : Nat]
        /\ count'.changes = count.changes
    <3>1. CASE FetchPage(r)
      BY <1>1, <2>1, <3>1 DEF FetchPage, Calls, RegistryInv, RegistryTypeOK
    <3>2. CASE Number(r)
      BY <1>1, <2>1, <3>2 DEF Number, Calls, RegistryInv, RegistryTypeOK
    <3>3. CASE Degrade(r)
      BY <1>1, <2>1, <3>3 DEF Degrade, Calls, RegistryInv, RegistryTypeOK
    <3>4. CASE \E transient \in BOOLEAN : FetchFails(r, transient)
      BY <1>1, <2>1, <3>4 DEF FetchFails, Calls, RegistryInv, RegistryTypeOK
    <3> QED BY <1>3, <3>1, <3>2, <3>3, <3>4
  <2> HIDE DEF c
  <2> QED BY <2>2, <2>3, OtherWhole
<1>4. ASSUME CatalogChanges PROVE WholeInv'
  <2>1. count' \in [refreshes : Nat, faults : Nat, changes : Nat] /\ count'.changes # 0
    BY <1>1, <1>4 DEF CatalogChanges
  <2> QED BY <2>1 DEF WholeInv
<1> QED BY <1>2, <1>3, <1>4, StoreWhole DEF RegistryStep

LEMMA WholeNext ==
    ASSUME RegistryInv, CollectedInv, MarketsAgree, WholeInv, [Next]_vars PROVE WholeInv'
<1>1. ASSUME UNCHANGED registryVars PROVE WholeInv'
  BY <1>1 DEF WholeInv, FullUniverse, registryVars
<1>2. ASSUME NEW r \in Refreshers, HandOver(r) PROVE WholeInv'
  <2>1. Idle.phase = "idle" /\ Idle.outcome = Nothing
    BY DEF Idle
  <2>2. /\ calls' = [calls EXCEPT ![r] = Idle] /\ UNCHANGED <<catalog, registry, count>>
    BY <1>2 DEF HandOver
  <2>3. count' \in [refreshes : Nat, faults : Nat, changes : Nat] /\ count'.changes = count.changes
    BY <2>2 DEF WholeInv
  <2> QED BY <2>1, <2>2, <2>3, OtherWhole
<1> QED BY <1>1, <1>2, RegistryWhole DEF Next, vars

\* market_registry.rs:113: whatever requests fail, a refresh yields the universe of
\* all the service lists, or an error, when each event has a record and no two
\* records disagree about a market.
THEOREM UniversesFull ==
    ASSUME EventsHaveRecords, MarketsAgree PROVE Spec => []UniversesWhole
<1>1. Init => CollectedInv /\ WholeInv
  BY DEF Init, RegistryInit, CollectedInv, Collected, WholeInv, Idle
<1>2. RegistryInv /\ CollectedInv /\ WholeInv /\ [Next]_vars => CollectedInv' /\ WholeInv'
  BY CollectedNext, WholeNext
<1>3. WholeInv => UniversesWhole
  BY DEF WholeInv, UniversesWhole, FullUniverse, MetasIn
<1> QED BY <1>1, <1>2, <1>3, Inv, PTL DEF Spec

=============================================================================
