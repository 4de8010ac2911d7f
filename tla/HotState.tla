------------------------------ MODULE HotState ------------------------------
(***************************************************************************)
(* rtt-core/src/hot_state.rs: HotStateStore, the store a strategy's        *)
(* runtime reads: per source and asset the best levels of a book, in units *)
(* and ticks, and per subject the last reference facts.  Every operation   *)
(* takes the one lock for its whole length, so each is one action of the   *)
(* modules that use this one; here are the actions and the reads.          *)
(*                                                                         *)
(* Left out: market ids, hashes, lots (converted as ticks are), and the    *)
(* midpoint, which is a function of the two levels.  A reference fact is   *)
(* the version that set it.                                                *)
(*                                                                         *)
(* A definition named X_Fault is X with a mistake the code could have made *)
(* in its place; no action uses it.                                        *)
(***************************************************************************)
EXTENDS Integers, FiniteSets, FiniteSetsExt

CONSTANTS
    Assets,      \* the assets of one market of the source "pm"
    Symbols,     \* the symbols of the source "ext"
    Prices,      \* prices, in units
    None         \* nothing: no state, no level, no value

\* Ticks, levels and states; None is none of them.
TickType == Nat \cup {None}
LevelType == [price : Prices, size : Nat, ticks : TickType]
BookType == [bid : LevelType \cup {None}, ask : LevelType \cup {None},
             tick : TickType, version : Nat]

ASSUME HotStateAssumption ==
    /\ Prices \subseteq Nat /\ IsFiniteSet(Prices)
    /\ None \notin Nat /\ None \notin [price : Prices, size : Nat]
    /\ None \notin LevelType /\ None \notin BookType

VARIABLES
    markets,     \* markets_by_asset: the registered tick size, or None
    books,       \* HotBookState of each asset, or None
    references   \* HotReferenceState of each subject, or None

hotVars == <<markets, books, references>>

\* InstrumentRef: of an asset, of a symbol, of a whole source.
AssetRef(a) == [source |-> "pm", kind |-> "Asset", id |-> a]
SymbolRef(s) == [source |-> "ext", kind |-> "Symbol", id |-> s]
SourceRef(src) == [source |-> src, kind |-> "Source", id |-> "_source"]

Subjects == {AssetRef(a) : a \in Assets} \cup {SymbolRef(s) : s \in Symbols}
            \cup {SourceRef(src) : src \in {"pm", "ext"}}

BookKinds == {"BookSnapshot", "BookDelta", "BestBidAsk", "TickSizeChange"}
ReferenceKinds == {"TradeTick", "ReferencePrice", "Reconnect", "SourceStatus"}

Notice(subject, kind, version) == [subject |-> subject, kind |-> kind, version |-> version]

HotInit ==
    /\ markets = [a \in Assets |-> None]
    /\ books = [a \in Assets |-> None]
    /\ references = [s \in Subjects |-> None]

-----------------------------------------------------------------------------
\* Levels.

\* ticks_for: a price off the grid has no ticks.
TicksFor(units, step) ==
    IF step = None \/ step = 0 THEN None
    ELSE IF units % step # 0 THEN None ELSE units \div step

MakeLevel(a, price, size) ==
    [price |-> price, size |-> size, ticks |-> TicksFor(price, markets[a])]

Refreshed(level, tick) ==
    IF level = None THEN None ELSE [level EXCEPT !.ticks = TicksFor(level.price, tick)]

WithTick(book, tick) ==
    [book EXCEPT !.tick = tick, !.bid = Refreshed(@, tick), !.ask = Refreshed(@, tick)]

\* apply_registered_market, when the asset is registered.
Registered(a, book) == IF markets[a] = None THEN book ELSE WithTick(book, markets[a])

\* best_level of a set of levels [price, size]: the highest bid, the lowest ask.
BestLevel(a, side, levels) ==
    IF levels = {} THEN None
    ELSE LET prices == {l.price : l \in levels}
             top == IF side = "Buy" THEN Max(prices) ELSE Min(prices)
         IN  MakeLevel(a, top, (CHOOSE l \in levels : l.price = top).size)

\* The state an update starts from: the asset's, or an empty one.
Start(a) == IF books[a] # None THEN books[a]
            ELSE [bid |-> None, ask |-> None, tick |-> markets[a], version |-> 0]

\* Fault: the version of the notice is not taken over.
Put_KeepVersion(n, book) == books' = [books EXCEPT ![n.subject.id] = book]

Put(n, book) ==
    books' = [books EXCEPT ![n.subject.id] = [book EXCEPT !.version = n.version]]

-----------------------------------------------------------------------------
\* Operations on books; n is the notice, n.subject the asset.

\* Fault: the levels keep the ticks they have.
RegisterMarket_KeepLevels(tick) ==
    /\ markets' = [a \in Assets |-> tick]
    /\ books' = [a \in Assets |-> IF books[a] = None THEN None
                                  ELSE [books[a] EXCEPT !.tick = tick]]
    /\ UNCHANGED references

RegisterMarket(tick) ==
    /\ markets' = [a \in Assets |-> tick]
    /\ books' = [a \in Assets |-> IF books[a] = None THEN None ELSE WithTick(books[a], tick)]
    /\ UNCHANGED references

\* A snapshot replaces the state.
Replace(n, bid, ask) ==
    LET a == n.subject.id
    IN  /\ Put(n, Registered(a, [bid |-> bid, ask |-> ask, tick |-> markets[a],
                                 version |-> n.version]))
        /\ UNCHANGED <<markets, references>>

ApplyBookSnapshot(n, bids, asks) ==
    LET a == n.subject.id
    IN  Replace(n, BestLevel(a, "Buy", bids), BestLevel(a, "Sell", asks))

\* apply_orderbook_snapshot_resolution: of the levels that are best already.
ApplyTop(n, bid, ask) ==
    LET level(l) == IF l = None THEN None ELSE MakeLevel(n.subject.id, l.price, l.size)
    IN  Replace(n, level(bid), level(ask))

\* updates_best_side
Improves(side, level, current) ==
    \/ current = None
    \/ IF side = "Buy" THEN level.price >= current.price ELSE level.price <= current.price

\* Fault: the level of the delta becomes the best one.
DeltaLevel_Last(a, side, current, price, size, best) == MakeLevel(a, price, size)

\* The best level of the delta's side.  A best price the delta names gets the
\* delta's size if it is the delta's price, and otherwise the size of the level
\* that was best; without one, the delta's own level wins if it is no worse.
DeltaLevel(a, side, current, price, size, best) ==
    LET level == MakeLevel(a, price, size)
    IN  CASE best = None -> IF Improves(side, level, current) THEN level ELSE current
          [] best # None /\ best = price -> level
          [] OTHER -> MakeLevel(a, best, IF current = None THEN 0 ELSE current.size)

ApplyBookDelta(n, side, price, size, bestBid, bestAsk) ==
    LET a == n.subject.id
        old == Start(a)
    IN  /\ Put(n, IF side = "Buy"
                  THEN [old EXCEPT !.bid = DeltaLevel(a, side, @, price, size, bestBid)]
                  ELSE [old EXCEPT !.ask = DeltaLevel(a, side, @, price, size, bestAsk)])
        /\ UNCHANGED <<markets, references>>

ApplyBestBidAsk(n, bid, ask) ==
    LET a == n.subject.id
    IN  /\ Put(n, Registered(a, [Start(a) EXCEPT !.bid = MakeLevel(a, bid, 0),
                                                 !.ask = MakeLevel(a, ask, 0)]))
        /\ UNCHANGED <<markets, references>>

ApplyTickSizeChange(n, tick) ==
    /\ Put(n, WithTick(Start(n.subject.id), tick))
    /\ UNCHANGED <<markets, references>>

-----------------------------------------------------------------------------
\* Operations on references.

EmptyReference == [price |-> None, trade |-> None, status |-> None,
                   reconnect |-> None, version |-> 0]

\* apply_reference_price_update, apply_trade_tick_update,
\* apply_source_status_update: one fact is set, the others are kept.
ApplyReference(n, fact) ==
    LET old == IF references[n.subject] = None THEN EmptyReference ELSE references[n.subject]
    IN  /\ references' = [references EXCEPT ![n.subject] =
                             [old EXCEPT ![fact] = n.version, !.version = n.version]]
        /\ UNCHANGED <<markets, books>>

\* The asset's books are the only ones "pm" has.
BooksWithout(src) == IF src = "pm" THEN [a \in Assets |-> None] ELSE books

\* Fault: the books stay.
ApplyReconnect_KeepBooks(n) ==
    /\ references' = [s \in Subjects |->
           IF s = n.subject THEN [EmptyReference EXCEPT !.reconnect = n.version,
                                                        !.version = n.version]
           ELSE IF s.source = n.subject.source THEN None ELSE references[s]]
    /\ UNCHANGED <<markets, books>>

\* Everything of the source goes, but for the reconnection itself.
ApplyReconnect(n) ==
    /\ references' = [s \in Subjects |->
           IF s = n.subject THEN [EmptyReference EXCEPT !.reconnect = n.version,
                                                        !.version = n.version]
           ELSE IF s.source = n.subject.source THEN None ELSE references[s]]
    /\ books' = BooksWithout(n.subject.source)
    /\ UNCHANGED markets

-----------------------------------------------------------------------------
\* Reads.

BookOf(ref) == IF ref.kind = "Asset" /\ ref.source = "pm" THEN books[ref.id] ELSE None

\* resolve_book_notice and resolve_reference_notice: the state, if the notice is
\* of its version.
ResolveBook(n) ==
    LET b == BookOf(n.subject)
    IN  IF b # None /\ b.version = n.version THEN b ELSE None

ResolveReference(n) ==
    LET r == references[n.subject]
    IN  IF r # None /\ r.version = n.version THEN r ELSE None

HotTypeOK ==
    /\ markets \in [Assets -> TickType]
    /\ books \in [Assets -> BookType \cup {None}]
=============================================================================
