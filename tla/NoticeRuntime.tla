--------------------------- MODULE NoticeRuntime ---------------------------
(***************************************************************************)
(* A strategy's runtime over the hot state: pm-strategy/src/runtime.rs     *)
(* (NoticeDrivenRuntime, and TriggerRuntime and QuoteRuntime over          *)
(* SharedRuntimeScaffold) and the replays of backtest.rs, on the store of  *)
(* HotState and the updates pm-data/src/types.rs makes of the messages.    *)
(*                                                                         *)
(* An update is applied to the store, or its notice resolved by the feed's *)
(* stores and the resolution applied; then the notice is queued: by the    *)
(* time the runtime reads the notice the store may be further on.  The     *)
(* exchange and the external feed are external; losses before the store    *)
(* are in module Feed.  What a strategy does with a view is left open: it  *)
(* may ask for a trigger or not.  The inventory is in module Quotes.       *)
(*                                                                         *)
(* A definition named X_Fault is X with a mistake the code could have made *)
(* in its place; no action uses it.                                        *)
(***************************************************************************)
EXTENDS HotState, Sequences, SequencesExt

CONSTANTS
    BidPrices, AskPrices,  \* where the exchange's levels may be
    Ticks,                 \* tick sizes
    Requirements,          \* of the strategy: records [kind, selector]
    Runtimes,              \* "legacy": NoticeDrivenRuntime, "view": the other two
    Modes,                 \* "live": over channels; "replay": backtest.rs
    NoticeCap,             \* capacity of the channel of notices
    MaxBook, MaxOther      \* bounds: events of the exchange's books and
                           \*   connections, and all others

ASSUME NoticeRuntimeAssumption ==
    /\ BidPrices \cup AskPrices \subseteq Prices
    /\ BidPrices # {} /\ AskPrices # {} /\ Min(BidPrices) < Max(AskPrices)
    /\ Ticks \subseteq Nat
    /\ NoticeCap \in Nat \ {0} /\ {MaxBook, MaxOther} \subseteq Nat

VARIABLES
    truth,      \* the exchange: its levels, [bids, asks] of each asset
    dumped,     \* the exchange: assets whose book it has sent on this connection
    clock,      \* [now, pm, ext]: the time, the sequence of reconnections of each source
    updates,    \* [book, other]: how many so far
    notices,    \* notice_rx
    runtime,    \* [kind, mode], fixed
    phase,      \* of the loop: "recv", "send" of a trigger, "ended"
    seen,       \* seen_subjects
    shown       \* the last state of each subject the strategy was given

sources == <<truth, dumped, clock, updates>>
loop == <<runtime, phase, seen, shown>>
vars == <<hotVars, sources, notices, loop>>

-----------------------------------------------------------------------------
\* What the strategy requires, RuntimeTopologyPlan.

WantsBook(kind) == kind \in {"PolymarketBbo", "PolymarketDepthTopN", "RewardMetadata"}
WantsReference(kind) == kind \in {"ExternalReferencePrice", "RecentTrades"}

DefaultSource(kind) ==
    CASE WantsBook(kind) -> "pm"
      [] kind = "ExternalReferencePrice" -> "ext"
      [] kind = "RecentTrades" -> "external-trades"
      [] OTHER -> "strategy-runtime"

\* provision_source and provision_subject.
Provision(r) ==
    IF r.selector.of = "Source" THEN SourceRef(r.selector.id)
    ELSE [source |-> DefaultSource(r.kind), kind |-> r.selector.of, id |-> r.selector.id]

Inputs == {[kind |-> r.kind, subject |-> Provision(r)] : r \in Requirements}

-----------------------------------------------------------------------------
\* The runtime.

IsRelevant(n) == \E i \in Inputs : i.subject = n.subject

Current(i) ==
    IF WantsBook(i.kind) THEN BookOf(i.subject)
    ELSE IF WantsReference(i.kind) /\ i.subject \in Subjects THEN references[i.subject]
    ELSE None

\* resolve_notice, as far as the input asks for that sort of state.
Resolved(i, n) ==
    CASE WantsBook(i.kind) /\ n.kind \in BookKinds -> ResolveBook(n)
      [] WantsReference(i.kind) /\ n.kind \in ReferenceKinds -> ResolveReference(n)
      [] OTHER -> None

\* resolve_book and resolve_reference: the notice's own subject at the notice's
\* version, a companion as it is now, once it has been seen.
StateFor(i, n) ==
    CASE i.subject = n.subject -> Resolved(i, n)
      [] i.subject # n.subject /\ i.subject \in seen -> Current(i)
      [] OTHER -> None

\* push_unique_book and push_unique_reference: the first state of a subject stays.
\* All the inputs of a subject that want a book give the same one, and so do those
\* that want a reference.
FirstOf(states) == CHOOSE x \in states : TRUE

\* The view of SharedRuntimeScaffold, or the one snapshot of project_snapshot,
\* which takes a notice of any kind: for each subject, a state or None.
View(n) ==
    IF runtime.kind = "view"
    THEN [s \in Subjects |->
            LET states == {StateFor(i, n) : i \in {j \in Inputs : j.subject = s}} \ {None}
            IN  IF IsRelevant(n) /\ states # {} THEN FirstOf(states) ELSE None]
    ELSE [s \in Subjects |-> IF s = n.subject THEN ResolveBook(n) ELSE None]

Handled(n) == IF runtime.kind = "view" THEN IsRelevant(n) ELSE ResolveBook(n) # None

SeenAfter(n) ==
    IF runtime.kind = "view" /\ IsRelevant(n) THEN seen \cup {n.subject} ELSE seen

\* handle_notice.  A live loop then sends the trigger, if the strategy wants one.
Handle ==
    /\ phase = "recv" /\ notices # <<>>
    /\ LET n == Head(notices)
           view == View(n)
       IN  /\ shown' = [s \in Subjects |-> IF view[s] # None THEN view[s] ELSE shown[s]]
           /\ seen' = SeenAfter(n)
           /\ \E wanted \in BOOLEAN :
                /\ wanted => Handled(n)
                /\ phase' = IF wanted /\ runtime.mode = "live" THEN "send" ELSE "recv"
    /\ notices' = Tail(notices)
    /\ UNCHANGED <<hotVars, sources, runtime>>

\* trigger_tx.send, which waits while the channel is full (its reader is in
\* module TriggerPipeline), and fails without a receiver: the loop ends.
Send ==
    /\ phase = "send"
    /\ phase' \in {"recv", "ended"}
    /\ UNCHANGED <<hotVars, sources, notices, runtime, seen, shown>>

-----------------------------------------------------------------------------
\* Updates.  In a replay the next one waits for the view of the last.

\* Nothing reads the store after the loop has ended.
Count(what) ==
    /\ phase # "ended"
    /\ updates' = [updates EXCEPT ![what] = @ + 1]
    /\ updates.book <= MaxBook - (IF what = "book" THEN 1 ELSE 0)
    /\ updates.other <= MaxOther - (IF what = "other" THEN 1 ELSE 0)

Publish(n, what) ==
    /\ Count(what)
    /\ runtime.mode = "replay" => notices = <<>>
    /\ Len(notices) < NoticeCap /\ notices' = Append(notices, n)
    /\ UNCHANGED loop

\* Timestamps are in milliseconds: several updates may share one.
Stamp(n) == /\ n.version \in {clock.now, clock.now + 1}
            /\ clock' = [clock EXCEPT !.now = n.version]

Versions == 0..(MaxBook + MaxOther)

Levels(prices) == {[price |-> p, size |-> 1] : p \in prices}

\* The best price of a side of a book.
Best(side, prices) ==
    IF prices = {} THEN None ELSE IF side = "Buy" THEN Max(prices) ELSE Min(prices)

\* resolve_notice of the feed's stores, whose order book is the exchange's.
ResolvedLevel(side, prices) ==
    IF prices = {} THEN None ELSE [price |-> Best(side, prices), size |-> 1]

\* The notice of a book is answered with the book's best levels, and
\* apply_resolution puts them in the store.
Resolve(n, book) == ApplyTop(n, ResolvedLevel("Buy", book.bids), ResolvedLevel("Sell", book.asks))

\* The book event, which the exchange sends first.
BookEvent(a, v) ==
    LET n == Notice(AssetRef(a), "BookSnapshot", v)
    IN  /\ Stamp(n) /\ Publish(n, "book")
        /\ \/ ApplyBookSnapshot(n, Levels(truth[a].bids), Levels(truth[a].asks))
           \/ Resolve(n, truth[a])
        /\ dumped' = dumped \cup {a}
        /\ UNCHANGED truth

Toggle(prices, p) == IF p \in prices THEN prices \ {p} ELSE prices \cup {p}

\* A level comes or goes: a price_change entry, if this connection has the book.
\* It names the best price of its side, if there is one.
PriceChange(a, side, p, v) ==
    LET book == IF side = "Buy" THEN [truth[a] EXCEPT !.bids = Toggle(@, p)]
                                ELSE [truth[a] EXCEPT !.asks = Toggle(@, p)]
        size == IF p \in book.bids \cup book.asks THEN 1 ELSE 0
        n == Notice(AssetRef(a), "BookDelta", v)
    IN  /\ p \in IF side = "Buy" THEN BidPrices ELSE AskPrices
        /\ \A b \in book.bids, k \in book.asks : b < k
        /\ truth' = [truth EXCEPT ![a] = book]
        /\ IF a \in dumped
           THEN /\ Stamp(n) /\ Publish(n, "book")
                /\ \/ ApplyBookDelta(n, side, p, size, Best("Buy", book.bids), Best("Sell", book.asks))
                   \/ Resolve(n, book)
           ELSE /\ v = 0 /\ Count("book")
                /\ UNCHANGED <<hotVars, clock, notices, loop>>
        /\ UNCHANGED dumped

BestBidAskEvent(a, v) ==
    LET n == Notice(AssetRef(a), "BestBidAsk", v)
    IN  /\ a \in dumped /\ truth[a].bids # {} /\ truth[a].asks # {}
        /\ Stamp(n) /\ Publish(n, "book")
        /\ ApplyBestBidAsk(n, Max(truth[a].bids), Min(truth[a].asks))
        /\ UNCHANGED <<truth, dumped>>

TickSizeChangeEvent(a, tick, v) ==
    LET n == Notice(AssetRef(a), "TickSizeChange", v)
    IN  /\ Stamp(n) /\ Publish(n, "other")
        /\ ApplyTickSizeChange(n, tick)
        /\ UNCHANGED <<truth, dumped>>

\* last_trade_price, and the facts of the external feed.
ReferenceEvent(ref, kind, v) ==
    LET n == Notice(ref, kind, v)
    IN  /\ Stamp(n) /\ Publish(n, "other")
        /\ ApplyReference(n, CASE kind = "TradeTick" -> "trade"
                               [] kind = "ReferencePrice" -> "price"
                               [] OTHER -> "status")
        /\ UNCHANGED <<truth, dumped>>

\* A reconnection's version is its sequence number, not a time.
ReconnectEvent(src) ==
    LET n == Notice(SourceRef(src), "Reconnect", clock[src] + 1)
    IN  /\ clock' = [clock EXCEPT ![src] = @ + 1]
        /\ Publish(n, IF src = "pm" THEN "book" ELSE "other")
        /\ ApplyReconnect(n)
        /\ dumped' = IF src = "pm" THEN {} ELSE dumped
        /\ UNCHANGED truth

\* The market's description arrives: no notice.
Register(tick) ==
    /\ Count("other")
    /\ RegisterMarket(tick)
    /\ UNCHANGED <<truth, dumped, clock, notices, loop>>

-----------------------------------------------------------------------------
Init ==
    /\ HotInit
    /\ truth = [a \in Assets |-> [bids |-> {Min(BidPrices)}, asks |-> {Max(AskPrices)}]]
    /\ dumped = {} /\ clock = [now |-> 0, pm |-> 0, ext |-> 0] /\ updates = [book |-> 0, other |-> 0]
    /\ notices = <<>>
    /\ runtime \in [kind : Runtimes, mode : Modes]
    /\ phase = "recv" /\ seen = {}
    /\ shown = [s \in Subjects |-> None]

Update ==
    \/ \E a \in Assets, v \in Versions :
         \/ BookEvent(a, v)
         \/ BestBidAskEvent(a, v)
         \/ \E side \in {"Buy", "Sell"}, p \in Prices : PriceChange(a, side, p, v)
         \/ \E tick \in Ticks : TickSizeChangeEvent(a, tick, v)
         \/ ReferenceEvent(AssetRef(a), "TradeTick", v)
    \/ \E s \in Symbols, v \in Versions : ReferenceEvent(SymbolRef(s), "ReferencePrice", v)
    \/ \E v \in Versions : ReferenceEvent(SourceRef("ext"), "SourceStatus", v)
    \/ \E src \in {"pm", "ext"} : ReconnectEvent(src)
    \/ \E tick \in Ticks : Register(tick)

Next == Update \/ Handle \/ Send

Spec == Init /\ [][Next]_vars

-----------------------------------------------------------------------------
\* Properties.

\* Types, and that no channel is over its capacity.
TypeOK ==
    /\ HotTypeOK
    /\ truth \in [Assets -> [bids : SUBSET BidPrices, asks : SUBSET AskPrices]]
    /\ dumped \subseteq Assets /\ updates \in [book : 0..MaxBook, other : 0..MaxOther]
    /\ notices \in Seq([subject : Subjects, kind : BookKinds \cup ReferenceKinds, version : Nat])
    /\ Len(notices) <= NoticeCap
    /\ phase \in {"recv", "send", "ended"} /\ seen \subseteq {i.subject : i \in Inputs}

TopIs(level, side, prices) ==
    IF prices = {} THEN level = None \/ level.size = 0
                   ELSE level # None /\ level.price = Best(side, prices)

\* A book of the hot state has the exchange's best prices: after the first book
\* of a connection every update keeps them (hot_state.rs:311, :426), and a
\* reconnection leaves no book behind (:542).
TopPricesExact ==
    \A a \in Assets : books[a] # None /\ a \in dumped =>
        /\ TopIs(books[a].bid, "Buy", truth[a].bids)
        /\ TopIs(books[a].ask, "Sell", truth[a].asks)

\* A book with levels is of this connection.
OldBooksForgotten ==
    \A a \in Assets \ dumped : books[a] = None \/ (books[a].bid = None /\ books[a].ask = None)

\* While a book is on the registered tick its levels are counted in it, whether
\* the market was registered before or after the book came (hot_state.rs:112).
RegisteredTicks ==
    \A a \in Assets : books[a] # None /\ markets[a] # None /\ books[a].tick = markets[a] =>
        \A level \in {books[a].bid, books[a].ask} \ {None} :
            level.ticks = TicksFor(level.price, markets[a])

SamePrices(b, c) ==
    /\ b.version = c.version
    /\ \A side \in {"bid", "ask"} :
         /\ (b[side] = None) = (c[side] = None)
         /\ b[side] # None => /\ b[side].price = c[side].price
                              /\ b[side].size = c[side].size

\* Once it has read every notice, the strategy has been given the store's state
\* of whatever it asks for: a notice whose version was overtaken shows nothing
\* (hot_state.rs:239), but the one that overtook it does.
ViewsCatchUp ==
    notices = <<>> /\ phase # "ended" =>
        /\ \A a \in Assets :
             /\ books[a] # None
             /\ runtime.kind = "legacy" \/ \E i \in Inputs : i.subject = AssetRef(a) /\ WantsBook(i.kind)
             => shown[AssetRef(a)] # None /\ SamePrices(shown[AssetRef(a)], books[a])
        /\ \A s \in Symbols :
             /\ references[SymbolRef(s)] # None
             /\ runtime.kind = "view"
             /\ \E i \in Inputs : i.subject = SymbolRef(s) /\ WantsReference(i.kind)
             => shown[SymbolRef(s)] = references[SymbolRef(s)]

=============================================================================
