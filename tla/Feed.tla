-------------------------------- MODULE Feed --------------------------------
(***************************************************************************)
(* pm-data's live feed: WsClient connects, subscribes, reads messages and  *)
(* reconnects with back-off; a broadcast channel that drops the oldest     *)
(* carries the messages to the processor task of PolymarketFeedManager,    *)
(* which applies them to the order books and publishes a snapshot of the   *)
(* best prices of each book it changes.                                    *)
(*                                                                         *)
(* An order book is the set of its price levels: sizes, hashes and times   *)
(* are left out.  Messages without levels (trades, best prices, tick *)
(* sizes) and the reference store are left out as well, and so are         *)
(* shutdown and reconfigure_assets, which nobody can call while run, that  *)
(* borrows the manager mutably, has not returned.                          *)
(*                                                                         *)
(* A definition named X_Fault is X with a mistake the code could have made *)
(* in its place; no action uses it.                                        *)
(***************************************************************************)
EXTENDS Integers, SequencesExt, FiniteSetsExt

CONSTANTS
    Assets,      \* the assets subscribed to
    Bids, Asks,  \* the prices an order book may have a level at
    NoBook,      \* an asset without an order book
    ChannelCap,  \* ws_channel_capacity, a power of two
    BackoffBase, BackoffCap,  \* BackoffState, without the jitter
    MaxBreaks,   \* bound: connections that end and attempts that fail
    MaxMoves,    \* bound: changes of an order book at the exchange
    MaxDumps     \* bound: books the exchange sends unasked on a connection

ASSUME FeedAssumption ==
    /\ Bids \subseteq Nat \ {0} /\ Asks \subseteq Nat \ {0} /\ Bids \cap Asks = {}
    /\ \A levels \in SUBSET (Bids \cup Asks) : NoBook # levels
    /\ ChannelCap \in Nat \ {0}
    /\ BackoffBase \in Nat \ {0}
    /\ BackoffCap \in Nat /\ BackoffBase <= BackoffCap
    /\ {MaxBreaks, MaxMoves, MaxDumps} \subseteq Nat

VARIABLES
    \* the exchange
    truth,      \* truth[a]: the levels of a's order book
    dumped,     \* the assets whose book it has sent on this connection
    moves, dumps,
    \* WsClient::run
    link,       \* "connecting", "up" or "sleeping"
    firstConnect,
    backoff,    \* BackoffState.current_ms
    reconnects, \* reconnect_count
    breaks,
    \* the broadcast channel
    channel,    \* messages the processor has not received
    lagging,    \* messages were dropped since its last recv
    \* the stores
    books,      \* books[a]: the levels of a's order book, or NoBook
    shown,      \* shown[a]: the last snapshot published of a's order book
    \* history
    seen,       \* seen[a]: truth[a] when the last message applied to a was sent
    dirty       \* assets with a message dropped since their last Book applied

exchange == <<truth, dumped, moves, dumps>>
client   == <<link, firstConnect, backoff, reconnects, breaks>>
stores   == <<books, shown, seen>>
vars     == <<exchange, client, channel, lagging, stores, dirty>>

Levels == Bids \cup Asks

-----------------------------------------------------------------------------
(* Messages.  `at` is history: truth[asset] when the message was sent.      *)

Book(a, levels) == [type |-> "book", asset |-> a, levels |-> levels, at |-> levels]

\* One entry of a price_change: size 0 removes the level.
Change(a, l, present, levels) ==
    [type |-> "change", asset |-> a, level |-> l, present |-> present, at |-> levels]

Reconnected == [type |-> "reconnected"]

Concerns(m) == IF m.type = "reconnected" THEN Assets ELSE {m.asset}

\* tx.send: a full channel drops its oldest message.
Broadcast(m) ==
    IF Len(channel) < ChannelCap
    THEN /\ channel' = Append(channel, m)
         /\ UNCHANGED <<lagging, dirty>>
    ELSE /\ channel' = Append(Tail(channel), m)
         /\ lagging' = TRUE
         /\ dirty' = dirty \cup Concerns(Head(channel))

-----------------------------------------------------------------------------

\* 0 stands for None: the best price of an empty side.
BestBid(levels) == IF levels \cap Bids = {} THEN 0 ELSE Max(levels \cap Bids)
BestAsk(levels) == IF levels \cap Asks = {} THEN 0 ELSE Min(levels \cap Asks)

\* to_snapshot.
Snapshot(levels) == [bid |-> BestBid(levels), ask |-> BestAsk(levels)]

Nothing == [bid |-> 0, ask |-> 0]

Init ==
    /\ truth \in [Assets -> SUBSET Levels]
    /\ dumped = {}
    /\ moves = 0 /\ dumps = 0
    /\ link = "connecting"
    /\ firstConnect = TRUE
    /\ backoff = BackoffBase
    /\ reconnects = 0
    /\ breaks = 0
    /\ channel = <<>>
    /\ lagging = FALSE
    /\ books = [a \in Assets |-> NoBook]
    /\ shown = [a \in Assets |-> Nothing]
    /\ seen = [a \in Assets |-> {}]
    /\ dirty = {}

-----------------------------------------------------------------------------
(* The exchange.  What it sends on a connection is received in order, as    *)
(* long as the connection lasts; what was not received is lost with it.     *)

\* It sends the book of a subscribed asset, first of all after the subscription,
\* and again when it likes.  parse_and_send broadcasts it.
SendBook(a) ==
    /\ link = "up"
    /\ a \in dumped => dumps < MaxDumps
    /\ dumps' = IF a \in dumped THEN dumps + 1 ELSE dumps
    /\ dumped' = dumped \cup {a}
    /\ Broadcast(Book(a, truth[a]))
    /\ UNCHANGED <<truth, moves, client, stores>>

\* A level of a's order book comes or goes, which the exchange sends once it
\* has sent the book.
Move(a, l) ==
    /\ moves < MaxMoves
    /\ moves' = moves + 1
    /\ truth' = [truth EXCEPT ![a] = SymDiff(@, {l})]
    /\ IF link = "up" /\ a \in dumped
       THEN Broadcast(Change(a, l, l \in truth'[a], truth'[a]))
       ELSE UNCHANGED <<channel, lagging, dirty>>
    /\ UNCHANGED <<dumped, dumps, client, stores>>

-----------------------------------------------------------------------------
(* WsClient::run.                                                           *)

\* connect_async succeeds and every desired asset is subscribed.
Connect ==
    /\ link = "connecting"
    /\ link' = "up"
    /\ dumped' = {}
    /\ UNCHANGED <<truth, moves, dumps, firstConnect, backoff, reconnects, breaks,
                   channel, lagging, stores, dirty>>

\* connect_and_run returns Ok for a connection closed by the exchange, Err for
\* one that broke or never was; only Ok resets the back-off.
BackoffAfter(clean) == IF clean THEN BackoffBase ELSE backoff

Returns(clean) ==
    /\ link = "up" \/ (link = "connecting" /\ ~clean)
    /\ breaks < MaxBreaks
    /\ breaks' = breaks + 1

\* The first time, run connects again at once.
FirstReturn(clean) ==
    /\ Returns(clean) /\ firstConnect
    /\ firstConnect' = FALSE
    /\ link' = "connecting"
    /\ backoff' = BackoffAfter(clean)
    /\ UNCHANGED <<exchange, reconnects, channel, lagging, stores, dirty>>

\* BackoffState::next_delay doubles the next delay up to the cap.
NextDelay(b) == Min({2 * b, BackoffCap})

\* Fault: no event is sent.
LaterReturn_Silent(clean) ==
    /\ Returns(clean) /\ ~firstConnect
    /\ reconnects' = reconnects + 1
    /\ backoff' = NextDelay(BackoffAfter(clean))
    /\ link' = "sleeping"
    /\ UNCHANGED <<exchange, firstConnect, channel, lagging, stores, dirty>>

\* Every other time it counts, announces the reconnection, and sleeps.
LaterReturn(clean) ==
    /\ Returns(clean) /\ ~firstConnect
    /\ reconnects' = reconnects + 1
    /\ Broadcast(Reconnected)
    /\ backoff' = NextDelay(BackoffAfter(clean))
    /\ link' = "sleeping"
    /\ UNCHANGED <<exchange, firstConnect, stores>>

Wake ==
    /\ link = "sleeping"
    /\ link' = "connecting"
    /\ UNCHANGED <<exchange, firstConnect, backoff, reconnects, breaks,
                   channel, lagging, stores, dirty>>

-----------------------------------------------------------------------------
(* The processor task.                                                      *)

\* Fault: the levels of a snapshot are added to those there are.
ApplySnapshot_Merge(m) ==
    IF books[m.asset] = NoBook THEN m.levels ELSE books[m.asset] \cup m.levels

\* apply_book_update: the levels are replaced.
ApplySnapshot(m) == m.levels

\* The book a change is applied to: an asset without one gets an empty one.
BookFor(a) == IF books[a] = NoBook THEN {} ELSE books[a]

\* upsert of a level, which its size of 0 removes.
ApplyDelta(m) ==
    IF m.present THEN BookFor(m.asset) \cup {m.level} ELSE BookFor(m.asset) \ {m.level}

ClearAll == [a \in Assets |-> NoBook]

\* Fault: the snapshot is taken before the update is applied.
SnapshotFromUpdate_Early(a, book) ==
    shown' = [shown EXCEPT ![a] = IF books[a] = NoBook THEN Nothing ELSE Snapshot(books[a])]

\* snapshot_from_update: a book that changed is published.
SnapshotFromUpdate(a, book) == shown' = [shown EXCEPT ![a] = Snapshot(book)]

Apply(m, book) ==
    /\ books' = [books EXCEPT ![m.asset] = book]
    /\ SnapshotFromUpdate(m.asset, book)
    /\ seen' = [seen EXCEPT ![m.asset] = m.at]

\* process_adapter_message, for the message at the head of the channel.
Process ==
    /\ ~lagging /\ channel # <<>>
    /\ channel' = Tail(channel)
    /\ LET m == Head(channel) IN
       CASE m.type = "book" ->
              /\ Apply(m, ApplySnapshot(m))
              /\ dirty' = dirty \ {m.asset}
         [] m.type = "change" ->
              /\ Apply(m, ApplyDelta(m))
              /\ UNCHANGED dirty
         [] m.type = "reconnected" ->
              /\ books' = ClearAll
              /\ UNCHANGED <<shown, seen, dirty>>
    /\ UNCHANGED <<exchange, client, lagging>>

\* recv returns Lagged, which is ignored: the next recv gets the oldest message
\* there is.
Lagged ==
    /\ lagging
    /\ lagging' = FALSE
    /\ UNCHANGED <<exchange, client, channel, stores, dirty>>

-----------------------------------------------------------------------------

Return == \E clean \in BOOLEAN : FirstReturn(clean) \/ LaterReturn(clean)

Next ==
    \/ \E a \in Assets : SendBook(a)
    \/ \E a \in Assets, l \in Levels : Move(a, l)
    \/ Connect \/ Return \/ Wake
    \/ Process \/ Lagged

Spec == Init /\ [][Next]_vars

\* Attempts to connect end (the bound on failures makes one succeed), the
\* client's sleep ends, the exchange sends the book of every subscribed asset,
\* and the processor runs.
FairSpec ==
    /\ Spec
    /\ WF_vars(Connect) /\ WF_vars(Wake)
    /\ \A a \in Assets : WF_vars(a \notin dumped /\ SendBook(a))
    /\ WF_vars(Process) /\ WF_vars(Lagged)

-----------------------------------------------------------------------------

Messages ==
    [type : {"book"}, asset : Assets, levels : SUBSET Levels, at : SUBSET Levels]
    \cup [type : {"change"}, asset : Assets, level : Levels, present : BOOLEAN,
          at : SUBSET Levels]
    \cup {Reconnected}

TypeOK ==
    /\ truth \in [Assets -> SUBSET Levels]
    /\ dumped \subseteq Assets
    /\ moves \in 0..MaxMoves /\ dumps \in 0..MaxDumps
    /\ link \in {"connecting", "up", "sleeping"}
    /\ firstConnect \in BOOLEAN
    /\ backoff \in BackoffBase..BackoffCap
    /\ reconnects \in 0..MaxBreaks /\ breaks \in 0..MaxBreaks
    /\ channel \in Seq(Messages) /\ Len(channel) <= ChannelCap
    /\ lagging \in BOOLEAN
    /\ books \in [Assets -> (SUBSET Levels) \cup {NoBook}]
    /\ shown \in [Assets -> [bid : Bids \cup {0}, ask : Asks \cup {0}]]
    /\ seen \in [Assets -> SUBSET Levels]
    /\ dirty \subseteq Assets

\* Whatever reaches the processor across reconnections, a book is a state the
\* order book at the exchange was in, except from a lag to the next snapshot of
\* its asset.
BooksExact ==
    \A a \in Assets \ dirty : books[a] \in {NoBook, seen[a]}

\* After the first announced reconnection, once the channel is drained, only
\* assets whose book came on this connection have one.
OldBooksGo ==
    reconnects > 0 /\ link = "up" /\ channel = <<>> =>
        \A a \in Assets \ dirty : books[a] # NoBook => a \in dumped

\* When connections stop breaking the books become, and stay, those of the
\* exchange, and the snapshots the strategies were last given their best prices,
\* but for assets hit by a lag.
BooksConverge ==
    <>[](\A a \in Assets \ dirty : books[a] = truth[a] /\ shown[a] = Snapshot(truth[a]))

\* The book is cleared on every reconnect.  Refuted: the first is not announced.
ClearedOnReconnect ==
    link = "up" /\ channel = <<>> =>
        \A a \in Assets \ dirty : books[a] # NoBook => a \in dumped

=============================================================================
