------------------------ MODULE NoticeRuntime_proofs ------------------------
(***************************************************************************)
(* Theorems about the hot state under NoticeRuntime and what the strategy  *)
(* is shown of it, for any assets, symbols, prices, ticks, requirements,   *)
(* number of events and order of notices.                                  *)
(***************************************************************************)
EXTENDS NoticeRuntime, FiniteSetTheorems, WellFoundedInduction, TLAPS

\* What the store and the exchange are made of.
StoreTypeOK ==
    /\ HotTypeOK
    /\ truth \in [Assets -> [bids : SUBSET BidPrices, asks : SUBSET AskPrices]]
    /\ dumped \subseteq Assets

\* The exchange does not cross its own book, and a book it has sent on this
\* connection is in the store.
ExchangeInv ==
    /\ \A a \in Assets : \A b \in truth[a].bids, k \in truth[a].asks : b < k
    /\ \A a \in dumped : books[a] # None

IInv ==
    /\ StoreTypeOK /\ ExchangeInv
    /\ TopPricesExact /\ OldBooksForgotten /\ RegisteredTicks

-----------------------------------------------------------------------------
\* Prices.

\* A finite set of numbers has a greatest and a least element.
LEMMA MaxMin ==
    ASSUME NEW S, S \subseteq Nat, IsFiniteSet(S), S # {}
    PROVE  /\ Max(S) \in S /\ \A y \in S : Max(S) >= y
           /\ Min(S) \in S /\ \A y \in S : Min(S) <= y
<1> DEFINE NoMax == {T \in SUBSET S : T # {} /\ \A x \in T : \E y \in T : ~(x >= y)}
           NoMin == {T \in SUBSET S : T # {} /\ \A x \in T : \E y \in T : ~(x <= y)}
           R == StrictSubsetOrdering(S)
<1>1. IsWellFoundedOn(R, SUBSET S)
  BY FS_StrictSubsetOrderingWellFounded, FS_FiniteSubsetsOfFinite
<1>2. NoMax = {}
  <2>1. SUFFICES ASSUME NoMax # {} PROVE FALSE
    OBVIOUS
  <2>2. PICK T \in NoMax : \A U \in NoMax : ~(<<U, T>> \in R)
    <3> HIDE DEF R, NoMax
    <3>1. NoMax \subseteq SUBSET S
      BY DEF NoMax
    <3> QED BY <1>1, <2>1, <3>1, WFMin
  <2>3. PICK x \in T : TRUE
    OBVIOUS
  <2>4. PICK y \in T : ~(x >= y)
    OBVIOUS
  <2> DEFINE U == T \ {x}
  <2>5. U \in SUBSET S /\ U # {}
    BY <2>4
  <2>6. <<U, T>> \in R
    BY <2>3, <2>5 DEF StrictSubsetOrdering
  <2>7. PICK m \in U : \A z \in U : m >= z
    BY <2>2, <2>5, <2>6
  <2>8. m >= x
    BY <2>4, <2>7
  <2> QED BY <2>7, <2>8
<1>3. NoMin = {}
  <2>1. SUFFICES ASSUME NoMin # {} PROVE FALSE
    OBVIOUS
  <2>2. PICK T \in NoMin : \A U \in NoMin : ~(<<U, T>> \in R)
    <3> HIDE DEF R, NoMin
    <3>1. NoMin \subseteq SUBSET S
      BY DEF NoMin
    <3> QED BY <1>1, <2>1, <3>1, WFMin
  <2>3. PICK x \in T : TRUE
    OBVIOUS
  <2>4. PICK y \in T : ~(x <= y)
    OBVIOUS
  <2> DEFINE U == T \ {x}
  <2>5. U \in SUBSET S /\ U # {}
    BY <2>4
  <2>6. <<U, T>> \in R
    BY <2>3, <2>5 DEF StrictSubsetOrdering
  <2>7. PICK m \in U : \A z \in U : m <= z
    BY <2>2, <2>5, <2>6
  <2>8. m <= x
    BY <2>4, <2>7
  <2> QED BY <2>7, <2>8
<1>4. \E x \in S : \A y \in S : x >= y
  BY <1>2
<1>5. \E x \in S : \A y \in S : x <= y
  BY <1>3
<1> QED BY <1>4, <1>5 DEF Max, Min

\* The best price of a side is one of its prices; the only one, if there is one.
LEMMA BestPrice ==
    ASSUME NEW side \in {"Buy", "Sell"}, NEW prices \in SUBSET Prices, prices # {}
    PROVE  /\ Best(side, prices) \in prices
           /\ \A p \in prices : prices = {p} => Best(side, prices) = p
<1>1. prices \subseteq Nat /\ IsFiniteSet(prices)
  BY HotStateAssumption, FS_Subset
<1> QED BY <1>1, MaxMin DEF Best

-----------------------------------------------------------------------------
\* Levels and states.

\* Two levels are alike for TopPricesExact.
Alike(l, k) == /\ l = None <=> k = None
               /\ l # None => l.price = k.price /\ l.size = k.size

\* The ticks of a price are a number or none.
LEMMA TicksType ==
    ASSUME NEW units \in Nat, NEW step \in TickType
    PROVE  TicksFor(units, step) \in TickType
BY HotStateAssumption DEF TicksFor, TickType

\* A level made of a price and a size is a level, and there is one.
LEMMA MakeLevelType ==
    ASSUME HotTypeOK, NEW a \in Assets, NEW price \in Prices, NEW size \in Nat
    PROVE  /\ MakeLevel(a, price, size) \in LevelType
           /\ MakeLevel(a, price, size) # None
<1>1. markets[a] \in TickType /\ price \in Nat
  BY HotStateAssumption DEF HotTypeOK
<1>2. TicksFor(price, markets[a]) \in TickType
  BY <1>1, TicksType
<1> QED BY <1>2, HotStateAssumption DEF MakeLevel, LevelType

\* A level counted anew keeps its price and size, and has the ticks of its price.
LEMMA RefreshedType ==
    ASSUME NEW level \in LevelType \cup {None}, NEW tick \in TickType
    PROVE  /\ Refreshed(level, tick) \in LevelType \cup {None}
           /\ Alike(Refreshed(level, tick), level)
           /\ level # None => Refreshed(level, tick).ticks = TicksFor(level.price, tick)
<1>1. CASE level = None
  BY <1>1 DEF Refreshed, Alike
<1>2. CASE level # None
  <2>1. level \in LevelType /\ level.price \in Nat
    BY <1>2, HotStateAssumption DEF LevelType
  <2>2. TicksFor(level.price, tick) \in TickType
    BY <2>1, TicksType
  <2>3. /\ Refreshed(level, tick) = [level EXCEPT !.ticks = TicksFor(level.price, tick)]
        /\ Refreshed(level, tick) \in LevelType
    BY <1>2, <2>1, <2>2 DEF Refreshed, LevelType
  <2>4. Refreshed(level, tick) # None
    BY <2>3, HotStateAssumption
  <2>5. /\ Refreshed(level, tick).price = level.price
        /\ Refreshed(level, tick).size = level.size
        /\ Refreshed(level, tick).ticks = TicksFor(level.price, tick)
    BY <2>1, <2>3 DEF LevelType
  <2> QED BY <1>2, <2>3, <2>4, <2>5 DEF Alike
<1> QED BY <1>1, <1>2

\* A level counted in a tick.
Counted(level, tick) == level # None => level.ticks = TicksFor(level.price, tick)

\* apply_registered_market keeps the prices and counts both levels in the tick.
LEMMA WithTickType ==
    ASSUME NEW book \in BookType, NEW tick \in TickType
    PROVE  /\ WithTick(book, tick) \in BookType
           /\ Alike(WithTick(book, tick).bid, book.bid)
           /\ Alike(WithTick(book, tick).ask, book.ask)
           /\ Counted(WithTick(book, tick).bid, tick)
           /\ Counted(WithTick(book, tick).ask, tick)
           /\ WithTick(book, tick).tick = tick
<1>1. book.bid \in LevelType \cup {None} /\ book.ask \in LevelType \cup {None}
  BY DEF BookType
<1>2. /\ WithTick(book, tick).bid = Refreshed(book.bid, tick)
      /\ WithTick(book, tick).ask = Refreshed(book.ask, tick)
      /\ WithTick(book, tick).tick = tick
  BY DEF WithTick, BookType
<1>3. /\ Refreshed(book.bid, tick) \in LevelType \cup {None}
      /\ Refreshed(book.ask, tick) \in LevelType \cup {None}
  BY <1>1, RefreshedType
<1>4. WithTick(book, tick) \in BookType
  BY <1>3 DEF WithTick, BookType
<1>5. /\ Alike(Refreshed(book.bid, tick), book.bid)
      /\ Alike(Refreshed(book.ask, tick), book.ask)
  BY <1>1, RefreshedType
<1>6. /\ Counted(Refreshed(book.bid, tick), tick)
      /\ Counted(Refreshed(book.ask, tick), tick)
  BY <1>1, RefreshedType DEF Counted, Alike
<1> QED BY <1>2, <1>4, <1>5, <1>6

\* The state an update starts from has the levels there are, counted as they are.
LEMMA StartType ==
    ASSUME HotTypeOK, NEW a \in Assets
    PROVE  /\ Start(a) \in BookType
           /\ books[a] # None => Start(a) = books[a]
           /\ books[a] = None => Start(a).bid = None /\ Start(a).ask = None
BY DEF Start, HotTypeOK, BookType

-----------------------------------------------------------------------------
\* What of the store an update leaves, for one asset.

\* A state for asset a, with the properties of the invariant but for the
\* comparison with the exchange.
GoodBook(a, book) ==
    /\ book \in BookType
    /\ markets[a] # None /\ book.tick = markets[a] =>
           Counted(book.bid, markets[a]) /\ Counted(book.ask, markets[a])

\* A good state that is stored is good with the version it gets, and the only one that changes.
LEMMA PutGood ==
    ASSUME HotTypeOK, NEW n, n.subject.id \in Assets, n.version \in Nat,
           NEW book, GoodBook(n.subject.id, book), Put(n, book)
    PROVE  /\ books' \in [Assets -> BookType \cup {None}]
           /\ \A x \in Assets \ {n.subject.id} : books'[x] = books[x]
           /\ GoodBook(n.subject.id, books'[n.subject.id])
           /\ books'[n.subject.id] # None
           /\ books'[n.subject.id].bid = book.bid
           /\ books'[n.subject.id].ask = book.ask
<1> DEFINE a == n.subject.id
           new == [book EXCEPT !.version = n.version]
<1>1. new \in BookType /\ new.bid = book.bid /\ new.ask = book.ask /\ new.tick = book.tick
  BY DEF GoodBook, BookType
<1>2. books' = [books EXCEPT ![a] = new]
  BY DEF Put
<1>3. books'[a] = new /\ \A x \in Assets \ {a} : books'[x] = books[x]
  BY <1>2 DEF HotTypeOK
<1>4. books' \in [Assets -> BookType \cup {None}]
  BY <1>1, <1>2 DEF HotTypeOK
<1>5. new # None
  BY <1>1, HotStateAssumption
<1>6. GoodBook(a, new)
  BY <1>1 DEF GoodBook
<1> QED BY <1>1, <1>3, <1>4, <1>5, <1>6

\* apply_registered_market of a registered asset makes any state good.
LEMMA RegisteredGood ==
    ASSUME HotTypeOK, NEW a \in Assets, NEW book \in BookType
    PROVE  /\ GoodBook(a, Registered(a, book))
           /\ Alike(Registered(a, book).bid, book.bid)
           /\ Alike(Registered(a, book).ask, book.ask)
<1>1. CASE markets[a] = None
  BY <1>1 DEF Registered, GoodBook, Alike
<1>2. CASE markets[a] # None
  <2>1. markets[a] \in TickType
    BY DEF HotTypeOK
  <2> QED BY <1>2, <2>1, WithTickType DEF Registered, GoodBook
<1> QED BY <1>1, <1>2

\* What an update of asset a leaves: its levels are alike to bid and ask, and all
\* else is as it was.
Updated(a, bid, ask) ==
    /\ UNCHANGED markets
    /\ books' \in [Assets -> BookType \cup {None}]
    /\ \A x \in Assets \ {a} : books'[x] = books[x]
    /\ GoodBook(a, books'[a]) /\ books'[a] # None
    /\ Alike(books'[a].bid, bid) /\ Alike(books'[a].ask, ask)

\* A notice of an asset's book.
BookNotice(n, a) == n.subject.id = a /\ n.version \in Nat

\* A snapshot leaves the levels it brings.
LEMMA ReplaceUpdates ==
    ASSUME HotTypeOK, NEW a \in Assets, NEW n, BookNotice(n, a),
           NEW bid \in LevelType \cup {None}, NEW ask \in LevelType \cup {None},
           Replace(n, bid, ask)
    PROVE  Updated(a, bid, ask)
<1> DEFINE book == [bid |-> bid, ask |-> ask, tick |-> markets[a], version |-> n.version]
<1>1. book \in BookType
  BY DEF HotTypeOK, BookType, BookNotice
<1>2. Put(n, Registered(a, book)) /\ UNCHANGED markets
  BY DEF Replace, BookNotice
<1>3. /\ GoodBook(a, Registered(a, book))
      /\ Alike(Registered(a, book).bid, bid) /\ Alike(Registered(a, book).ask, ask)
  BY <1>1, RegisteredGood
<1> HIDE DEF book
<1> QED BY <1>2, <1>3, PutGood DEF Updated, BookNotice

\* A best_bid_ask leaves its two prices as levels.
LEMMA BestBidAskUpdates ==
    ASSUME HotTypeOK, NEW a \in Assets, NEW n, BookNotice(n, a),
           NEW bid \in Prices, NEW ask \in Prices, ApplyBestBidAsk(n, bid, ask)
    PROVE  Updated(a, MakeLevel(a, bid, 0), MakeLevel(a, ask, 0))
<1> DEFINE book == [Start(a) EXCEPT !.bid = MakeLevel(a, bid, 0), !.ask = MakeLevel(a, ask, 0)]
<1>1. MakeLevel(a, bid, 0) \in LevelType /\ MakeLevel(a, ask, 0) \in LevelType
  BY MakeLevelType
<1>2. /\ book \in BookType
      /\ book.bid = MakeLevel(a, bid, 0) /\ book.ask = MakeLevel(a, ask, 0)
  BY <1>1, StartType DEF BookType
<1>3. Put(n, Registered(a, book)) /\ UNCHANGED markets
  BY DEF ApplyBestBidAsk, BookNotice
<1> HIDE DEF book
<1>4. /\ GoodBook(a, Registered(a, book))
      /\ Alike(Registered(a, book).bid, book.bid) /\ Alike(Registered(a, book).ask, book.ask)
  BY <1>2, RegisteredGood
<1> QED BY <1>2, <1>3, <1>4, PutGood DEF Updated, BookNotice

\* A tick_size_change leaves the levels there are.
LEMMA TickSizeUpdates ==
    ASSUME HotTypeOK, NEW a \in Assets, NEW n, BookNotice(n, a), NEW tick \in Nat,
           ApplyTickSizeChange(n, tick)
    PROVE  Updated(a, Start(a).bid, Start(a).ask)
<1>1. Start(a) \in BookType /\ tick \in TickType
  BY StartType DEF TickType
<1>2. Put(n, WithTick(Start(a), tick)) /\ UNCHANGED markets
  BY DEF ApplyTickSizeChange, BookNotice
<1>3. /\ WithTick(Start(a), tick) \in BookType
      /\ Alike(WithTick(Start(a), tick).bid, Start(a).bid)
      /\ Alike(WithTick(Start(a), tick).ask, Start(a).ask)
      /\ GoodBook(a, WithTick(Start(a), tick))
  BY <1>1, WithTickType DEF GoodBook
<1> QED BY <1>2, <1>3, PutGood DEF Updated, BookNotice

\* The level of a delta: of its type, counted if the old one was, at the best
\* price the delta names, or the delta's own if it names none and is no worse.
LEMMA DeltaLevelType ==
    ASSUME HotTypeOK, NEW a \in Assets, NEW side, NEW current \in LevelType \cup {None},
           NEW price \in Prices, NEW size \in Nat, NEW best \in Prices \cup {None}
    PROVE  LET new == DeltaLevel(a, side, current, price, size, best)
           IN  /\ new \in LevelType \cup {None}
               /\ Counted(current, markets[a]) => Counted(new, markets[a])
               /\ best # None => new # None /\ new.price = best
               /\ best = None /\ Improves(side, MakeLevel(a, price, size), current) =>
                      new = MakeLevel(a, price, size)
<1> DEFINE new == DeltaLevel(a, side, current, price, size, best)
           old == IF current = None THEN 0 ELSE current.size
<1>1. old \in Nat
  BY DEF LevelType
<1>2. \A p \in Prices, s \in Nat :
        /\ MakeLevel(a, p, s) \in LevelType /\ MakeLevel(a, p, s) # None
        /\ MakeLevel(a, p, s).price = p
        /\ Counted(MakeLevel(a, p, s), markets[a])
  BY MakeLevelType DEF MakeLevel, Counted
<1>3. CASE best = None
  BY <1>2, <1>3 DEF DeltaLevel
<1>4. CASE best # None /\ best = price
  BY <1>2, <1>4 DEF DeltaLevel
<1>5. CASE best # None /\ best # price
  <2>1. new = MakeLevel(a, best, old) /\ best \in Prices
    BY <1>5 DEF DeltaLevel
  <2> QED BY <1>1, <1>2, <1>5, <2>1
<1> QED BY <1>3, <1>4, <1>5

\* A delta of a book there is leaves its new level on its own side, and the other side as it was.
LEMMA DeltaUpdates ==
    ASSUME HotTypeOK, NEW a \in Assets, NEW n, BookNotice(n, a), NEW side \in {"Buy", "Sell"},
           books[a] # None, GoodBook(a, books[a]),
           NEW price \in Prices, NEW size \in Nat,
           NEW bestBid \in Prices \cup {None}, NEW bestAsk \in Prices \cup {None},
           ApplyBookDelta(n, side, price, size, bestBid, bestAsk)
    PROVE  IF side = "Buy"
           THEN Updated(a, DeltaLevel(a, side, books[a].bid, price, size, bestBid), books[a].ask)
           ELSE Updated(a, books[a].bid, DeltaLevel(a, side, books[a].ask, price, size, bestAsk))
<1> DEFINE bid == DeltaLevel(a, side, books[a].bid, price, size, bestBid)
           ask == DeltaLevel(a, side, books[a].ask, price, size, bestAsk)
           book == IF side = "Buy" THEN [books[a] EXCEPT !.bid = bid]
                                   ELSE [books[a] EXCEPT !.ask = ask]
<1>1. Start(a) = books[a] /\ books[a] \in BookType
  BY DEF Start, GoodBook
<1>2. Put(n, book) /\ UNCHANGED markets
  BY <1>1 DEF ApplyBookDelta, BookNotice
<1>3. books[a].bid \in LevelType \cup {None} /\ books[a].ask \in LevelType \cup {None}
  BY <1>1 DEF BookType
<1>4. /\ bid \in LevelType \cup {None}
      /\ Counted(books[a].bid, markets[a]) => Counted(bid, markets[a])
  BY <1>3, DeltaLevelType
<1>5. /\ ask \in LevelType \cup {None}
      /\ Counted(books[a].ask, markets[a]) => Counted(ask, markets[a])
  BY <1>3, DeltaLevelType
<1> HIDE DEF bid, ask
<1>6. CASE side = "Buy"
  <2>1. book \in BookType /\ book.bid = bid /\ book.ask = books[a].ask /\ book.tick = books[a].tick
    BY <1>1, <1>4, <1>6 DEF BookType
  <2>2. GoodBook(a, book)
    BY <1>4, <2>1 DEF GoodBook
  <2> HIDE DEF book
  <2> QED BY <1>2, <1>6, <2>1, <2>2, PutGood DEF Updated, BookNotice, Alike, bid
<1>7. CASE side = "Sell"
  <2>1. book \in BookType /\ book.ask = ask /\ book.bid = books[a].bid /\ book.tick = books[a].tick
    BY <1>1, <1>5, <1>7 DEF BookType
  <2>2. GoodBook(a, book)
    BY <1>5, <2>1 DEF GoodBook
  <2> HIDE DEF book
  <2> QED BY <1>2, <1>7, <2>1, <2>2, PutGood DEF Updated, BookNotice, Alike, ask
<1> QED BY <1>6, <1>7

-----------------------------------------------------------------------------
\* The invariant.

\* Alike levels are the top of a side together.
LEMMA TopAlike ==
    ASSUME NEW l, NEW k, Alike(l, k), NEW side, NEW prices, TopIs(k, side, prices)
    PROVE  TopIs(l, side, prices)
BY DEF Alike, TopIs

\* An update whose levels are the exchange's best keeps the invariant.
LEMMA UpdatedInv ==
    ASSUME IInv, NEW a \in Assets, NEW bid, NEW ask, Updated(a, bid, ask),
           truth' \in [Assets -> [bids : SUBSET BidPrices, asks : SUBSET AskPrices]],
           \A x \in Assets \ {a} : truth'[x] = truth[x],
           \A b \in truth'[a].bids, k \in truth'[a].asks : b < k,
           dumped' \in SUBSET Assets, dumped \subseteq dumped', dumped' \subseteq dumped \cup {a},
           a \in dumped' => TopIs(bid, "Buy", truth'[a].bids) /\ TopIs(ask, "Sell", truth'[a].asks),
           a \notin dumped' => bid = None /\ ask = None
    PROVE  IInv'
<1>1. StoreTypeOK'
  BY DEF IInv, StoreTypeOK, HotTypeOK, Updated
<1>2. ExchangeInv'
  BY DEF IInv, ExchangeInv, Updated
<1>3. TopPricesExact'
  <2>1. SUFFICES ASSUME NEW x \in Assets, x \in dumped', books'[x] # None
                 PROVE  /\ TopIs(books'[x].bid, "Buy", truth'[x].bids)
                        /\ TopIs(books'[x].ask, "Sell", truth'[x].asks)
    BY DEF TopPricesExact, TopIs, Best
  <2>2. CASE x = a
    BY <2>1, <2>2, TopAlike DEF Updated
  <2>3. CASE x # a
    BY <2>1, <2>3 DEF IInv, TopPricesExact, Updated
  <2> QED BY <2>2, <2>3
<1>4. OldBooksForgotten'
  BY DEF IInv, OldBooksForgotten, Updated, Alike
<1>5. RegisteredTicks'
  <2>1. SUFFICES ASSUME NEW x \in Assets, books'[x] # None, markets[x] # None,
                        books'[x].tick = markets[x]
                 PROVE  Counted(books'[x].bid, markets[x]) /\ Counted(books'[x].ask, markets[x])
    BY DEF RegisteredTicks, Counted, TicksFor, Updated
  <2>2. CASE x = a
    BY <2>1, <2>2 DEF Updated, GoodBook
  <2>3. CASE x # a
    BY <2>1, <2>3 DEF IInv, RegisteredTicks, Updated, Counted
  <2> QED BY <2>2, <2>3
<1> QED BY <1>1, <1>2, <1>3, <1>4, <1>5 DEF IInv

\* The best level of a non-empty side, as the store gets it.
LEMMA BestIsTop ==
    ASSUME HotTypeOK, NEW a \in Assets, NEW side \in {"Buy", "Sell"}, NEW prices \in SUBSET Prices
    PROVE  LET level == BestLevel(a, side, Levels(prices))
           IN  level \in LevelType \cup {None} /\ TopIs(level, side, prices)
<1>1. CASE prices = {}
  BY <1>1 DEF BestLevel, Levels, TopIs
<1>2. CASE prices # {}
  <2> DEFINE at(p) == [price |-> p, size |-> 1]
  <2>0. /\ \A p \in prices : at(p) \in Levels(prices) /\ at(p).price = p
        /\ \A l \in Levels(prices) : l.price \in prices /\ l.size = 1
    BY DEF Levels
  <2> HIDE DEF at
  <2>1. Levels(prices) # {} /\ {l.price : l \in Levels(prices)} = prices
    BY <1>2, <2>0
  <2> DEFINE top == Best(side, prices)
             size == (CHOOSE l \in Levels(prices) : l.price = top).size
  <2>2. top \in prices /\ top \in Prices
    BY <1>2, BestPrice
  <2>3. \E l \in Levels(prices) : l.price = top
    BY <2>0, <2>2
  <2>4. size = 1
    BY <2>0, <2>3
  <2>5. BestLevel(a, side, Levels(prices)) = MakeLevel(a, top, size)
    BY <1>2, <2>1 DEF BestLevel, Best
  <2> HIDE DEF top, size
  <2>6. MakeLevel(a, top, size) \in LevelType /\ MakeLevel(a, top, size) # None
    BY <2>2, <2>4, MakeLevelType
  <2>7. MakeLevel(a, top, size).price = top
    BY DEF MakeLevel
  <2> QED BY <1>2, <2>5, <2>6, <2>7 DEF TopIs, top
<1> QED BY <1>1, <1>2

\* apply_resolution of the best levels of a book.
LEMMA ResolveUpdates ==
    ASSUME HotTypeOK, NEW a \in Assets, NEW n, BookNotice(n, a),
           NEW book \in [bids : SUBSET BidPrices, asks : SUBSET AskPrices], Resolve(n, book)
    PROVE  \E bid, ask : /\ Updated(a, bid, ask)
                        /\ TopIs(bid, "Buy", book.bids) /\ TopIs(ask, "Sell", book.asks)
<1> DEFINE level(l) == IF l = None THEN None ELSE MakeLevel(a, l.price, l.size)
<1>1. \A side \in {"Buy", "Sell"}, prices \in SUBSET Prices :
        /\ level(ResolvedLevel(side, prices)) \in LevelType \cup {None}
        /\ TopIs(level(ResolvedLevel(side, prices)), side, prices)
  <2>1. SUFFICES ASSUME NEW side \in {"Buy", "Sell"}, NEW prices \in SUBSET Prices
                 PROVE  /\ level(ResolvedLevel(side, prices)) \in LevelType \cup {None}
                        /\ TopIs(level(ResolvedLevel(side, prices)), side, prices)
    OBVIOUS
  <2>2. CASE prices = {}
    BY <2>2 DEF ResolvedLevel, TopIs
  <2>3. CASE prices # {}
    <3>1. Best(side, prices) \in Prices
      BY <2>3, BestPrice
    <3>2. ResolvedLevel(side, prices) = [price |-> Best(side, prices), size |-> 1]
      BY <2>3 DEF ResolvedLevel
    <3>3. ResolvedLevel(side, prices) # None
      BY <3>1, <3>2, HotStateAssumption
    <3>4. level(ResolvedLevel(side, prices)) = MakeLevel(a, Best(side, prices), 1)
      BY <3>2, <3>3
    <3>5. /\ MakeLevel(a, Best(side, prices), 1) \in LevelType
          /\ MakeLevel(a, Best(side, prices), 1) # None
      BY <3>1, MakeLevelType
    <3>6. MakeLevel(a, Best(side, prices), 1).price = Best(side, prices)
      BY DEF MakeLevel
    <3> QED BY <2>3, <3>4, <3>5, <3>6 DEF TopIs
  <2> QED BY <2>2, <2>3
<1> DEFINE bid == level(ResolvedLevel("Buy", book.bids))
           ask == level(ResolvedLevel("Sell", book.asks))
<1>2. Replace(n, bid, ask)
  BY DEF Resolve, ApplyTop, BookNotice
<1>3. book.bids \in SUBSET Prices /\ book.asks \in SUBSET Prices
  BY NoticeRuntimeAssumption
<1>4. /\ bid \in LevelType \cup {None} /\ ask \in LevelType \cup {None}
      /\ TopIs(bid, "Buy", book.bids) /\ TopIs(ask, "Sell", book.asks)
  BY <1>1, <1>3
<1> HIDE DEF bid, ask
<1> QED BY <1>2, <1>4, ReplaceUpdates

-----------------------------------------------------------------------------
\* The steps.

\* The store starts empty, the exchange with one bid below one ask.
LEMMA InvInit == Init => IInv
<1> SUFFICES ASSUME Init PROVE IInv
  OBVIOUS
<1>1. /\ BidPrices \subseteq Nat /\ IsFiniteSet(BidPrices)
      /\ AskPrices \subseteq Nat /\ IsFiniteSet(AskPrices)
  BY NoticeRuntimeAssumption, HotStateAssumption, FS_Subset
<1>2. Min(BidPrices) \in BidPrices /\ Max(AskPrices) \in AskPrices
  BY <1>1, NoticeRuntimeAssumption, MaxMin
<1>3. StoreTypeOK
  BY <1>2 DEF Init, HotInit, StoreTypeOK, HotTypeOK, TickType
<1>4. ExchangeInv
  BY NoticeRuntimeAssumption DEF Init, ExchangeInv
<1>5. \A a \in Assets : books[a] = None
  BY DEF Init, HotInit
<1>6. TopPricesExact /\ OldBooksForgotten /\ RegisteredTicks
  BY <1>5 DEF TopPricesExact, OldBooksForgotten, RegisteredTicks
<1> QED BY <1>3, <1>4, <1>6 DEF IInv

\* A book event: the levels are the exchange's, in either of the two ways they
\* reach the store.
LEMMA BookEventInv ==
    ASSUME IInv, NEW a \in Assets, NEW v \in Versions, BookEvent(a, v)
    PROVE  IInv'
<1> DEFINE n == Notice(AssetRef(a), "BookSnapshot", v)
<1>1. BookNotice(n, a)
  BY NoticeRuntimeAssumption DEF BookNotice, Notice, AssetRef, Versions
<1>2. HotTypeOK /\ truth[a] \in [bids : SUBSET BidPrices, asks : SUBSET AskPrices]
  BY DEF IInv, StoreTypeOK
<1>3. truth[a].bids \in SUBSET Prices /\ truth[a].asks \in SUBSET Prices
  BY <1>2, NoticeRuntimeAssumption
<1> HIDE DEF n
<1>4. \E bid, ask : /\ Updated(a, bid, ask)
                   /\ TopIs(bid, "Buy", truth[a].bids) /\ TopIs(ask, "Sell", truth[a].asks)
  <2>1. CASE ApplyBookSnapshot(n, Levels(truth[a].bids), Levels(truth[a].asks))
    <3> DEFINE bid == BestLevel(a, "Buy", Levels(truth[a].bids))
               ask == BestLevel(a, "Sell", Levels(truth[a].asks))
    <3>1. Replace(n, bid, ask)
      BY <1>1, <2>1 DEF ApplyBookSnapshot, BookNotice
    <3>2. /\ bid \in LevelType \cup {None} /\ ask \in LevelType \cup {None}
          /\ TopIs(bid, "Buy", truth[a].bids) /\ TopIs(ask, "Sell", truth[a].asks)
      BY <1>2, <1>3, BestIsTop
    <3> HIDE DEF bid, ask
    <3> QED BY <1>1, <1>2, <3>1, <3>2, ReplaceUpdates
  <2>2. CASE Resolve(n, truth[a])
    BY <1>1, <1>2, <2>2, ResolveUpdates
  <2> QED BY <2>1, <2>2 DEF BookEvent, n
<1>5. UNCHANGED truth /\ dumped' = dumped \cup {a} /\ dumped' \in SUBSET Assets
  BY DEF BookEvent, IInv, StoreTypeOK
<1>6. \A b \in truth[a].bids, k \in truth[a].asks : b < k
  BY DEF IInv, ExchangeInv
<1> QED BY <1>4, <1>5, <1>6, UpdatedInv DEF IInv, StoreTypeOK

\* The exchange's own step in a price change.
LEMMA ToggleType ==
    ASSUME NEW prices, NEW S, prices \in SUBSET S, NEW p \in S
    PROVE  Toggle(prices, p) \in SUBSET S
BY DEF Toggle

\* The new level of the side a price change is of.  When the change empties the
\* side, its price is that of the level there was, which makes way for a level of
\* size 0.
LEMMA DeltaIsTop ==
    ASSUME HotTypeOK, NEW a \in Assets, NEW side \in {"Buy", "Sell"}, NEW p \in Prices,
           NEW size \in Nat, NEW current \in LevelType \cup {None},
           NEW before \in SUBSET Prices, NEW after \in SUBSET Prices,
           after = Toggle(before, p), TopIs(current, side, before), after = {} => size = 0
    PROVE  TopIs(DeltaLevel(a, side, current, p, size, Best(side, after)), side, after)
<1> DEFINE new == DeltaLevel(a, side, current, p, size, Best(side, after))
<1>1. CASE after # {}
  <2>1. Best(side, after) \in Prices /\ Best(side, after) # None
    BY <1>1, BestPrice, HotStateAssumption
  <2>2. new # None /\ new.price = Best(side, after)
    BY <2>1, DeltaLevelType
  <2> QED BY <1>1, <2>2 DEF TopIs
<1>2. CASE after = {}
  <2>1. before = {p} /\ Best(side, after) = None
    BY <1>2 DEF Toggle, Best
  <2>2. current # None /\ current.price = p
    BY <2>1, BestPrice DEF TopIs
  <2>3. MakeLevel(a, p, size).price = p /\ MakeLevel(a, p, size).size = size
    BY DEF MakeLevel
  <2>4. Improves(side, MakeLevel(a, p, size), current)
    BY <2>2, <2>3, HotStateAssumption DEF Improves
  <2>5. new = MakeLevel(a, p, size)
    BY <2>1, <2>4, DeltaLevelType
  <2> QED BY <1>2, <2>3, <2>5 DEF TopIs
<1> QED BY <1>1, <1>2

\* A price change: of the connection's book, applied as a delta or resolved, or of
\* a book the exchange has not sent yet.
LEMMA PriceChangeInv ==
    ASSUME IInv, NEW a \in Assets, NEW side \in {"Buy", "Sell"}, NEW p \in Prices,
           NEW v \in Versions, PriceChange(a, side, p, v)
    PROVE  IInv'
<1> DEFINE n == Notice(AssetRef(a), "BookDelta", v)
           old == truth[a]
           book == IF side = "Buy" THEN [old EXCEPT !.bids = Toggle(@, p)]
                                   ELSE [old EXCEPT !.asks = Toggle(@, p)]
           size == IF p \in book.bids \cup book.asks THEN 1 ELSE 0
<1>1. BookNotice(n, a)
  BY NoticeRuntimeAssumption DEF BookNotice, Notice, AssetRef, Versions
<1>2. HotTypeOK /\ old \in [bids : SUBSET BidPrices, asks : SUBSET AskPrices]
  BY DEF IInv, StoreTypeOK
<1>3. /\ side = "Buy" => p \in BidPrices
      /\ side = "Sell" => p \in AskPrices
      /\ \A b \in book.bids, k \in book.asks : b < k
      /\ truth' = [truth EXCEPT ![a] = book]
      /\ dumped' = dumped
  BY DEF PriceChange
<1>4. /\ book \in [bids : SUBSET BidPrices, asks : SUBSET AskPrices]
      /\ side = "Buy" => book.bids = Toggle(old.bids, p) /\ book.asks = old.asks
      /\ side = "Sell" => book.asks = Toggle(old.asks, p) /\ book.bids = old.bids
  BY <1>2, <1>3, ToggleType
<1>5. /\ book.bids \in SUBSET Prices /\ book.asks \in SUBSET Prices
      /\ old.bids \in SUBSET Prices /\ old.asks \in SUBSET Prices
  BY <1>2, <1>4, NoticeRuntimeAssumption
<1>6. /\ truth' \in [Assets -> [bids : SUBSET BidPrices, asks : SUBSET AskPrices]]
      /\ truth'[a] = book
      /\ \A x \in Assets \ {a} : truth'[x] = truth[x]
  BY <1>3, <1>4 DEF IInv, StoreTypeOK
<1>7. size \in Nat
  OBVIOUS
<1>8. /\ side = "Buy" /\ book.bids = {} => size = 0
      /\ side = "Sell" /\ book.asks = {} => size = 0
  <2>1. \A b \in old.bids, k \in old.asks : b < k
    BY DEF IInv, ExchangeInv
  <2>2. p \in Nat
    BY HotStateAssumption
  <2>3. CASE side = "Buy" /\ book.bids = {}
    <3>1. old.bids = {p}
      BY <1>4, <2>3 DEF Toggle
    <3>2. p \notin old.asks
      BY <2>1, <2>2, <3>1
    <3> QED BY <1>4, <2>3, <3>2
  <2>4. CASE side = "Sell" /\ book.asks = {}
    <3>1. old.asks = {p}
      BY <1>4, <2>4 DEF Toggle
    <3>2. p \notin old.bids
      BY <2>1, <2>2, <3>1
    <3> QED BY <1>4, <2>4, <3>2
  <2> QED BY <2>3, <2>4
<1>9. CASE a \in dumped
  <2>1. /\ books[a] # None /\ books[a] \in BookType
        /\ TopIs(books[a].bid, "Buy", old.bids) /\ TopIs(books[a].ask, "Sell", old.asks)
    BY <1>9 DEF IInv, ExchangeInv, TopPricesExact, StoreTypeOK, HotTypeOK
  <2>2. GoodBook(a, books[a])
    BY <2>1 DEF IInv, RegisteredTicks, GoodBook, Counted
  <2>3. books[a].bid \in LevelType \cup {None} /\ books[a].ask \in LevelType \cup {None}
    BY <2>1 DEF BookType
  <2>4. /\ Best("Buy", book.bids) \in Prices \cup {None}
        /\ Best("Sell", book.asks) \in Prices \cup {None}
    <3>1. book.bids # {} => Best("Buy", book.bids) \in Prices
      BY <1>5, BestPrice
    <3>2. book.asks # {} => Best("Sell", book.asks) \in Prices
      BY <1>5, BestPrice
    <3>3. /\ book.bids = {} => Best("Buy", book.bids) = None
          /\ book.asks = {} => Best("Sell", book.asks) = None
      BY DEF Best
    <3> HIDE DEF book
    <3> QED BY <3>1, <3>2, <3>3
  <2> HIDE DEF book, size, n, old
  <2>5. \E bid, ask : /\ Updated(a, bid, ask)
                     /\ TopIs(bid, "Buy", book.bids) /\ TopIs(ask, "Sell", book.asks)
    <3>1. CASE ApplyBookDelta(n, side, p, size, Best("Buy", book.bids), Best("Sell", book.asks))
      <4>1. CASE side = "Buy"
        <5> DEFINE bid == DeltaLevel(a, side, books[a].bid, p, size, Best("Buy", book.bids))
        <5>1. Updated(a, bid, books[a].ask)
          BY <1>1, <1>2, <1>7, <2>1, <2>2, <2>4, <3>1, <4>1, DeltaUpdates
        <5>2. TopIs(bid, "Buy", book.bids)
          BY <1>2, <1>4, <1>5, <1>7, <1>8, <2>1, <2>3, <4>1, DeltaIsTop
        <5> QED BY <1>4, <2>1, <4>1, <5>1, <5>2
      <4>2. CASE side = "Sell"
        <5> DEFINE ask == DeltaLevel(a, side, books[a].ask, p, size, Best("Sell", book.asks))
        <5>1. Updated(a, books[a].bid, ask)
          BY <1>1, <1>2, <1>7, <2>1, <2>2, <2>4, <3>1, <4>2, DeltaUpdates
        <5>2. TopIs(ask, "Sell", book.asks)
          BY <1>2, <1>4, <1>5, <1>7, <1>8, <2>1, <2>3, <4>2, DeltaIsTop
        <5> QED BY <1>4, <2>1, <4>2, <5>1, <5>2
      <4> QED BY <4>1, <4>2
    <3>2. CASE Resolve(n, book)
      BY <1>1, <1>2, <1>4, <3>2, ResolveUpdates
    <3> QED BY <1>9, <3>1, <3>2 DEF PriceChange, book, size, n, old
  <2>6. dumped' \in SUBSET Assets /\ \A b \in truth'[a].bids, k \in truth'[a].asks : b < k
    BY <1>3, <1>6 DEF IInv, StoreTypeOK
  <2> QED BY <1>3, <1>6, <1>9, <2>5, <2>6, UpdatedInv
<1>10. CASE a \notin dumped
  <2>1. UNCHANGED <<markets, books, dumped>>
    BY <1>3, <1>10 DEF PriceChange, hotVars
  <2> HIDE DEF book
  <2>2. StoreTypeOK' /\ ExchangeInv'
    BY <1>3, <1>6, <2>1 DEF IInv, StoreTypeOK, HotTypeOK, ExchangeInv
  <2>3. TopPricesExact'
    BY <1>6, <1>10, <2>1 DEF IInv, TopPricesExact
  <2>4. OldBooksForgotten' /\ RegisteredTicks'
    BY <2>1 DEF IInv, OldBooksForgotten, RegisteredTicks, TicksFor
  <2> QED BY <2>2, <2>3, <2>4 DEF IInv
<1> QED BY <1>9, <1>10

\* A best_bid_ask: its prices are the exchange's best.
LEMMA BestBidAskInv ==
    ASSUME IInv, NEW a \in Assets, NEW v \in Versions, BestBidAskEvent(a, v)
    PROVE  IInv'
<1> DEFINE n == Notice(AssetRef(a), "BestBidAsk", v)
           bid == Max(truth[a].bids)
           ask == Min(truth[a].asks)
<1>1. BookNotice(n, a)
  BY NoticeRuntimeAssumption DEF BookNotice, Notice, AssetRef, Versions
<1>2. /\ a \in dumped /\ truth[a].bids # {} /\ truth[a].asks # {}
      /\ ApplyBestBidAsk(n, bid, ask)
      /\ UNCHANGED <<truth, dumped>>
  BY DEF BestBidAskEvent
<1>3. HotTypeOK /\ truth[a].bids \in SUBSET Prices /\ truth[a].asks \in SUBSET Prices
  BY NoticeRuntimeAssumption DEF IInv, StoreTypeOK
<1>4. bid = Best("Buy", truth[a].bids) /\ ask = Best("Sell", truth[a].asks)
  BY <1>2 DEF Best
<1>5. bid \in Prices /\ ask \in Prices
  BY <1>2, <1>3, <1>4, BestPrice
<1> HIDE DEF n, bid, ask
<1>6. Updated(a, MakeLevel(a, bid, 0), MakeLevel(a, ask, 0))
  BY <1>1, <1>2, <1>3, <1>5, BestBidAskUpdates
<1>7. /\ MakeLevel(a, bid, 0) # None /\ MakeLevel(a, bid, 0).price = bid
      /\ MakeLevel(a, ask, 0) # None /\ MakeLevel(a, ask, 0).price = ask
  BY <1>3, <1>5, MakeLevelType DEF MakeLevel
<1>8. TopIs(MakeLevel(a, bid, 0), "Buy", truth[a].bids) /\ TopIs(MakeLevel(a, ask, 0), "Sell", truth[a].asks)
  BY <1>2, <1>4, <1>7 DEF TopIs
<1>9. \A b \in truth[a].bids, k \in truth[a].asks : b < k
  BY DEF IInv, ExchangeInv
<1> QED BY <1>2, <1>6, <1>8, <1>9, UpdatedInv DEF IInv, StoreTypeOK

\* A tick_size_change: the prices stay, of a book of this connection as of an empty one.
LEMMA TickSizeInv ==
    ASSUME IInv, NEW a \in Assets, NEW tick \in Ticks, NEW v \in Versions,
           TickSizeChangeEvent(a, tick, v)
    PROVE  IInv'
<1> DEFINE n == Notice(AssetRef(a), "TickSizeChange", v)
<1>1. BookNotice(n, a) /\ tick \in Nat
  BY NoticeRuntimeAssumption DEF BookNotice, Notice, AssetRef, Versions
<1>2. ApplyTickSizeChange(n, tick) /\ UNCHANGED <<truth, dumped>>
  BY DEF TickSizeChangeEvent
<1>3. HotTypeOK
  BY DEF IInv, StoreTypeOK
<1> HIDE DEF n
<1>4. Updated(a, Start(a).bid, Start(a).ask)
  BY <1>1, <1>2, <1>3, TickSizeUpdates
<1>5. CASE a \in dumped
  <2>1. /\ Start(a) = books[a]
        /\ TopIs(books[a].bid, "Buy", truth[a].bids) /\ TopIs(books[a].ask, "Sell", truth[a].asks)
    BY <1>3, <1>5, StartType DEF IInv, ExchangeInv, TopPricesExact
  <2>2. \A b \in truth[a].bids, k \in truth[a].asks : b < k
    BY DEF IInv, ExchangeInv
  <2> QED BY <1>2, <1>4, <1>5, <2>1, <2>2, UpdatedInv DEF IInv, StoreTypeOK
<1>6. CASE a \notin dumped
  <2>1. Start(a).bid = None /\ Start(a).ask = None
    BY <1>3, <1>6, StartType DEF IInv, OldBooksForgotten
  <2>2. \A b \in truth[a].bids, k \in truth[a].asks : b < k
    BY DEF IInv, ExchangeInv
  <2> QED BY <1>2, <1>4, <1>6, <2>1, <2>2, UpdatedInv DEF IInv, StoreTypeOK
<1> QED BY <1>5, <1>6

\* A reconnection: of the exchange's source, which forgets all of its books, or of
\* the other one, which leaves them alone.
LEMMA ReconnectInv ==
    ASSUME IInv, NEW src \in {"pm", "ext"}, ReconnectEvent(src)
    PROVE  IInv'
<1>1. /\ books' = BooksWithout(src)
      /\ UNCHANGED <<markets, truth>>
      /\ dumped' = IF src = "pm" THEN {} ELSE dumped
  BY DEF ReconnectEvent, ApplyReconnect, Notice, SourceRef
<1>2. CASE src = "pm"
  <2>1. dumped' = {} /\ books' = [a \in Assets |-> None]
    BY <1>1, <1>2 DEF BooksWithout
  <2>2. StoreTypeOK' /\ ExchangeInv'
    BY <1>1, <2>1 DEF IInv, StoreTypeOK, HotTypeOK, ExchangeInv
  <2>3. TopPricesExact' /\ OldBooksForgotten' /\ RegisteredTicks'
    BY <2>1 DEF TopPricesExact, OldBooksForgotten, RegisteredTicks
  <2> QED BY <2>2, <2>3 DEF IInv
<1>3. CASE src = "ext"
  <2>1. UNCHANGED <<markets, books, truth, dumped>>
    BY <1>1, <1>3 DEF BooksWithout
  <2> QED BY <2>1 DEF IInv, StoreTypeOK, HotTypeOK, ExchangeInv, TopPricesExact,
                      OldBooksForgotten, RegisteredTicks, TicksFor
<1> QED BY <1>2, <1>3

\* The registration of the market counts the levels of every book anew.
LEMMA RegisterInv ==
    ASSUME IInv, NEW tick \in Ticks, Register(tick)
    PROVE  IInv'
<1>1. /\ markets' = [a \in Assets |-> tick]
      /\ books' = [a \in Assets |-> IF books[a] = None THEN None ELSE WithTick(books[a], tick)]
      /\ UNCHANGED <<truth, dumped>>
  BY DEF Register, RegisterMarket
<1>2. tick \in TickType
  BY NoticeRuntimeAssumption DEF TickType
<1>3. \A a \in Assets : books[a] # None =>
        /\ books'[a] = WithTick(books[a], tick)
        /\ books'[a] \in BookType /\ books'[a] # None
        /\ Alike(books'[a].bid, books[a].bid) /\ Alike(books'[a].ask, books[a].ask)
        /\ Counted(books'[a].bid, tick) /\ Counted(books'[a].ask, tick)
  <2>1. SUFFICES ASSUME NEW a \in Assets, books[a] # None
                 PROVE  /\ books'[a] = WithTick(books[a], tick)
                        /\ books'[a] \in BookType /\ books'[a] # None
                        /\ Alike(books'[a].bid, books[a].bid)
                        /\ Alike(books'[a].ask, books[a].ask)
                        /\ Counted(books'[a].bid, tick) /\ Counted(books'[a].ask, tick)
    OBVIOUS
  <2>2. books[a] \in BookType
    BY <2>1 DEF IInv, StoreTypeOK, HotTypeOK
  <2>3. books'[a] = WithTick(books[a], tick)
    BY <1>1, <2>1
  <2>4. /\ WithTick(books[a], tick) \in BookType
        /\ Alike(WithTick(books[a], tick).bid, books[a].bid)
        /\ Alike(WithTick(books[a], tick).ask, books[a].ask)
        /\ Counted(WithTick(books[a], tick).bid, tick)
        /\ Counted(WithTick(books[a], tick).ask, tick)
    BY <1>2, <2>2, WithTickType
  <2> QED BY <2>3, <2>4, HotStateAssumption
<1>4. \A a \in Assets : books[a] = None => books'[a] = None
  BY <1>1
<1>5. StoreTypeOK'
  <2>1. HotTypeOK'
    BY <1>1, <1>2, <1>3 DEF HotTypeOK
  <2> QED BY <1>1, <2>1 DEF IInv, StoreTypeOK
<1>6. ExchangeInv'
  BY <1>1, <1>3 DEF IInv, ExchangeInv, StoreTypeOK
<1>7. TopPricesExact'
  <2>1. SUFFICES ASSUME NEW a \in Assets, books'[a] # None, a \in dumped
                 PROVE  /\ TopIs(books'[a].bid, "Buy", truth[a].bids)
                        /\ TopIs(books'[a].ask, "Sell", truth[a].asks)
    BY <1>1 DEF TopPricesExact, TopIs, Best
  <2>2. /\ TopIs(books[a].bid, "Buy", truth[a].bids)
        /\ TopIs(books[a].ask, "Sell", truth[a].asks)
    BY <1>4, <2>1 DEF IInv, TopPricesExact
  <2> QED BY <1>3, <1>4, <2>1, <2>2, TopAlike
<1>8. OldBooksForgotten'
  BY <1>1, <1>3, <1>4 DEF IInv, OldBooksForgotten, Alike
<1>9. RegisteredTicks'
  BY <1>1, <1>3, <1>4 DEF RegisteredTicks, Counted, TicksFor
<1> QED BY <1>5, <1>6, <1>7, <1>8, <1>9 DEF IInv

\* Every step keeps the invariant: those of the runtime and the updates of
\* references do not touch what it speaks of.
LEMMA InvStep == IInv /\ [Next]_vars => IInv'
<1> SUFFICES ASSUME IInv, [Next]_vars PROVE IInv'
  OBVIOUS
<1>1. ASSUME UNCHANGED <<markets, books, truth, dumped>> PROVE IInv'
  BY <1>1 DEF IInv, StoreTypeOK, HotTypeOK, ExchangeInv, TopPricesExact,
              OldBooksForgotten, RegisteredTicks, TicksFor
<1>2. ASSUME NEW ref, NEW kind, NEW v, ReferenceEvent(ref, kind, v) PROVE IInv'
  BY <1>1, <1>2 DEF ReferenceEvent, ApplyReference
<1>3. CASE Update
  BY <1>2, <1>3, BookEventInv, BestBidAskInv, PriceChangeInv, TickSizeInv, ReconnectInv,
     RegisterInv DEF Update
<1>4. CASE Handle
  BY <1>1, <1>4 DEF Handle, hotVars, sources
<1>5. CASE Send
  BY <1>1, <1>5 DEF Send, hotVars, sources
<1>6. CASE UNCHANGED vars
  BY <1>1, <1>6 DEF vars, hotVars, sources
<1> QED BY <1>3, <1>4, <1>5, <1>6 DEF Next

\* The invariant holds in every behaviour.
LEMMA Inv == Spec => []IInv
BY InvInit, InvStep, PTL DEF Spec

-----------------------------------------------------------------------------
(* The views.  A state the strategy asks for has been shown, or the notice    *)
(* that will show it is on the way.                                           *)

NoticeSet == [subject : Subjects, kind : BookKinds \cup ReferenceKinds, version : Nat]

\* A notice of subject s, of one of the kinds, at the version is among those of q.
QueuedIn(q, s, kinds, version) ==
    \E i \in 1..Len(q) : q[i].subject = s /\ q[i].kind \in kinds /\ q[i].version = version

AsksBook(a) ==
    runtime.kind = "legacy" \/ \E i \in Inputs : i.subject = AssetRef(a) /\ WantsBook(i.kind)

AsksReference(s) ==
    runtime.kind = "view" /\ \E i \in Inputs : i.subject = SymbolRef(s) /\ WantsReference(i.kind)

BookAwaited(a) ==
    phase # "ended" /\ books[a] # None /\ AsksBook(a) =>
        \/ QueuedIn(notices, AssetRef(a), BookKinds, books[a].version)
        \/ shown[AssetRef(a)] # None /\ SamePrices(shown[AssetRef(a)], books[a])

ReferenceAwaited(s) ==
    phase # "ended" /\ references[SymbolRef(s)] # None /\ AsksReference(s) =>
        \/ QueuedIn(notices, SymbolRef(s), ReferenceKinds, references[SymbolRef(s)].version)
        \/ shown[SymbolRef(s)] = references[SymbolRef(s)]

\* What the references, the queue and the clock are.
ReferenceTypes ==
    /\ DOMAIN references = Subjects
    /\ \A s \in Subjects : references[s] # None => "version" \in DOMAIN references[s]

QueueTypes ==
    /\ ReferenceTypes
    /\ notices \in Seq(NoticeSet)
    /\ clock \in [now : Nat, pm : Nat, ext : Nat]

AwaitedInv ==
    /\ IInv /\ QueueTypes
    /\ \A a \in Assets : BookAwaited(a)
    /\ \A s \in Symbols : ReferenceAwaited(s)

\* The subjects are told apart.
LEMMA SubjectsDiffer ==
    ASSUME NEW a, NEW b, NEW src
    PROVE  /\ AssetRef(a) = AssetRef(b) => a = b
           /\ SymbolRef(a) = SymbolRef(b) => a = b
           /\ AssetRef(a) # SymbolRef(b)
           /\ AssetRef(a) # SourceRef(src) /\ SymbolRef(a) # SourceRef(src)
BY DEF AssetRef, SymbolRef, SourceRef

\* An input of the asset is one for its book, and one of the symbol one for its price.
LEMMA InputsOf ==
    ASSUME NEW i \in Inputs, NEW id
    PROVE  /\ i.subject = AssetRef(id) => WantsBook(i.kind) /\ ~WantsReference(i.kind)
           /\ i.subject = SymbolRef(id) => WantsReference(i.kind) /\ ~WantsBook(i.kind)
<1>1. PICK r \in Requirements : i = [kind |-> r.kind, subject |-> Provision(r)]
  BY DEF Inputs
<1>2. CASE r.selector.of = "Source"
  BY <1>1, <1>2 DEF Provision, SourceRef, AssetRef, SymbolRef
<1>3. CASE r.selector.of # "Source"
  <2>1. i.subject.source = DefaultSource(i.kind)
    BY <1>1, <1>3 DEF Provision
  <2>2. /\ i.subject = AssetRef(id) => i.subject.source = "pm"
        /\ i.subject = SymbolRef(id) => i.subject.source = "ext"
    BY DEF AssetRef, SymbolRef
  <2>3. /\ DefaultSource(i.kind) = "pm" => WantsBook(i.kind)
        /\ DefaultSource(i.kind) = "ext" => i.kind = "ExternalReferencePrice"
    BY DEF DefaultSource, WantsBook
  <2> QED BY <2>1, <2>2, <2>3 DEF WantsBook, WantsReference
<1> QED BY <1>2, <1>3

\* What a notice shows of an asset is the store's book or nothing, and the book if
\* the notice is of it and of its version.
LEMMA ViewOfBook ==
    ASSUME NEW n, NEW a \in Assets
    PROVE  /\ View(n)[AssetRef(a)] \in {None, books[a]}
           /\ /\ AsksBook(a) /\ n.subject = AssetRef(a) /\ n.kind \in BookKinds
              /\ books[a] # None /\ books[a].version = n.version
              => View(n)[AssetRef(a)] = books[a]
<1> DEFINE s == AssetRef(a)
           asked == {j \in Inputs : j.subject = s}
           states == {StateFor(i, n) : i \in asked} \ {None}
           hit == n.subject = s /\ n.kind \in BookKinds
                  /\ books[a] # None /\ books[a].version = n.version
<1>1. s \in Subjects /\ BookOf(s) = books[a]
  BY DEF Subjects, BookOf, AssetRef
<1>2. n.subject = s => ResolveBook(n) = IF books[a] # None /\ books[a].version = n.version
                                        THEN books[a] ELSE None
  BY <1>1 DEF ResolveBook
<1>3. CASE runtime.kind = "view"
  <2>1. View(n)[s] = IF IsRelevant(n) /\ states # {} THEN FirstOf(states) ELSE None
    BY <1>1, <1>3 DEF View
  <2>2. ASSUME NEW i \in asked
        PROVE  StateFor(i, n) \in {None, books[a]} /\ (hit => StateFor(i, n) = books[a])
    <3>1. i.subject = s /\ WantsBook(i.kind) /\ ~WantsReference(i.kind)
      BY InputsOf
    <3>2. Current(i) = books[a]
      BY <1>1, <3>1 DEF Current
    <3>3. n.subject = s => Resolved(i, n) = IF n.kind \in BookKinds THEN ResolveBook(n) ELSE None
      BY <3>1 DEF Resolved
    <3>4. n.subject = s => StateFor(i, n) = Resolved(i, n)
      BY <3>1 DEF StateFor
    <3>5. n.subject # s => StateFor(i, n) \in {None, books[a]}
      BY <3>1, <3>2 DEF StateFor
    <3> HIDE DEF s
    <3> QED BY <1>2, <3>3, <3>4, <3>5
  <2> HIDE DEF states
  <2>3. states # {} => FirstOf(states) \in states
    BY DEF FirstOf
  <2>4. states \subseteq {books[a]}
    BY <2>2 DEF states
  <2>5. ASSUME hit, AsksBook(a) PROVE IsRelevant(n) /\ states # {}
    <3>1. PICK i \in Inputs : i.subject = s
      BY <1>3, <2>5 DEF AsksBook
    <3>2. StateFor(i, n) = books[a] /\ books[a] # None
      BY <2>2, <2>5, <3>1
    <3> QED BY <2>5, <3>1, <3>2 DEF IsRelevant, states
  <2> QED BY <2>1, <2>3, <2>4, <2>5
<1>4. CASE runtime.kind # "view"
  <2>1. View(n)[s] = IF s = n.subject THEN ResolveBook(n) ELSE None
    BY <1>1, <1>4 DEF View
  <2> QED BY <1>2, <2>1
<1> QED BY <1>3, <1>4

\* The same of a symbol's reference price, in a view.
LEMMA ViewOfReference ==
    ASSUME NEW n, NEW y \in Symbols, runtime.kind = "view"
    PROVE  LET s == SymbolRef(y)
           IN  /\ View(n)[s] \in {None, references[s]}
               /\ /\ AsksReference(y) /\ n.subject = s /\ n.kind \in ReferenceKinds
                  /\ references[s] # None /\ references[s].version = n.version
                  => View(n)[s] = references[s]
<1> DEFINE s == SymbolRef(y)
           asked == {j \in Inputs : j.subject = s}
           states == {StateFor(i, n) : i \in asked} \ {None}
           hit == n.subject = s /\ n.kind \in ReferenceKinds
                  /\ references[s] # None /\ references[s].version = n.version
<1>1. s \in Subjects
  BY DEF Subjects
<1>2. n.subject = s => ResolveReference(n) = IF references[s] # None /\ references[s].version = n.version
                                             THEN references[s] ELSE None
  BY DEF ResolveReference
<1>3. View(n)[s] = IF IsRelevant(n) /\ states # {} THEN FirstOf(states) ELSE None
  BY <1>1 DEF View
<1>4. ASSUME NEW i \in asked
      PROVE  StateFor(i, n) \in {None, references[s]} /\ (hit => StateFor(i, n) = references[s])
  <2>1. i.subject = s /\ WantsReference(i.kind) /\ ~WantsBook(i.kind)
    BY InputsOf
  <2>2. Current(i) = references[s]
    BY <1>1, <2>1 DEF Current
  <2>3. n.subject = s => Resolved(i, n) = IF n.kind \in ReferenceKinds THEN ResolveReference(n) ELSE None
    BY <2>1 DEF Resolved
  <2>4. n.subject = s => StateFor(i, n) = Resolved(i, n)
    BY <2>1 DEF StateFor
  <2>5. n.subject # s => StateFor(i, n) \in {None, references[s]}
    BY <2>1, <2>2 DEF StateFor
  <2> HIDE DEF s
  <2> QED BY <1>2, <2>3, <2>4, <2>5
<1> HIDE DEF states
<1>5. states # {} => FirstOf(states) \in states
  BY DEF FirstOf
<1>6. states \subseteq {references[s]}
  BY <1>4 DEF states
<1>7. ASSUME hit, AsksReference(y) PROVE IsRelevant(n) /\ states # {}
  <2>1. PICK i \in Inputs : i.subject = s
    BY <1>7 DEF AsksReference
  <2>2. StateFor(i, n) = references[s] /\ references[s] # None
    BY <1>4, <1>7, <2>1
  <2> QED BY <1>7, <2>1, <2>2 DEF IsRelevant, states
<1> QED BY <1>3, <1>5, <1>6, <1>7

\* A notice that joins the queue is in it, with those that were.
LEMMA Joined ==
    ASSUME NEW q \in Seq(NoticeSet), NEW n \in NoticeSet, NEW s, NEW kinds, NEW v
    PROVE  /\ Append(q, n) \in Seq(NoticeSet)
           /\ QueuedIn(q, s, kinds, v) => QueuedIn(Append(q, n), s, kinds, v)
           /\ n.subject = s /\ n.kind \in kinds /\ n.version = v => QueuedIn(Append(q, n), s, kinds, v)
<1>1. /\ Append(q, n) \in Seq(NoticeSet) /\ Len(Append(q, n)) = Len(q) + 1 /\ Len(q) \in Nat
      /\ \A i \in 1..Len(q) : Append(q, n)[i] = q[i]
      /\ Append(q, n)[Len(q) + 1] = n
  OBVIOUS
<1>2. 1..Len(q) \subseteq 1..(Len(q) + 1) /\ Len(q) + 1 \in 1..(Len(q) + 1)
  BY <1>1
<1> QED BY <1>1, <1>2 DEF QueuedIn

\* A notice leaves the queue, and no other.
LEMMA Left ==
    ASSUME NEW q \in Seq(NoticeSet), q # <<>>, NEW s, NEW kinds, NEW v, QueuedIn(q, s, kinds, v)
    PROVE  \/ Head(q).subject = s /\ Head(q).kind \in kinds /\ Head(q).version = v
           \/ QueuedIn(Tail(q), s, kinds, v)
<1>1. PICK i \in 1..Len(q) : q[i].subject = s /\ q[i].kind \in kinds /\ q[i].version = v
  BY DEF QueuedIn
<1>2. Len(q) \in Nat /\ i \in Int /\ Head(q) = q[1]
  OBVIOUS
<1>3. CASE i = 1
  BY <1>1, <1>2, <1>3
<1>4. CASE i # 1
  <2>1. i - 1 \in 1..Len(Tail(q)) /\ Tail(q)[i - 1] = q[i]
    BY <1>2, <1>4
  <2> QED BY <1>1, <2>1 DEF QueuedIn
<1> QED BY <1>3, <1>4

\* A book that is stored has its notice's version.
LEMMA PutVersion ==
    ASSUME HotTypeOK, HotTypeOK', NEW n, n.subject.id \in Assets, NEW book, Put(n, book),
           books'[n.subject.id] # None
    PROVE  books'[n.subject.id].version = n.version
<1> DEFINE new == [book EXCEPT !.version = n.version]
<1>1. books' = [books EXCEPT ![n.subject.id] = new]
  BY DEF Put
<1>2. books'[n.subject.id] = new
  BY <1>1 DEF HotTypeOK
<1>3. new \in BookType
  BY <1>2 DEF HotTypeOK
<1>4. "version" \in DOMAIN book
  <2>1. DOMAIN new = DOMAIN book
    OBVIOUS
  <2> HIDE DEF new
  <2>2. "version" \in DOMAIN new
    BY <1>3 DEF BookType
  <2> QED BY <2>1, <2>2
<1>5. new.version = n.version
  BY <1>4
<1> QED BY <1>2, <1>5

\* While the queue, the strategy's views and a state stay, the state is awaited
\* or shown as before; a notice more does no harm.
LEMMA StillAwaited ==
    ASSUME AwaitedInv, UNCHANGED loop,
           \/ notices' = notices
           \/ \E n \in NoticeSet : notices' = Append(notices, n)
    PROVE  /\ \A a \in Assets :
                books'[a] = books[a] \/ books'[a] = None => BookAwaited(a)'
           /\ \A s \in Symbols :
                references'[SymbolRef(s)] = references[SymbolRef(s)]
                \/ references'[SymbolRef(s)] = None => ReferenceAwaited(s)'
<1>1. UNCHANGED <<runtime, phase, shown>>
  BY DEF loop
<1>2. ASSUME NEW s, NEW kinds, NEW v, QueuedIn(notices, s, kinds, v)
      PROVE  QueuedIn(notices', s, kinds, v)
  <2>1. CASE notices' = notices
    BY <1>2, <2>1
  <2>2. CASE notices' # notices
    <3>1. PICK n \in NoticeSet : notices' = Append(notices, n)
      BY <2>2
    <3>2. notices \in Seq(NoticeSet)
      BY DEF AwaitedInv, QueueTypes
    <3>3. QueuedIn(Append(notices, n), s, kinds, v)
      BY <1>2, <3>2, Joined
    <3> QED BY <3>1, <3>3
  <2> QED BY <2>1, <2>2
<1>3. ASSUME NEW a \in Assets, books'[a] = books[a] \/ books'[a] = None
      PROVE  BookAwaited(a)'
  <2>1. BookAwaited(a)
    BY DEF AwaitedInv
  <2> QED BY <1>1, <1>2, <1>3, <2>1 DEF BookAwaited, AsksBook, SamePrices
<1>4. ASSUME NEW s \in Symbols,
             references'[SymbolRef(s)] = references[SymbolRef(s)] \/ references'[SymbolRef(s)] = None
      PROVE  ReferenceAwaited(s)'
  <2>1. ReferenceAwaited(s)
    BY DEF AwaitedInv
  <2> QED BY <1>1, <1>2, <1>4, <2>1 DEF ReferenceAwaited, AsksReference
<1> QED BY <1>3, <1>4

\* A notice of a book is queued when the book is stored.
LEMMA BookStored ==
    ASSUME AwaitedInv, IInv', NEW a \in Assets, NEW n \in NoticeSet, NEW book,
           n.subject = AssetRef(a), n.kind \in BookKinds, Put(n, book),
           notices' = Append(notices, n), UNCHANGED <<loop, references>>, QueueTypes'
    PROVE  AwaitedInv'
<1>1. HotTypeOK /\ HotTypeOK' /\ n.subject.id = a /\ notices \in Seq(NoticeSet)
  BY DEF AwaitedInv, IInv, StoreTypeOK, QueueTypes, AssetRef
<1>2. BookAwaited(a)'
  <2>1. books'[a] # None => books'[a].version = n.version
    BY <1>1, PutVersion
  <2>2. QueuedIn(notices', AssetRef(a), BookKinds, n.version)
    BY <1>1, Joined
  <2> QED BY <2>1, <2>2 DEF BookAwaited
<1>3. \A x \in Assets \ {a} : books'[x] = books[x]
  BY <1>1 DEF Put, HotTypeOK
<1>4. /\ \A x \in Assets \ {a} : BookAwaited(x)'
      /\ \A s \in Symbols : ReferenceAwaited(s)'
  BY <1>3, StillAwaited
<1> QED BY <1>2, <1>4 DEF AwaitedInv

\* A notice of a book, and the clock after it.
LEMMA StampedNotice ==
    ASSUME QueueTypes, NEW s \in Subjects, NEW kind \in BookKinds \cup ReferenceKinds,
           NEW v \in Versions, Stamp(Notice(s, kind, v)), ReferenceTypes',
           notices' = Append(notices, Notice(s, kind, v))
    PROVE  /\ Notice(s, kind, v) \in NoticeSet /\ QueueTypes'
           /\ Notice(s, kind, v).subject = s /\ Notice(s, kind, v).kind = kind
           /\ Notice(s, kind, v).version = v
<1>1. v \in Nat
  BY NoticeRuntimeAssumption DEF Versions
<1>2. /\ Notice(s, kind, v) \in NoticeSet
      /\ Notice(s, kind, v).subject = s /\ Notice(s, kind, v).kind = kind
      /\ Notice(s, kind, v).version = v
  BY <1>1 DEF Notice, NoticeSet
<1>3. notices' \in Seq(NoticeSet)
  BY <1>2, Joined DEF QueueTypes
<1>4. clock' = [clock EXCEPT !.now = v]
  BY <1>2 DEF Stamp
<1>5. clock' \in [now : Nat, pm : Nat, ext : Nat]
  BY <1>1, <1>4 DEF QueueTypes
<1> QED BY <1>2, <1>3, <1>5 DEF QueueTypes

\* Each event of an asset's book stores a book and queues its notice.
LEMMA BookEventsAwait ==
    ASSUME AwaitedInv, IInv', NEW a \in Assets, NEW v \in Versions,
           \/ BookEvent(a, v)
           \/ BestBidAskEvent(a, v)
           \/ a \in dumped /\ \E side \in {"Buy", "Sell"}, p \in Prices : PriceChange(a, side, p, v)
           \/ \E tick \in Ticks : TickSizeChangeEvent(a, tick, v)
    PROVE  AwaitedInv'
<1> DEFINE Stored(kind, book) ==
               /\ Put(Notice(AssetRef(a), kind, v), book)
               /\ Stamp(Notice(AssetRef(a), kind, v))
               /\ notices' = Append(notices, Notice(AssetRef(a), kind, v))
               /\ UNCHANGED <<loop, references>>
<1>1. \E kind \in BookKinds : \E book : Stored(kind, book)
  <2>1. CASE BookEvent(a, v)
    <3> DEFINE n == Notice(AssetRef(a), "BookSnapshot", v)
    <3>1. \E bid, ask : Replace(n, bid, ask)
      BY <2>1 DEF BookEvent, ApplyBookSnapshot, Resolve, ApplyTop
    <3>2. \E book : Put(n, book) /\ UNCHANGED references
      BY <3>1 DEF Replace
    <3> QED BY <2>1, <3>2 DEF BookEvent, Publish, BookKinds
  <2>2. CASE BestBidAskEvent(a, v)
    BY <2>2 DEF BestBidAskEvent, ApplyBestBidAsk, Publish, BookKinds
  <2>3. ASSUME a \in dumped, NEW side \in {"Buy", "Sell"}, NEW p \in Prices, PriceChange(a, side, p, v)
        PROVE  \E kind \in BookKinds : \E book : Stored(kind, book)
    <3> DEFINE n == Notice(AssetRef(a), "BookDelta", v)
    <3>1. /\ Stamp(n) /\ Publish(n, "book")
          /\ \/ \E size, best, other : ApplyBookDelta(n, side, p, size, best, other)
             \/ \E book : Resolve(n, book)
      BY <2>3 DEF PriceChange
    <3>2. \E book : Put(n, book) /\ UNCHANGED references
      BY <3>1 DEF Resolve, ApplyTop, Replace, ApplyBookDelta
    <3> QED BY <3>1, <3>2 DEF Publish, BookKinds
  <2>4. ASSUME NEW tick \in Ticks, TickSizeChangeEvent(a, tick, v)
        PROVE  \E kind \in BookKinds : \E book : Stored(kind, book)
    BY <2>4 DEF TickSizeChangeEvent, ApplyTickSizeChange, Publish, BookKinds
  <2> QED BY <2>1, <2>2, <2>3, <2>4
<1>2. PICK kind \in BookKinds : \E book : Stored(kind, book)
  BY <1>1
<1>3. PICK book : Stored(kind, book)
  BY <1>2
<1> DEFINE n == Notice(AssetRef(a), kind, v)
<1>4. AssetRef(a) \in Subjects /\ QueueTypes /\ ReferenceTypes'
  BY <1>3 DEF Subjects, AwaitedInv, QueueTypes, ReferenceTypes
<1>5. n \in NoticeSet /\ n.subject = AssetRef(a) /\ n.kind = kind /\ QueueTypes'
  BY <1>3, <1>4, StampedNotice
<1> HIDE DEF n
<1> QED BY <1>3, <1>5, BookStored DEF n

\* A price change of a book that the exchange has not sent yet is not told.
LEMMA UntoldAwait ==
    ASSUME AwaitedInv, IInv', NEW a \in Assets \ dumped, NEW side, NEW p, NEW v,
           PriceChange(a, side, p, v)
    PROVE  AwaitedInv'
<1>1. UNCHANGED <<books, references, clock, notices, loop>>
  BY DEF PriceChange, hotVars
<1>2. QueueTypes'
  BY <1>1 DEF AwaitedInv, QueueTypes, ReferenceTypes
<1> QED BY <1>1, <1>2, StillAwaited DEF AwaitedInv

\* A fact of a subject is stored, and its notice queued.
LEMMA ReferenceAwait ==
    ASSUME AwaitedInv, IInv', NEW ref \in Subjects, NEW kind \in ReferenceKinds,
           NEW v \in Versions, ReferenceEvent(ref, kind, v)
    PROVE  AwaitedInv'
<1> DEFINE n == Notice(ref, kind, v)
<1>1. /\ Stamp(n) /\ notices' = Append(notices, n) /\ UNCHANGED <<loop, books>>
      /\ \E fact \in {"trade", "price", "status"} : ApplyReference(n, fact)
  <2>1. Stamp(n) /\ notices' = Append(notices, n) /\ UNCHANGED loop
    BY DEF ReferenceEvent, Publish
  <2>2. PICK fact \in {"trade", "price", "status"} : ApplyReference(n, fact)
    BY DEF ReferenceEvent
  <2>3. UNCHANGED books
    BY <2>2, Zenon DEF ApplyReference
  <2> QED BY <2>1, <2>2, <2>3
<1>2. n.subject = ref /\ n.version = v
  BY DEF Notice
<1>3. QueueTypes /\ DOMAIN references = Subjects
  BY DEF AwaitedInv, QueueTypes, ReferenceTypes
<1>4. /\ \A s \in Subjects \ {ref} : references'[s] = references[s]
      /\ references'[ref].version = v /\ ReferenceTypes'
  <2>1. PICK fact \in {"trade", "price", "status"} : ApplyReference(n, fact)
    BY <1>1
  <2> DEFINE old == IF references[ref] = None THEN EmptyReference ELSE references[ref]
             new == [old EXCEPT ![fact] = v, !.version = v]
  <2>2. "version" \in DOMAIN old
    BY <1>3 DEF EmptyReference, QueueTypes, ReferenceTypes
  <2>3. references' = [references EXCEPT ![ref] = new]
    BY <1>2, <2>1, Zenon DEF ApplyReference
  <2> HIDE DEF old
  <2>4. DOMAIN new = DOMAIN old /\ new.version = v
    BY <2>2
  <2> HIDE DEF new
  <2> QED BY <1>3, <2>2, <2>3, <2>4 DEF QueueTypes, ReferenceTypes
<1>5. n \in NoticeSet /\ n.kind = kind /\ QueueTypes'
  BY <1>1, <1>3, <1>4, StampedNotice
<1> HIDE DEF n
<1>6. \A a \in Assets : BookAwaited(a)'
  BY <1>1, <1>5, StillAwaited
<1>7. ASSUME NEW y \in Symbols PROVE ReferenceAwaited(y)'
  <2>1. CASE SymbolRef(y) = ref
    <3>1. QueuedIn(notices', ref, ReferenceKinds, v)
      BY <1>1, <1>2, <1>3, <1>5, Joined DEF QueueTypes
    <3> QED BY <1>4, <2>1, <3>1 DEF ReferenceAwaited
  <2>2. CASE SymbolRef(y) # ref
    <3>1. SymbolRef(y) \in Subjects
      BY DEF Subjects
    <3> QED BY <1>1, <1>4, <1>5, <2>2, <3>1, StillAwaited
  <2> QED BY <2>1, <2>2
<1> QED BY <1>5, <1>6, <1>7 DEF AwaitedInv

\* A reconnection: what its source had is gone, the rest is as it was.
LEMMA ReconnectAwait ==
    ASSUME AwaitedInv, IInv', NEW src \in {"pm", "ext"}, ReconnectEvent(src)
    PROVE  AwaitedInv'
<1> DEFINE v == clock[src] + 1
           n == Notice(SourceRef(src), "Reconnect", v)
<1>1. /\ QueueTypes /\ clock \in [now : Nat, pm : Nat, ext : Nat]
      /\ notices \in Seq(NoticeSet)
  BY DEF AwaitedInv, QueueTypes
<1>2. v \in Nat /\ clock' \in [now : Nat, pm : Nat, ext : Nat]
  <2>1. clock' = [clock EXCEPT ![src] = clock[src] + 1]
    BY DEF ReconnectEvent
  <2>2. CASE src = "pm"
    BY <1>1, <2>1, <2>2
  <2>3. CASE src = "ext"
    BY <1>1, <2>1, <2>3
  <2> QED BY <2>2, <2>3
<1>3. /\ notices' = Append(notices, n) /\ UNCHANGED loop
      /\ ApplyReconnect(n)
  BY DEF ReconnectEvent, Publish
<1>4. n \in NoticeSet /\ n.subject = SourceRef(src) /\ n.subject.source = src
  BY <1>2 DEF Notice, NoticeSet, SourceRef, Subjects, ReferenceKinds
<1>5. QueueTypes'
  <2>1. notices' \in Seq(NoticeSet)
    BY <1>1, <1>3, <1>4, Joined
  <2>2. ReferenceTypes'
    BY <1>1, <1>3 DEF ApplyReconnect, EmptyReference, QueueTypes, ReferenceTypes
  <2> QED BY <1>2, <2>1, <2>2 DEF QueueTypes
<1>6. \A a \in Assets : books'[a] = books[a] \/ books'[a] = None
  BY <1>3 DEF ApplyReconnect, BooksWithout
<1>7. ASSUME NEW y \in Symbols
      PROVE  references'[SymbolRef(y)] \in {references[SymbolRef(y)], None}
  <2>1. SymbolRef(y) \in Subjects /\ SymbolRef(y) # SourceRef(src)
    BY SubjectsDiffer DEF Subjects
  <2> QED BY <1>3, <1>4, <2>1 DEF ApplyReconnect
<1> HIDE DEF n
<1> QED BY <1>3, <1>4, <1>5, <1>6, <1>7, StillAwaited DEF AwaitedInv

\* The registration of the market counts levels anew, and changes nothing shown.
LEMMA RegisterAwait ==
    ASSUME AwaitedInv, IInv', NEW tick \in Ticks, Register(tick)
    PROVE  AwaitedInv'
<1>1. /\ UNCHANGED <<references, clock, notices, loop>>
      /\ \A a \in Assets : books'[a] = IF books[a] = None THEN None ELSE WithTick(books[a], tick)
  BY DEF Register, RegisterMarket
<1>2. QueueTypes'
  BY <1>1 DEF AwaitedInv, QueueTypes, ReferenceTypes
<1>3. tick \in TickType
  BY NoticeRuntimeAssumption DEF TickType
<1>4. ASSUME NEW a \in Assets PROVE BookAwaited(a)'
  <2>1. CASE books[a] = None
    BY <1>1, <2>1 DEF BookAwaited
  <2>2. CASE books[a] # None
    <3>1. books[a] \in BookType /\ books'[a] = WithTick(books[a], tick)
      BY <1>1, <2>2 DEF AwaitedInv, IInv, StoreTypeOK, HotTypeOK
    <3>2. books'[a].version = books[a].version
      BY <3>1 DEF WithTick, BookType
    <3>3. Alike(books'[a].bid, books[a].bid) /\ Alike(books'[a].ask, books[a].ask)
      BY <1>3, <3>1, WithTickType
    <3>4. \A b : SamePrices(b, books[a]) => SamePrices(b, books'[a])
      BY <3>2, <3>3 DEF SamePrices, Alike
    <3>5. BookAwaited(a) /\ UNCHANGED <<runtime, phase, shown>>
      BY <1>1 DEF AwaitedInv, loop
    <3> QED BY <1>1, <2>2, <3>2, <3>4, <3>5 DEF BookAwaited, AsksBook, SamePrices
  <2> QED BY <2>1, <2>2
<1>5. \A s \in Symbols : ReferenceAwaited(s)'
  BY <1>1, StillAwaited
<1> QED BY <1>2, <1>4, <1>5 DEF AwaitedInv

\* The notice that is handled shows what it speaks of, unless it was overtaken.
LEMMA HandleAwait == ASSUME AwaitedInv, IInv', Handle PROVE AwaitedInv'
<1> DEFINE n == Head(notices)
<1>1. /\ notices # <<>> /\ notices' = Tail(notices) /\ phase # "ended"
      /\ UNCHANGED <<books, references, clock, runtime>>
      /\ shown' = [s \in Subjects |-> IF View(n)[s] # None THEN View(n)[s] ELSE shown[s]]
  BY DEF Handle, hotVars, sources
<1>2. notices \in Seq(NoticeSet)
  BY DEF AwaitedInv, QueueTypes
<1>3. QueueTypes'
  <2>1. notices' \in Seq(NoticeSet)
    BY <1>1, <1>2
  <2> QED BY <1>1, <2>1 DEF AwaitedInv, QueueTypes, ReferenceTypes
<1> HIDE DEF n
<1>4. ASSUME NEW a \in Assets PROVE BookAwaited(a)'
  <2> DEFINE s == AssetRef(a)
  <2>1. s \in Subjects /\ shown'[s] = IF View(n)[s] # None THEN View(n)[s] ELSE shown[s]
    BY <1>1 DEF Subjects
  <2>2. View(n)[s] \in {None, books[a]}
    BY ViewOfBook
  <2>3. SamePrices(books[a], books[a])
    BY DEF SamePrices
  <2> SUFFICES ASSUME books[a] # None, AsksBook(a)
               PROVE  \/ QueuedIn(notices', s, BookKinds, books[a].version)
                      \/ shown'[s] # None /\ SamePrices(shown'[s], books[a])
    BY <1>1 DEF BookAwaited, AsksBook, SamePrices
  <2>4. CASE QueuedIn(notices, s, BookKinds, books[a].version)
    <3>1. CASE n.subject = s /\ n.kind \in BookKinds /\ n.version = books[a].version
      <4>1. View(n)[s] = books[a]
        BY <3>1, ViewOfBook
      <4> QED BY <2>1, <2>3, <4>1
    <3>2. CASE QueuedIn(Tail(notices), s, BookKinds, books[a].version)
      BY <1>1, <3>2
    <3> QED BY <1>1, <1>2, <2>4, <3>1, <3>2, Left DEF n
  <2>5. CASE shown[s] # None /\ SamePrices(shown[s], books[a])
    BY <2>1, <2>2, <2>3, <2>5
  <2> QED BY <1>1, <2>4, <2>5 DEF AwaitedInv, BookAwaited
<1>5. ASSUME NEW y \in Symbols PROVE ReferenceAwaited(y)'
  <2> DEFINE s == SymbolRef(y)
  <2> SUFFICES ASSUME references[s] # None, AsksReference(y)
               PROVE  \/ QueuedIn(notices', s, ReferenceKinds, references[s].version)
                      \/ shown'[s] = references[s]
    BY <1>1 DEF ReferenceAwaited, AsksReference
  <2>1. s \in Subjects /\ shown'[s] = IF View(n)[s] # None THEN View(n)[s] ELSE shown[s]
    BY <1>1 DEF Subjects
  <2>2. View(n)[s] \in {None, references[s]}
    BY ViewOfReference DEF AsksReference
  <2>3. CASE QueuedIn(notices, s, ReferenceKinds, references[s].version)
    <3>1. CASE n.subject = s /\ n.kind \in ReferenceKinds /\ n.version = references[s].version
      <4>1. View(n)[s] = references[s]
        BY <3>1, ViewOfReference DEF AsksReference
      <4> QED BY <2>1, <4>1
    <3>2. CASE QueuedIn(Tail(notices), s, ReferenceKinds, references[s].version)
      BY <1>1, <3>2
    <3> QED BY <1>1, <1>2, <2>3, <3>1, <3>2, Left DEF n
  <2>4. CASE shown[s] = references[s]
    BY <2>1, <2>2, <2>4
  <2> QED BY <1>1, <2>3, <2>4 DEF AwaitedInv, ReferenceAwaited
<1> QED BY <1>3, <1>4, <1>5 DEF AwaitedInv

\* Nothing is in the store at first.
LEMMA AwaitedInit == Init => AwaitedInv
<1> SUFFICES ASSUME Init PROVE AwaitedInv
  OBVIOUS
<1>1. /\ \A a \in Assets : books[a] = None
      /\ DOMAIN references = Subjects /\ \A s \in Subjects : references[s] = None
  BY DEF Init, HotInit
<1>2. QueueTypes
  BY <1>1 DEF Init, QueueTypes, ReferenceTypes
<1>3. \A s \in Symbols : SymbolRef(s) \in Subjects
  BY DEF Subjects
<1> QED BY <1>1, <1>2, <1>3, InvInit DEF AwaitedInv, BookAwaited, ReferenceAwaited

\* Every step keeps what is awaited.
LEMMA AwaitedStep == AwaitedInv /\ [Next]_vars => AwaitedInv'
<1> SUFFICES ASSUME AwaitedInv, [Next]_vars PROVE AwaitedInv'
  OBVIOUS
<1>1. IInv'
  BY InvStep DEF AwaitedInv
<1>2. CASE Update
  <2>1. ASSUME NEW a \in Assets, NEW v \in Versions,
               NEW side \in {"Buy", "Sell"}, NEW p \in Prices, PriceChange(a, side, p, v)
        PROVE  AwaitedInv'
    <3>1. CASE a \in dumped
      BY <1>1, <2>1, <3>1, BookEventsAwait
    <3>2. CASE a \notin dumped
      BY <1>1, <2>1, <3>2, UntoldAwait
    <3> QED BY <3>1, <3>2
  <2>2. ASSUME NEW a \in Assets, NEW v \in Versions,
               \/ BookEvent(a, v) \/ BestBidAskEvent(a, v)
               \/ \E tick \in Ticks : TickSizeChangeEvent(a, tick, v)
        PROVE  AwaitedInv'
    BY <1>1, <2>2, BookEventsAwait
  <2>3. /\ \A a \in Assets : AssetRef(a) \in Subjects
        /\ \A s \in Symbols : SymbolRef(s) \in Subjects
        /\ SourceRef("ext") \in Subjects
        /\ {"TradeTick", "ReferencePrice", "SourceStatus"} \subseteq ReferenceKinds
    BY DEF Subjects, ReferenceKinds
  <2>4. ASSUME NEW v \in Versions,
               \/ \E a \in Assets : ReferenceEvent(AssetRef(a), "TradeTick", v)
               \/ \E s \in Symbols : ReferenceEvent(SymbolRef(s), "ReferencePrice", v)
               \/ ReferenceEvent(SourceRef("ext"), "SourceStatus", v)
        PROVE  AwaitedInv'
    BY <1>1, <2>3, <2>4, ReferenceAwait
  <2>5. ASSUME NEW src \in {"pm", "ext"}, ReconnectEvent(src) PROVE AwaitedInv'
    BY <1>1, <2>5, ReconnectAwait
  <2>6. ASSUME NEW tick \in Ticks, Register(tick) PROVE AwaitedInv'
    BY <1>1, <2>6, RegisterAwait
  <2> QED BY <1>2, <2>1, <2>2, <2>4, <2>5, <2>6 DEF Update
<1>3. CASE Handle
  BY <1>1, <1>3, HandleAwait
<1>4. CASE Send
  <2>1. /\ UNCHANGED <<books, references, notices, clock, runtime, shown>>
        /\ phase # "ended"
    BY <1>4 DEF Send, hotVars, sources
  <2> QED
    BY <1>1, <2>1 DEF AwaitedInv, QueueTypes, ReferenceTypes, BookAwaited, ReferenceAwaited,
                      AsksBook, AsksReference, SamePrices
<1>5. CASE UNCHANGED vars
  <2>1. UNCHANGED <<books, references, notices, clock, runtime, phase, shown>>
    BY <1>5 DEF vars, hotVars, sources, loop
  <2> QED
    BY <1>1, <2>1 DEF AwaitedInv, QueueTypes, ReferenceTypes, BookAwaited, ReferenceAwaited,
                      AsksBook, AsksReference, SamePrices
<1> QED BY <1>2, <1>3, <1>4, <1>5 DEF Next

-----------------------------------------------------------------------------
\* The theorems.

\* A book of the hot state that is of this connection has the exchange's best
\* prices, whatever mix of book, price_change, best_bid_ask, tick_size_change and
\* registration has made it, and whichever way its notices were resolved.
THEOREM TopPrices == Spec => []TopPricesExact
BY Inv, PTL DEF IInv

\* A book that has not been sent on this connection has no levels.
THEOREM OldBooks == Spec => []OldBooksForgotten
BY Inv, PTL DEF IInv

\* While a book is on the registered tick its levels are counted in it.
THEOREM TicksRegistered == Spec => []RegisteredTicks
BY Inv, PTL DEF IInv

\* The store and the exchange stay of their types.
THEOREM StoreTypes == Spec => []StoreTypeOK
BY Inv, PTL DEF IInv

\* Once it has read every notice, the strategy has been given the store's state of
\* whatever it asks for, whatever was overtaken on the way (resolve_book and
\* resolve_reference of runtime.rs, hot_state.rs:239), by either runtime.
THEOREM ViewsFollow == Spec => []ViewsCatchUp
<1>1. AwaitedInv => ViewsCatchUp
  <2> SUFFICES ASSUME AwaitedInv, notices = <<>>, phase # "ended" PROVE ViewsCatchUp
    BY DEF ViewsCatchUp
  <2>1. \A s, kinds, v : ~QueuedIn(notices, s, kinds, v)
    BY DEF QueuedIn
  <2> QED
    BY <2>1 DEF AwaitedInv, BookAwaited, ReferenceAwaited, AsksBook, AsksReference, ViewsCatchUp
<1> QED
  BY <1>1, AwaitedInit, AwaitedStep, PTL DEF Spec
=============================================================================
