----------------------------- MODULE Strategies -----------------------------
(***************************************************************************)
(* What the strategies of pm-strategy answer to a snapshot: ThresholdStrategy *)
(* (threshold.rs), SpreadStrategy (spread.rs) and their construction from a  *)
(* StrategyConfig (config.rs).  Operators only; TriggerPipeline runs them.  *)
(*                                                                         *)
(* A decimal text is [form, units, places]: "0.450" is the "decimal" of 450 *)
(* units at 3 places, and what no parser takes has another form.  A snapshot *)
(* is [asset, bid, ask], its prices being texts, or None where a side of the *)
(* book is empty.                                                          *)
(*                                                                         *)
(* A definition named X_Fault is X with a mistake the code could have made *)
(* in its place; nothing uses it.                                          *)
(***************************************************************************)
EXTENDS Integers

None == [form |-> "none", units |-> 0, places |-> 0]

Decimal(units, places) == [form |-> "decimal", units |-> units, places |-> places]

\* parse::<f64>() of such a text.
Parses(text) == text.form = "decimal"

\* The value of a text, in units of the given number of places.
ValueAt(text, places) == text.units * 10^(places - text.places)

Finer(a, b) == IF a.places > b.places THEN a.places ELSE b.places

\* Two texts are compared as f64, which rounds equal decimals alike.
AtMost(a, b) == ValueAt(a, Finer(a, b)) <= ValueAt(b, Finer(a, b))

-----------------------------------------------------------------------------

\* build_strategy: the parameter its strategy needs must be there.
Buildable(strategy) ==
    /\ strategy.kind \in {"threshold", "spread"}
    /\ strategy.param # None

\* The threshold is met by the price an order would cross: the best ask when it
\* buys, the best bid when it sells.
ThresholdFires(strategy, snapshot) ==
    IF strategy.side = "Buy"
    THEN Parses(snapshot.ask) /\ AtMost(snapshot.ask, strategy.param)
    ELSE Parses(snapshot.bid) /\ AtMost(strategy.param, snapshot.bid)

\* What ask_price - bid_price < max_spread may give.  The difference of two f64
\* is not the f64 of the difference: where they are equal as decimals it falls on
\* either side.
SpreadFires(strategy, snapshot) ==
    LET p == Finer([places |-> Finer(snapshot.bid, snapshot.ask)], strategy.param)
        spread == ValueAt(snapshot.ask, p) - ValueAt(snapshot.bid, p)
        limit == ValueAt(strategy.param, p)
    IN  IF ~Parses(snapshot.bid) \/ ~Parses(snapshot.ask) THEN {FALSE}
        ELSE IF spread = limit THEN BOOLEAN
        ELSE {spread < limit}

\* on_book_update: whether it may make a trigger, or not make one.
Fires(strategy, snapshot) ==
    IF snapshot.asset # strategy.token THEN {FALSE}
    ELSE IF strategy.kind = "threshold" THEN {ThresholdFires(strategy, snapshot)}
    ELSE SpreadFires(strategy, snapshot)

\* Fault: the price of its own side of the book.
Price_OwnSide(strategy, snapshot) ==
    IF strategy.side = "Buy" THEN snapshot.bid ELSE snapshot.ask

\* The price of the trigger: the one it would cross.
Price(strategy, snapshot) ==
    IF strategy.side = "Buy" THEN snapshot.ask ELSE snapshot.bid

\* make_trigger; trigger_id and timestamp_ns are only logged.
MakeTrigger(strategy, snapshot) ==
    [token |-> strategy.token, side |-> strategy.side, size |-> strategy.size,
     orderType |-> strategy.orderType, price |-> Price(strategy, snapshot)]
=============================================================================
