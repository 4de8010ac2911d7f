------------------------------- MODULE Quotes -------------------------------
(***************************************************************************)
(* pm-executor's quote maintenance: LocalOrderManager (order_manager.rs),  *)
(* the life cycle of a WorkingQuote (order_state.rs), the quotes a         *)
(* strategy wants (pm-strategy/src/quote.rs) and the inventory its runtime *)
(* keeps of the fills (pm-strategy/src/runtime.rs: InventoryStore).        *)
(*                                                                         *)
(* One Cycle is one call of reconcile_against_exchange.  What calls it is  *)
(* not in the repository yet: the model supplies the least a caller must   *)
(* do, which is to keep the synchronised quotes, to turn each command into *)
(* the transition order_state.rs provides for it, to send it, and to hand  *)
(* the exposure deltas on to the runtime.  The exchange, and the           *)
(* connection that loses commands, are external.                           *)
(*                                                                         *)
(* Times are kept as the age of a quote's last command, in ticks, up to    *)
(* the longest period the policy compares one with.                        *)
(*                                                                         *)
(* A definition named X_Fault is X with a mistake the code could have made *)
(* in its place; no action uses it.                                        *)
(***************************************************************************)
EXTENDS Integers, Sequences, FiniteSets, FiniteSetsExt, SequencesExt

CONSTANTS
    Ids,             \* quote ids: naturals, in the order of their strings
    Offers,          \* what is quoted: [kind, price, size], see Decimal
    NoOffer,         \* in place of an offer: the quote is not wanted
    Wanted,          \* what the strategy may want: an offer or none for each id
    Digits,          \* decimals kept by parse_units, six in the code
    MinChange,       \* min_price_change_units and min_size_change_units
    Cooldown,        \* replace_cooldown_ms
    SubmitTimeout,   \* submit_timeout_ms
    CancelTimeout,   \* cancel_timeout_ms
    LateReports,     \* may the exchange be asked before it has all commands?
    MaxChanges,      \* bound: changes of the strategy's mind
    MaxTrouble,      \* bound: connections that break with commands on them,
                     \*        places the exchange rejects, and fills, together
    MaxLive          \* bound: orders the exchange holds for one quote

\* A Decimal is text of a number n / 10^k: the record [n, k].
ASSUME QuotesAssumption ==
    /\ Ids \subseteq Nat /\ IsFiniteSet(Ids)
    /\ NoOffer \notin Offers /\ Wanted \subseteq [Ids -> Offers \cup {NoOffer}]
    /\ {Digits, Cooldown, SubmitTimeout, CancelTimeout} \subseteq Nat
    /\ {MaxChanges, MaxTrouble, MaxLive} \subseteq Nat
    /\ LateReports \in BOOLEAN

VARIABLES
    desired,     \* DesiredQuotes: the offer wanted for each id
    working,     \* the local quotes: [state, offer, age] for each id
    wire,        \* commands sent and not yet at the exchange
    outcome,     \* of the last reconciliation: [blocked, resync_required]
    seen,        \* seen_fill_ids
    inventory,   \* the runtime's positions: [filled_size, net_notional] per kind
    live,        \* the exchange: orders resting under each id, oldest first
    canceling,   \* the exchange: ids whose orders it is cancelling
    closed,      \* the exchange: what it answers for an id with no order
    fills,       \* the exchange: its fills, numbered by fill_id
    spent        \* counts of what is bounded: [changes, losses, rejects, fills]

exchange == <<live, canceling, closed, fills>>
local == <<working, outcome, seen, inventory>>
vars == <<desired, wire, spent, local, exchange>>

-----------------------------------------------------------------------------
\* Numbers.

\* parse_units: the decimals after the last one kept are cut off.
ParseUnits(d) == IF d.k >= Digits THEN d.n \div 10^(d.k - Digits)
                                  ELSE d.n * 10^(Digits - d.k)

AbsDiff(a, b) == IF a > b THEN a - b ELSE b - a

IsMaterialChange(a, b) ==
    \/ a.kind # b.kind
    \/ AbsDiff(ParseUnits(a.price), ParseUnits(b.price)) >= MinChange
    \/ AbsDiff(ParseUnits(a.size), ParseUnits(b.size)) >= MinChange

Kinds == {o.kind : o \in Offers}      \* asset_id and side

\* notional_units / SCALE
Notional(o) == (ParseUnits(o.price) * ParseUnits(o.size)) \div 10^Digits

\* What parse_units and notional_units return is a whole number.
ASSUME OffersAssumption == \A o \in Offers : ParseUnits(o.size) \in Int /\ Notional(o) \in Int

-----------------------------------------------------------------------------
\* WorkingQuote.

States == {"None", "PendingSubmit", "Working", "PendingCancel", "Canceled",
           "Rejected", "UnknownOrStale"}

MaxAge == Max({Cooldown, SubmitTimeout, CancelTimeout})

BlocksConvergence(w) == w.state = "UnknownOrStale"

\* Fault: an order whose submission is unconfirmed is not cancelled.
IsCancelable_Confirmed(w) == w.state \in {"Working", "PendingCancel"}

IsCancelable(w) == w.state \in {"PendingSubmit", "Working", "PendingCancel"}

Moved(w, s) == [w EXCEPT !.state = s]

PendingSubmit(o) == [state |-> "PendingSubmit", offer |-> o, age |-> 0]
MarkPendingCancel(w) == [w EXCEPT !.state = "PendingCancel", !.age = 0]

TimedOut(w) == \/ w.state = "PendingSubmit" /\ w.age >= SubmitTimeout
               \/ w.state = "PendingCancel" /\ w.age >= CancelTimeout

\* Fault: only submissions time out.
MarkUnknownIfTimedOut_Submit(w) ==
    IF TimedOut(w) /\ w.state = "PendingSubmit" THEN Moved(w, "UnknownOrStale") ELSE w

MarkUnknownIfTimedOut(w) == IF TimedOut(w) THEN Moved(w, "UnknownOrStale") ELSE w

\* A cancellation under way is not undone by a report that the order works;
\* every other report is believed, whatever came before it.
ApplyExchangeObservation(w, s) ==
    IF w.state = "PendingCancel" /\ s = "Working" THEN w ELSE Moved(w, s)

\* Fault: an order in doubt stays in doubt when the exchange does not know it.
ApplyAuthoritativeAbsence_Stuck(w) ==
    CASE w.state \in {"PendingCancel", "Canceled"} -> Moved(w, "Canceled")
      [] w.state \in {"PendingSubmit", "Working"} -> Moved(w, "UnknownOrStale")
      [] OTHER -> w

\* An order confirmed or just sent that the exchange does not know is in doubt;
\* one that was being cancelled, or was in doubt already, is gone.
ApplyAuthoritativeAbsence(w) ==
    CASE w.state \in {"PendingCancel", "Canceled", "UnknownOrStale"} -> Moved(w, "Canceled")
      [] w.state \in {"PendingSubmit", "Working"} -> Moved(w, "UnknownOrStale")
      [] OTHER -> w

-----------------------------------------------------------------------------
\* LocalOrderManager.  A snapshot is [authoritative, resync_pending, quotes,
\* fills]: quotes maps the ids it reports to a state, fills is a set of fill_ids.

\* One quote of the list, brought up to date; ids with no quote are left alone.
Synchronized(w, q, snap) ==
    LET timed == MarkUnknownIfTimedOut(w)
        compared == w.state # "None" /\ ~snap.resync_pending
        reported == q \in DOMAIN snap.quotes
    IN  CASE snap.resync_pending /\ IsCancelable(w) -> Moved(w, "UnknownOrStale")
          [] compared /\ reported -> ApplyExchangeObservation(timed, snap.quotes[q])
          [] compared /\ ~reported /\ snap.authoritative -> ApplyAuthoritativeAbsence(timed)
          [] compared /\ ~reported /\ ~snap.authoritative -> timed
          [] OTHER -> w

\* The quotes whose synchronisation sets resync_required.
Doubted(w, snap) ==
    {q \in Ids : \/ TimedOut(w[q])
                 \/ /\ q \notin DOMAIN snap.quotes /\ snap.authoritative
                    /\ w[q].state \in {"PendingSubmit", "Working"}}

\* A quote whose order differs enough, and is old enough, to be replaced.
Replaceable(w, o) == IsMaterialChange(w.offer, o) /\ w.age >= Cooldown

ToCancel(w, d) == {q \in Ids : /\ IsCancelable(w[q])
                               /\ d[q] = NoOffer \/ Replaceable(w[q], d[q])}

ToPlace(w, d) == {q \in Ids : /\ d[q] # NoOffer
                              /\ ~IsCancelable(w[q]) \/ Replaceable(w[q], d[q])}

Command(op, q, o) == [op |-> op, id |-> q, offer |-> o]

\* Some of the ids in their order: a set of one sequence.
InOrder(ids) == {s \in [1..Cardinality(ids) -> ids] :
                    /\ \A i, j \in DOMAIN s : i < j => s[i] < s[j]
                    /\ ids \subseteq ToSet(s)}

Cancels(s) == [i \in DOMAIN s |-> Command("Cancel", s[i], NoOffer)]
Places(s, d) == [i \in DOMAIN s |-> Command("Place", s[i], d[s[i]])]

Blocked(w) == \E q \in Ids : BlocksConvergence(w[q])

\* Fault: the new orders go first.
Commands_PlaceFirst(w, d) ==
    IF Blocked(w) THEN {<<>>}
    ELSE {Places(p, d) \o Cancels(c) : p \in InOrder(ToPlace(w, d)), c \in InOrder(ToCancel(w, d))}

\* reconcile: nothing while any quote is in doubt, one CancelAll when nothing is
\* wanted, otherwise cancels before places, each in the order of the ids.
Commands(w, d) ==
    CASE Blocked(w) -> {<<>>}
      [] ~Blocked(w) /\ (\A q \in Ids : d[q] = NoOffer) /\ (\E q \in Ids : IsCancelable(w[q]))
            -> {<<Command("CancelAll", 0, NoOffer)>>}
      [] OTHER -> {Cancels(c) \o Places(p, d) :
                      c \in InOrder(ToCancel(w, d)), p \in InOrder(ToPlace(w, d))}

\* What the caller does to its quote q for the commands it sends.
Commanded(w, q, cmds) ==
    LET sent == ToSet(cmds)
        placed == {c \in sent : c.op = "Place" /\ c.id = q}
        canceled == {c \in sent : \/ c.op = "Cancel" /\ c.id = q
                                  \/ c.op = "CancelAll" /\ IsCancelable(w)}
    IN  CASE placed # {} -> PendingSubmit(desired[q])
          [] placed = {} /\ canceled # {} -> MarkPendingCancel(w)
          [] OTHER -> w

\* Fault: every fill of a report is counted.
NewFills_All(snap) == snap.fills

\* Fills that were not in an earlier report.
NewFills(snap) == snap.fills \ seen

\* apply_inventory_delta, for the delta of each of these fills: both sums only
\* grow, whatever the side.
Positions(inv, new) ==
    [k \in Kinds |->
        LET mine == {f \in new : fills[f].kind = k}
        IN  [filled_size  |-> inv[k].filled_size
                 + MapThenSumSet(LAMBDA f : ParseUnits(fills[f].size), mine),
             net_notional |-> inv[k].net_notional
                 + MapThenSumSet(LAMBDA f : Notional(fills[f]), mine)]]

\* reconcile_with_exchange.  While a resynchronisation is pending, every order
\* that may rest is in doubt, nothing is commanded, and fills still count.
Reconcile(snap) ==
    LET synced == [q \in Ids |-> Synchronized(working[q], q, snap)]
        blocked == snap.resync_pending \/ Blocked(synced)
    IN  /\ \E cmds \in IF snap.resync_pending THEN {<<>>} ELSE Commands(synced, desired) :
              /\ working' = [q \in Ids |-> Commanded(synced[q], q, cmds)]
              /\ wire' = wire \o cmds
        /\ outcome' = [blocked |-> blocked,
                       resync_required |-> blocked \/ Doubted(working, snap) # {}]
        /\ inventory' = Positions(inventory, NewFills(snap))
        /\ seen' = seen \cup snap.fills

-----------------------------------------------------------------------------
\* The exchange, external: how it answers for an id.

Answer(q) == CASE live[q] # <<>> -> "Working"
               [] live[q] = <<>> /\ q \in canceling -> "PendingCancel"
               [] OTHER -> closed[q]

Known == {q \in Ids : Answer(q) # "None"}

\* The answers for some of the ids it knows; every one when it is authoritative.
Snapshots ==
    {[authoritative |-> ids = Known, resync_pending |-> FALSE, fills |-> f,
      quotes |-> [q \in ids |-> Answer(q)]] :
        ids \in {{}, Known}, f \in {{}, DOMAIN fills}}
    \cup {[authoritative |-> FALSE, resync_pending |-> r, fills |-> {}, quotes |-> <<>>] :
        r \in BOOLEAN}

Asked == LateReports \/ wire = <<>>

Cycle(snap) == Asked /\ Reconcile(snap) /\ UNCHANGED <<desired, spent, exchange>>

FullAnswer == [authoritative |-> TRUE, resync_pending |-> FALSE,
               quotes |-> [q \in Known |-> Answer(q)], fills |-> DOMAIN fills]

NoInventory == [k \in Kinds |-> [filled_size |-> 0, net_notional |-> 0]]

Init ==
    /\ desired = [q \in Ids |-> NoOffer]
    /\ working = [q \in Ids |-> [state |-> "None", offer |-> NoOffer, age |-> 0]]
    /\ wire = <<>>
    /\ outcome = [blocked |-> FALSE, resync_required |-> FALSE]
    /\ seen = {}
    /\ inventory = NoInventory
    /\ live = [q \in Ids |-> <<>>]
    /\ canceling = {}
    /\ closed = [q \in Ids |-> "None"]
    /\ fills = <<>>
    /\ spent = [changes |-> 0, losses |-> 0, rejects |-> 0, fills |-> 0]

Spend(what) ==
    /\ IF what = "changes"
       THEN spent.changes < MaxChanges
       ELSE spent.losses + spent.rejects + spent.fills < MaxTrouble
    /\ spent' = [spent EXCEPT ![what] = @ + 1]

\* The strategy returns other quotes.
Desire(d) ==
    /\ d # desired
    /\ Spend("changes")
    /\ desired' = d
    /\ UNCHANGED <<wire, local, exchange>>

\* A tick of now_ms.
Tick ==
    /\ \E q \in Ids : working[q].age < MaxAge /\ working[q].state # "None"
    /\ working' = [q \in Ids |->
           [working[q] EXCEPT !.age = IF @ < MaxAge /\ working[q].state # "None"
                                      THEN @ + 1 ELSE @]]
    /\ UNCHANGED <<desired, wire, spent, outcome, seen, inventory, exchange>>

\* The exchange takes the next command.
Accept ==
    /\ wire # <<>>
    /\ wire' = Tail(wire)
    /\ LET c == Head(wire)
           hit == {q \in Ids : live[q] # <<>> /\ (c.op = "CancelAll" \/ c.id = q)}
       IN  IF c.op = "Place"
           THEN /\ Len(live[c.id]) < MaxLive
                /\ live' = [live EXCEPT ![c.id] = Append(@, c.offer)]
                /\ UNCHANGED canceling
           ELSE /\ live' = [q \in Ids |-> IF q \in hit THEN <<>> ELSE live[q]]
                /\ canceling' = canceling \cup hit
    /\ UNCHANGED <<desired, spent, local, closed, fills>>

Reject ==
    /\ wire # <<>> /\ Head(wire).op = "Place"
    /\ Spend("rejects")
    /\ wire' = Tail(wire)
    /\ closed' = [closed EXCEPT ![Head(wire).id] = "Rejected"]
    /\ UNCHANGED <<desired, local, live, canceling, fills>>

CancelEnds(q) ==
    /\ q \in canceling
    /\ canceling' = canceling \ {q}
    /\ closed' = [closed EXCEPT ![q] = "Canceled"]
    /\ UNCHANGED <<desired, wire, spent, local, live, fills>>

\* The oldest order of an id is filled; one filled whole is unknown from then on.
Fill(q, whole) ==
    /\ live[q] # <<>>
    /\ Spend("fills")
    /\ fills' = Append(fills, Head(live[q]))
    /\ IF whole THEN /\ live' = [live EXCEPT ![q] = Tail(@)]
                     /\ closed' = [closed EXCEPT ![q] = "None"]
                ELSE UNCHANGED <<live, closed>>
    /\ UNCHANGED <<desired, wire, local, canceling>>

\* The connection breaks: what was on it is lost.
Lose ==
    /\ wire # <<>>
    /\ Spend("losses")
    /\ wire' = <<>>
    /\ UNCHANGED <<desired, local, exchange>>

ExchangeStep == Accept \/ Reject \/ Lose \/ \E q \in Ids : CancelEnds(q) \/ \E b \in BOOLEAN : Fill(q, b)

Next ==
    \/ \E d \in Wanted : Desire(d)
    \/ Tick
    \/ \E snap \in Snapshots : Cycle(snap)
    \/ ExchangeStep

Spec == Init /\ [][Next]_vars

\* The clock runs, the exchange takes commands and ends cancellations, and its
\* full answer is asked for again and again.
FairSpec == /\ Spec
            /\ WF_vars(Tick)
            /\ WF_vars(Accept) /\ \A q \in Ids : WF_vars(CancelEnds(q))
            /\ SF_vars(Cycle(FullAnswer))

-----------------------------------------------------------------------------

TypeOK ==
    /\ desired \in [Ids -> Offers \cup {NoOffer}]
    /\ working \in [Ids -> [state : States, offer : Offers \cup {NoOffer}, age : 0..MaxAge]]
    /\ \A i \in DOMAIN wire : wire[i].op \in {"Place", "Cancel", "CancelAll"}
    /\ outcome \in [blocked : BOOLEAN, resync_required : BOOLEAN]
    /\ seen \subseteq DOMAIN fills
    /\ inventory \in [Kinds -> [filled_size : Nat, net_notional : Nat]]
    /\ live \in [Ids -> Seq(Offers)]
    /\ canceling \subseteq Ids
    /\ closed \in [Ids -> {"None", "Canceled", "Rejected"}]

\* The reconciliation never leaves two orders resting for one quote: a replaced
\* order is cancelled ahead of its successor, and an order in doubt is not
\* replaced before the exchange has answered for it.
OneOrderPerQuote == \A q \in Ids : Len(live[q]) <= 1

\* The inventory holds each fill that was reported once, however often reports
\* repeat it and though they come while reconciliation is blocked.
FillsCountOnce == inventory = Positions(NoInventory, seen)

\* An order that rests on the exchange is known here as one that may: no report,
\* absence, timeout or rejection makes the planner forget an order it would have
\* to cancel.
NoForgottenOrder ==
    \A q \in Ids : live[q] # <<>> => IsCancelable(working[q]) \/ BlocksConvergence(working[q])

Settled == spent.changes = MaxChanges

\* When the strategy has made up its mind, the exchange comes to hold exactly the
\* quotes it wants, through lost and rejected commands, fills, timeouts and doubt;
\* where no command was lost, at prices and sizes no change of which is material.
\* (A report carries no price: of a replacement that was lost, the planner believes
\* the new price.)
Converges ==
    <>[](Settled => \A q \in Ids :
            /\ (desired[q] # NoOffer) = (live[q] # <<>>)
            /\ live[q] # <<>> /\ spent.losses = 0 =>
                  ~IsMaterialChange(live[q][1], desired[q]))

\* Then the planner knows again and again, after every resynchronisation, that
\* what is wanted works: nothing stays pending, in doubt or blocked for ever.
TrustReturns ==
    []<>(Settled => /\ ~outcome.blocked
                    /\ \A q \in Ids : desired[q] # NoOffer => working[q].state = "Working")
=============================================================================
