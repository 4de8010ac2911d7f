--------------------------- MODULE TriggerPipeline ---------------------------
(***************************************************************************)
(* The path of a trigger through pm-executor, from the feed to the order   *)
(* the execution loop sends: a broadcast channel of snapshots that drops   *)
(* the oldest, the task broadcast_to_mpsc, a bounded mpsc, the             *)
(* StrategyRunner, a second mpsc, the task mpsc_to_crossbeam, whose send   *)
(* blocks its tokio worker thread, a bounded crossbeam channel and the     *)
(* execution loop.                                                         *)
(* Every recv and every send is an action, and a task that stops drops its *)
(* two channel ends.                                                       *)
(*                                                                         *)
(* In the channels a snapshot is its number, and a trigger the number of   *)
(* the snapshot it was made from: a strategy makes at most one of each.    *)
(* What the strategy answers is in module Strategies, what an order is made *)
(* of in module Orders; the checks before an order and the answers to it   *)
(* are free choices here, and module Executor's.                           *)
(*                                                                         *)
(* A definition named X_Fault is X with a mistake the code could have made *)
(* in its place; no action uses it.                                        *)
(***************************************************************************)
EXTENDS Orders

CONSTANTS
    BroadcastCap,  \* snapshot_channel_capacity, a power of two
    SnapshotCap,   \* the mpsc of snapshots: 256
    TriggerCap,    \* the mpsc of triggers: 256
    ExecCap,       \* the crossbeam channel: 256
    Configs,       \* configurations, and tokio worker threads to run them
    Tops,          \* of each asset, the [bid, ask] its snapshots may have
    MaxSnapshots   \* bound: snapshots published

ASSUME PipelineAssumption ==
    /\ {BroadcastCap, SnapshotCap, TriggerCap, ExecCap} \subseteq Nat \ {0}
    /\ \A c \in Configs : c.workers \in Nat \ {0}
    /\ MaxSnapshots \in Nat

\* What the configured assets may be quoted at, and the texts of the configurations.
ASSUME TextsAssumption ==
    LET Texts == [form : STRING, units : Nat, places : Nat]
    IN  /\ \A c \in Configs : /\ ToSet(SubscribedAssets(c)) \subseteq DOMAIN Tops
                              /\ {c.strategy.size, c.strategy.param} \subseteq Texts
        /\ \A a \in DOMAIN Tops : Tops[a] \subseteq [bid : Texts, ask : Texts]

Tasks == {"bridge", "runner", "forward", "exec"}

VARIABLES
    config,        \* the configuration, its credentials those of the environment
    published,     \* snapshots sent on the broadcast channel
    cursor,        \* the next snapshot the bridge's receiver reads
    at,            \* where each task is: "recv", "send", "busy", "done"
    held,          \* what a task at "send" is sending
    snapshots,     \* mpsc, bridge to runner
    triggers,      \* mpsc, runner to forward
    ready,         \* crossbeam, forward to exec
    shutdown,      \* the watch channel
    execShutdown,  \* the flag of the execution loop
    fired,         \* history: triggers the strategy made
    taken,         \* history: triggers the execution loop took, in order
    sent           \* history: triggers whose orders it sent

queues   == <<snapshots, triggers, ready>>
signals  == <<shutdown, execShutdown>>
history  == <<fired, taken, sent>>
vars     == <<config, published, cursor, at, held, queues, signals, history>>

-----------------------------------------------------------------------------

Init ==
    /\ \E c \in Configs :
          config = [creds |-> Overridden(c.file, c.env), dryRun |-> c.dryRun,
                    strategy |-> c.strategy, feeRateBps |-> c.feeRateBps, negRisk |-> c.negRisk,
                    assetIds |-> c.assetIds, bindings |-> c.bindings, workers |-> c.workers]
    /\ Starts(config)
    /\ published = <<>>
    /\ cursor = 1
    /\ at = [t \in Tasks |-> "recv"]
    /\ held = [t \in Tasks |-> 0]
    /\ snapshots = <<>> /\ triggers = <<>> /\ ready = <<>>
    /\ shutdown = FALSE /\ execShutdown = FALSE
    /\ fired = {} /\ taken = <<>> /\ sent = {}

Done(t) == at[t] = "done"
MoveTo(t, step) == at' = [at EXCEPT ![t] = step]
Carry(t, x) == /\ at' = [at EXCEPT ![t] = "send"]
               /\ held' = [held EXCEPT ![t] = x]

\* crossbeam's send parks the thread, not the task.
Blocked == at["forward"] = "send" /\ Len(ready) = ExecCap /\ ~Done("exec")

\* A worker is free to poll another task.
CanPoll == Blocked => config.workers > 1

\* The oldest snapshot the broadcast channel still holds.
Oldest == IF Len(published) > BroadcastCap THEN Len(published) - BroadcastCap + 1 ELSE 1

TriggerOf(s) == MakeTrigger(config.strategy, published[s])

-----------------------------------------------------------------------------

\* The feed sends a snapshot of an asset it is subscribed to: never blocks,
\* overwrites the oldest.
Publish ==
    /\ CanPoll
    /\ Len(published) < MaxSnapshots
    /\ \E asset \in ToSet(SubscribedAssets(config)) : \E top \in Tops[asset] :
          published' = Append(published, [asset |-> asset, bid |-> top.bid, ask |-> top.ask])
    /\ UNCHANGED <<config, cursor, at, held, queues, signals, history>>

\* broadcast_rx.recv(): Lagged moves the receiver to the oldest snapshot held.
BridgeRecv ==
    /\ CanPoll /\ at["bridge"] = "recv" /\ cursor <= Len(published)
    /\ IF cursor < Oldest
       THEN cursor' = Oldest /\ UNCHANGED <<at, held>>
       ELSE cursor' = cursor + 1 /\ Carry("bridge", cursor)
    /\ UNCHANGED <<config, published, queues, signals, history>>

\* mpsc_tx.send(snapshot).await, inside the select! branch: a shutdown is not
\* looked at until it completes.
BridgeSend ==
    /\ CanPoll /\ at["bridge"] = "send"
    /\ IF Done("runner")
       THEN MoveTo("bridge", "done") /\ UNCHANGED snapshots
       ELSE /\ Len(snapshots) < SnapshotCap
            /\ snapshots' = Append(snapshots, held["bridge"])
            /\ MoveTo("bridge", "recv")
    /\ UNCHANGED <<config, published, cursor, held, triggers, ready, signals,
                   history>>

\* Fault: the bridge has no shutdown branch.
BridgeStop_Never ==
    /\ CanPoll /\ at["bridge"] = "recv" /\ shutdown
    /\ UNCHANGED vars

BridgeStop ==
    /\ CanPoll /\ at["bridge"] = "recv" /\ shutdown
    /\ MoveTo("bridge", "done")
    /\ UNCHANGED <<config, published, cursor, held, queues, signals, history>>

\* The runner takes a snapshot; the strategy makes a trigger of it or does not.
RunnerRecv(fires) ==
    /\ CanPoll /\ at["runner"] = "recv" /\ snapshots # <<>>
    /\ fires \in Fires(config.strategy, published[Head(snapshots)])
    /\ snapshots' = Tail(snapshots)
    /\ IF fires
       THEN /\ Carry("runner", Head(snapshots))
            /\ fired' = fired \cup {Head(snapshots)}
       ELSE UNCHANGED <<at, held, fired>>
    /\ UNCHANGED <<config, published, cursor, triggers, ready, signals, taken, sent>>

\* The snapshot channel is closed and empty.
RunnerEnd ==
    /\ CanPoll /\ at["runner"] = "recv" /\ snapshots = <<>> /\ Done("bridge")
    /\ MoveTo("runner", "done")
    /\ UNCHANGED <<config, published, cursor, held, queues, signals, history>>

\* trigger_tx.send(trigger).await.
RunnerSend ==
    /\ CanPoll /\ at["runner"] = "send"
    /\ IF Done("forward")
       THEN MoveTo("runner", "done") /\ UNCHANGED triggers
       ELSE /\ Len(triggers) < TriggerCap
            /\ triggers' = Append(triggers, held["runner"])
            /\ MoveTo("runner", "recv")
    /\ UNCHANGED <<config, published, cursor, held, snapshots, ready, signals,
                   history>>

\* Fault: triggers are forwarded in pairs.
ForwardRecv_Pairs ==
    /\ CanPoll /\ at["forward"] = "recv" /\ Len(triggers) > 1
    /\ Carry("forward", Head(triggers))
    /\ triggers' = Tail(triggers)
    /\ UNCHANGED <<config, published, cursor, snapshots, ready, signals,
                   history>>

\* mpsc_rx.recv() of mpsc_to_crossbeam.
ForwardRecv ==
    /\ CanPoll /\ at["forward"] = "recv" /\ triggers # <<>>
    /\ Carry("forward", Head(triggers))
    /\ triggers' = Tail(triggers)
    /\ UNCHANGED <<config, published, cursor, snapshots, ready, signals,
                   history>>

\* Fault: try_send in place of send.
ForwardSend_Try ==
    /\ at["forward"] = "send"
    /\ ready' = IF Len(ready) < ExecCap THEN Append(ready, held["forward"]) ELSE ready
    /\ MoveTo("forward", IF Done("exec") THEN "done" ELSE "recv")
    /\ UNCHANGED <<config, published, cursor, held, snapshots, triggers, signals,
                   history>>

\* crossbeam_tx.send(trigger), blocking: it fails when the loop has stopped.
ForwardSend ==
    /\ at["forward"] = "send"
    /\ IF Done("exec")
       THEN MoveTo("forward", "done") /\ UNCHANGED ready
       ELSE /\ Len(ready) < ExecCap
            /\ ready' = Append(ready, held["forward"])
            /\ MoveTo("forward", "recv")
    /\ UNCHANGED <<config, published, cursor, held, snapshots, triggers, signals,
                   history>>

\* The trigger channel is closed and empty, or the shutdown is seen.
ForwardStop ==
    /\ CanPoll /\ at["forward"] = "recv"
    /\ shutdown \/ (triggers = <<>> /\ Done("runner"))
    /\ MoveTo("forward", "done")
    /\ UNCHANGED <<config, published, cursor, held, queues, signals, history>>

\* Fault: a trigger that a check drops is left in the channel.
ExecTake_Peek ==
    /\ at["exec"] = "recv" /\ ~execShutdown /\ ready # <<>>
    /\ taken' = Append(taken, Head(ready))
    /\ \/ MoveTo("exec", "recv") /\ UNCHANGED ready
       \/ MoveTo("exec", "done") /\ ready' = Tail(ready)
    /\ UNCHANGED <<config, published, cursor, held, snapshots, triggers, signals,
                   fired, sent>>

\* try_recv.  A safety check may drop the trigger and, in a live run, the breaker
\* end the loop; a live trigger whose order cannot be built or signed is given up,
\* any other sent.
ExecTake ==
    /\ at["exec"] = "recv" /\ ~execShutdown /\ ready # <<>>
    /\ ready' = Tail(ready)
    /\ taken' = Append(taken, Head(ready))
    /\ \/ MoveTo("exec", "recv") /\ UNCHANGED sent
       \/ ~config.dryRun /\ MoveTo("exec", "done") /\ UNCHANGED sent
       \/ /\ ~config.dryRun /\ BuildsOrder(TriggerOf(Head(ready)))
          /\ MoveTo("exec", "busy")
          /\ sent' = sent \cup {Head(ready)}
    /\ UNCHANGED <<config, published, cursor, held, snapshots, triggers, signals,
                   fired>>

\* The exchange answers or the connection fails.
ExecAnswer(next) ==
    /\ at["exec"] = "busy"
    /\ MoveTo("exec", next)
    /\ UNCHANGED <<config, published, cursor, held, queues, signals, history>>

\* The flag, or a disconnected channel.
ExecStop ==
    /\ at["exec"] = "recv"
    /\ execShutdown \/ (ready = <<>> /\ Done("forward"))
    /\ MoveTo("exec", "done")
    /\ UNCHANGED <<config, published, cursor, held, queues, signals, history>>

\* Ctrl+C: main, on a thread of its own, sends on the watch channel and then sets
\* the flag of the loop.
CtrlC ==
    /\ ~shutdown
    /\ shutdown' = TRUE
    /\ UNCHANGED <<config, published, cursor, at, held, queues, execShutdown, history>>

FlagExec ==
    /\ shutdown /\ ~execShutdown
    /\ execShutdown' = TRUE
    /\ UNCHANGED <<config, published, cursor, at, held, queues, shutdown, history>>

BridgeStep  == BridgeRecv \/ BridgeSend
RunnerStep  == RunnerEnd \/ RunnerSend \/ \E fires \in BOOLEAN : RunnerRecv(fires)
ForwardStep == ForwardRecv \/ ForwardSend
ExecStep    == \/ ExecStop
               \/ ExecTake
               \/ \E next \in {"recv", "done"} : ExecAnswer(next)

Next ==
    \/ Publish
    \/ BridgeStep \/ BridgeStop
    \/ RunnerStep
    \/ ForwardStep \/ ForwardStop
    \/ ExecStep
    \/ CtrlC \/ FlagExec

Spec == Init /\ [][Next]_vars

\* Tasks that can be polled are polled, the execution thread runs and its order is
\* answered in the end, main goes on after Ctrl+C; select! does not prefer the
\* other branch for ever.  The feed, the strategy and Ctrl+C are not fair.
FairSpec ==
    /\ Spec
    /\ WF_vars(BridgeStep) /\ SF_vars(BridgeStop)
    /\ WF_vars(RunnerStep)
    /\ WF_vars(ForwardStep) /\ SF_vars(ForwardStop)
    /\ WF_vars(ExecStep)
    /\ WF_vars(FlagExec)

-----------------------------------------------------------------------------

TypeOK ==
    /\ published \in Seq(UNION {{[asset |-> a, bid |-> t.bid, ask |-> t.ask] : t \in Tops[a]} : a \in DOMAIN Tops})
    /\ Len(published) <= MaxSnapshots
    /\ cursor \in 1..(MaxSnapshots + 1)
    /\ at \in [Tasks -> {"recv", "send", "busy", "done"}]
    /\ held \in [Tasks -> 0..MaxSnapshots]
    /\ snapshots \in Seq(1..MaxSnapshots) /\ Len(snapshots) <= SnapshotCap
    /\ triggers \in Seq(1..MaxSnapshots) /\ Len(triggers) <= TriggerCap
    /\ ready \in Seq(1..MaxSnapshots) /\ Len(ready) <= ExecCap
    /\ shutdown \in BOOLEAN /\ execShutdown \in BOOLEAN
    /\ fired \subseteq 1..MaxSnapshots
    /\ taken \in Seq(1..MaxSnapshots) /\ sent \subseteq fired

Carried(t) == IF at[t] = "send" THEN <<held[t]>> ELSE <<>>

\* Triggers made and not taken, oldest first.
Pending == ready \o Carried("forward") \o triggers \o Carried("runner")

Increasing(s) == \A i, j \in 1..Len(s) : i < j => s[i] < s[j]

\* Whatever lags, blocks or stops, the loop acts on snapshots in the order they
\* were published, and on each at most once.
InOrder == Increasing(taken \o Pending \o snapshots \o Carried("bridge"))

\* A trigger once made is never dropped by a full channel or by a select! that
\* takes another branch: until the shutdown or the end of the loop it is taken or
\* on its way.
NothingLost ==
    ~shutdown /\ ~Done("exec") => fired = ToSet(taken) \cup ToSet(Pending)

\* An order bought or sold is one its snapshot called for: at most the price
\* of the side it crosses, to a base unit, for all of the configured size, at a
\* price within the strategy's parameter.  A spread between two snapshots' prices,
\* a swapped pair of amounts or a digit too many would show here (spread.rs:62,
\* clob_order.rs:185).
OrdersMatchBooks ==
    \A s \in sent :
        LET strategy == config.strategy
            order == OrderRequest(TriggerOf(s), config).body.order
            at6(text) == ValueAt(text, Decimals)
            ask == at6(published[s].ask) bid == at6(published[s].bid)
            size == at6(strategy.size) param == at6(strategy.param)
            price == IF strategy.side = "Buy" THEN ask ELSE bid
            usdc == IF strategy.side = "Buy" THEN order.makerAmount ELSE order.takerAmount
            tokens == IF strategy.side = "Buy" THEN order.takerAmount ELSE order.makerAmount
        IN  /\ tokens = size
            /\ usdc * Unit <= price * size /\ price * size < (usdc + 1) * Unit
            /\ IF strategy.kind = "spread" THEN ask - bid <= param
               ELSE IF strategy.side = "Buy" THEN ask <= param ELSE bid >= param

\* The breaker counts a trigger with f64, the order is made with fixed-point
\* integers from the same two texts: what it counts is what the order moves, to
\* less than two cents either way (safety.rs:68, clob_order.rs:100).
CountCoversOrder ==
    \A s \in sent :
        LET usdc == UsdcAmount(TriggerOf(s).price, TriggerOf(s).size)
        IN  \A cents \in CentsCounted(TriggerOf(s)) :
                cents * Cent - 2 * Cent < usdc /\ usdc < cents * Cent + 2 * Cent

\* "POLY_ADDRESS (EOA, used in HMAC headers)" (ARCHITECTURE.md:559): a request is
\* authenticated in the name of the address its order is signed by.
AuthNamesSigner ==
    \A s \in sent :
        LET request == OrderRequest(TriggerOf(s), config)
        IN  request.headers.address = request.body.order.signer

\* Ctrl+C ends the tasks and the loop, even with one worker thread and a bridge
\* that blocks it: the loop that stops frees the bridge, the bridge the runner, and
\* the runner the bridge before it.
ShutdownCascades == shutdown ~> \A t \in Tasks : Done(t)

\* A trigger that was made reaches the loop, unless the loop ends.
TriggersArrive ==
    \A s \in 1..MaxSnapshots :
        s \in fired ~> (s \in ToSet(taken) \/ Done("exec") \/ shutdown)
=============================================================================
