------------------------------ MODULE Executor ------------------------------
(***************************************************************************)
(* pm-executor as a process: the execution loop on its own thread, the     *)
(* circuit breaker it shares with the health monitor, the state file both  *)
(* the monitor and main write, the shutdown sequence of main, and what a   *)
(* crash and a restart do to the trading limits.                           *)
(*                                                                         *)
(* The breaker's atomic steps are those of CircuitBreaker, called by the   *)
(* one execution thread; the savers' reads fall in between.  The rate      *)
(* limiter is a free choice here (module RateLimiter), and triggers come   *)
(* from a channel that always may or may not hold one (module              *)
(* TriggerPipeline).  alert_webhook_url is taken to be configured.         *)
(*                                                                         *)
(* A definition named X_Fault is X with a mistake the code could have made *)
(* in its place; no action uses it.                                        *)
(***************************************************************************)
EXTENDS Integers, FiniteSets

CONSTANTS
    Modes,          \* "dry", "signed" or "presigned": how orders are made
    PoolLen,        \* bodies in the pre-signed pool of mode "presigned"
    MaxOrders,      \* safety.max_orders
    MaxCents,       \* safety.max_usd_exposure, in cents
    Costs,          \* price * size of the triggers, in tenths of a cent
    ShortCosts,     \* see CircuitBreaker
    LossyCents,     \* cents c whose (c / 100.0 * 100.0) as u64 is c - 1
    DrainCoversSave,\* whether main's five seconds outlast a save in progress
    MaxRestarts,    \* bound: restarts of the process
    MaxSaveErrors   \* bound: saves that fail with an I/O error

ASSUME ModesAssumption == Modes \subseteq {"dry", "signed", "presigned"}
ASSUME PoolAssumption == PoolLen \in Nat \ {0}
ASSUME ExecutorLimits == /\ MaxOrders \in Nat /\ MaxCents \in Nat
                         /\ MaxRestarts \in Nat /\ MaxSaveErrors \in Nat
ASSUME ExecutorCosts == /\ Costs \subseteq Nat
                        /\ \A m \in ShortCosts : m >= 10
                        /\ LossyCents \subseteq Nat \ {0}
ASSUME DrainAssumption == DrainCoversSave \in BOOLEAN

VARIABLES
    \* the breaker, as in CircuitBreaker
    ordersFired, usdCents, tripped, call, cost,
    restored, granted, grantedCents, exposure, stragglers,
    \* the execution thread
    mode,       \* dry_run, and whether signer_params are given
    stage,      \* where the loop is
    inFlight,   \* the order guard
    cursor,     \* bodies of the pre-signed pool consumed
    \* the process
    up,         \* the process runs
    shutdown,   \* the watch channel and exec_shutdown
    main,       \* where main's shutdown sequence is
    saver,      \* where the health monitor and main are in saving the state
    file,       \* the state file
    \* history
    lastSaved,   \* orders_fired in the last save this process completed, or read
    earlier,     \* orders and cents granted by earlier processes
    alerted,     \* the webhook was called
    restarts, crashes, saveErrors

Exec == "exec"
Savers == {"health", "main"}

CB == INSTANCE CircuitBreaker
        WITH Callers <- {Exec}, Restored <- [orders : Nat, cents : Nat], pc <- call

breaker == <<ordersFired, usdCents, tripped, call, cost,
             restored, granted, grantedCents, exposure, stragglers>>
loop    == <<mode, stage, inFlight, cursor, alerted>>
process == <<up, shutdown, main>>
disk    == <<saver, file, lastSaved, saveErrors>>
ledger  == <<earlier, restarts, crashes>>
vars    == <<breaker, loop, process, disk, ledger>>

-----------------------------------------------------------------------------
(* The state file.  fs::write truncates the file and then writes it: a      *)
(* crash in between leaves a file that does not parse.                      *)

Contents == [orders : Nat, cents : Nat, tripped : BOOLEAN]
Missing  == [whole |-> FALSE, orders |-> 0, cents |-> 0, tripped |-> FALSE]
Whole(c) == [whole |-> TRUE, orders |-> c.orders, cents |-> c.cents,
             tripped |-> c.tripped]

\* Fault: the counters are not restored.
Load_Nothing == [orders |-> 0, cents |-> 0]

\* ExecutorState::load: the default when the file is missing or corrupt, which
\* is what Missing holds.
Load == [orders |-> file.orders, cents |-> file.cents]

\* Fault: whole dollars are saved.
SavedCents_Dollars(c) == 100 * (c \div 100)

\* stats() divides the cents by 100.0, the savers multiply by 100.0 and cast.
SavedCents(c) == IF c \in LossyCents THEN c - 1 ELSE c

Idle == [at |-> "idle", orders |-> 0, cents |-> 0, tripped |-> FALSE]

-----------------------------------------------------------------------------
(* Start of the process.                                                    *)

Init ==
    /\ mode \in Modes
    /\ CB!WithInitialCounts([orders |-> 0, cents |-> 0])
    /\ stage = "poll"
    /\ inFlight = FALSE
    /\ cursor = 0
    /\ up = TRUE
    /\ shutdown = FALSE
    /\ main = "running"
    /\ saver = [s \in Savers |-> Idle]
    /\ file = Missing
    /\ lastSaved = 0
    /\ earlier = [orders |-> 0, cents |-> 0]
    /\ alerted = FALSE
    /\ restarts = 0 /\ crashes = 0 /\ saveErrors = 0

\* The process starts again, with the same configuration, after it exited or
\* crashed: a restart while it is up stands for a crash at that point (kill -9, a
\* panic of main, loss of power) and the start that follows.  The counters come
\* from the file, the pre-signed bodies are signed anew.
Restart ==
    /\ restarts < MaxRestarts
    /\ restarts' = restarts + 1
    /\ crashes' = IF up THEN crashes + 1 ELSE crashes
    /\ earlier' = [orders |-> earlier.orders + granted,
                   cents  |-> earlier.cents + grantedCents]
    /\ CB!Rebuild(Load)
    /\ stage' = "poll"
    /\ inFlight' = FALSE
    /\ cursor' = 0
    /\ up' = TRUE
    /\ shutdown' = FALSE
    /\ main' = "running"
    /\ saver' = [s \in Savers |-> Idle]
    /\ lastSaved' = Load.orders
    /\ alerted' = FALSE
    /\ UNCHANGED <<mode, file, saveErrors>>

-----------------------------------------------------------------------------
(* The execution loop.                                                      *)

bodies == IF mode = "presigned" THEN PoolLen ELSE 0

\* Fault: the shutdown flag is not looked at.
StopAtShutdown_Never ==
    /\ up /\ stage = "poll" /\ shutdown
    /\ UNCHANGED vars

\* The loop condition, and the disconnected channel the bridges leave behind.
StopAtShutdown ==
    /\ up /\ stage = "poll" /\ shutdown
    /\ stage' = "stopped"
    /\ UNCHANGED <<breaker, mode, inFlight, cursor, alerted, process,
                   disk, ledger>>

\* A trigger is taken.  Stop with an alert when the breaker is tripped; drop it
\* when the limiter or the guard refuses; release the guard again in a dry run;
\* else enter check_and_record holding the guard.
TakeTrigger(m, underLimit) ==
    /\ up /\ stage = "poll" /\ ~shutdown
    /\ IF tripped
       THEN /\ stage' = "stopped"
            /\ alerted' = TRUE
            /\ UNCHANGED <<breaker, inFlight>>
       ELSE IF ~underLimit \/ inFlight \/ mode = "dry"
       THEN UNCHANGED <<breaker, stage, inFlight, alerted>>
       ELSE /\ inFlight' = TRUE
            /\ CB!LoadTripped(Exec, m)
            /\ stage' = "check"
            /\ UNCHANGED alerted
    /\ UNCHANGED <<mode, cursor, process, disk, ledger>>

\* check_and_record, one atomic access at a time.
CheckStep ==
    /\ up /\ stage = "check"
    /\ CB!CallStep(Exec)
    /\ UNCHANGED <<loop, process, disk, ledger>>

\* check_and_record returned Err: alert, release the guard, leave the loop.
Refused ==
    /\ up /\ stage = "check" /\ call[Exec] = "err"
    /\ alerted' = TRUE
    /\ inFlight' = FALSE
    /\ stage' = "stopped"
    /\ UNCHANGED <<breaker, mode, cursor, process, disk, ledger>>

\* Below a fifth of the pool the cursor goes back to the start.
Refilled(c) == IF bodies > 0 /\ bodies - c <= bodies \div 5 THEN 0 ELSE c

\* The dispatch did not enter the cold path: the guard is released, the response
\* logged, the pool refilled, and the loop goes on.
Settle(c) ==
    /\ inFlight' = FALSE
    /\ cursor' = Refilled(c)
    /\ stage' = "poll"
    /\ UNCHANGED <<breaker, mode, alerted>>

\* PreSignedOrderPool::dispatch moves the cursor past the body it takes.
Taken == IF mode = "presigned" /\ cursor < bodies THEN cursor + 1 ELSE cursor

\* The order is written on a connection.
Send ==
    /\ up /\ stage = "check" /\ call[Exec] = "ok"
    /\ mode = "signed" \/ cursor < bodies
    /\ cursor' = Taken
    /\ stage' = "wire"
    /\ UNCHANGED <<breaker, mode, inFlight, alerted, process, disk, ledger>>

\* Nothing reaches a connection: the order cannot be built or signed, the request
\* cannot be assembled, the pool of connections is empty, or that of bodies is.
Unsent ==
    /\ up /\ stage = "check" /\ call[Exec] = "ok"
    /\ Settle(Taken)
    /\ UNCHANGED <<process, disk, ledger>>

\* The exchange answers: accepted or refused, the response is only logged.
Answered ==
    /\ up /\ stage = "wire"
    /\ Settle(cursor)
    /\ UNCHANGED <<process, disk, ledger>>

\* Fault: the breaker is tripped but the loop not left.
ColdPath_NoBreak ==
    /\ up /\ stage = "wire"
    /\ inFlight' = FALSE
    /\ CB!Trip(Exec)
    /\ stage' = "poll"
    /\ UNCHANGED <<mode, cursor, alerted, process, disk, ledger>>

\* send_start or collect fails on the connection: the guard is released, the
\* breaker tripped, the loop left.
ColdPath ==
    /\ up /\ stage = "wire"
    /\ inFlight' = FALSE
    /\ CB!Trip(Exec)
    /\ stage' = "stopped"
    /\ UNCHANGED <<mode, cursor, alerted, process, disk, ledger>>

-----------------------------------------------------------------------------
(* Saving the state: health monitor and main run the same sequence.        *)

At(s, step) == up /\ saver[s].at = step

LoadOrders(s) ==
    /\ At(s, "stats")
    /\ saver' = [saver EXCEPT ![s].at = "usd", ![s].orders = ordersFired]
    /\ UNCHANGED <<file, lastSaved, saveErrors>>

LoadUsd(s) ==
    /\ At(s, "usd")
    /\ saver' = [saver EXCEPT ![s].at = "flag", ![s].cents = SavedCents(usdCents)]
    /\ UNCHANGED <<file, lastSaved, saveErrors>>

\* Fault: the flag is left at its default.
LoadFlag_Default(s) ==
    /\ At(s, "flag")
    /\ saver' = [saver EXCEPT ![s].at = "truncate"]
    /\ UNCHANGED <<file, lastSaved, saveErrors>>

LoadFlag(s) ==
    /\ At(s, "flag")
    /\ saver' = [saver EXCEPT ![s].at = "truncate", ![s].tripped = tripped]
    /\ UNCHANGED <<file, lastSaved, saveErrors>>

Truncate(s) ==
    /\ At(s, "truncate")
    /\ file' = Missing
    /\ saver' = [saver EXCEPT ![s].at = "write"]
    /\ UNCHANGED <<lastSaved, saveErrors>>

After(s) == IF s = "main" THEN "saved" ELSE "idle"

Write(s) ==
    /\ At(s, "write")
    /\ file' = Whole(saver[s])
    /\ lastSaved' = saver[s].orders
    /\ saver' = [saver EXCEPT ![s] = [Idle EXCEPT !.at = After(s)]]
    /\ UNCHANGED saveErrors

\* fs::write fails, before or after the truncation: the error is only logged.
WriteFails(s) ==
    /\ At(s, "truncate") \/ At(s, "write")
    /\ saveErrors < MaxSaveErrors
    /\ saveErrors' = saveErrors + 1
    /\ saver' = [saver EXCEPT ![s] = [Idle EXCEPT !.at = After(s)]]
    /\ UNCHANGED <<file, lastSaved>>

SaveStep(s) ==
    /\ \/ LoadOrders(s) \/ LoadUsd(s) \/ LoadFlag(s)
       \/ Truncate(s) \/ Write(s) \/ WriteFails(s)
    /\ UNCHANGED <<breaker, loop, process, ledger>>

\* The 30 s tick of the health monitor.
HealthTick ==
    /\ At("health", "idle")
    /\ saver' = [saver EXCEPT !["health"].at = "stats"]
    /\ UNCHANGED <<breaker, loop, process, file, lastSaved, saveErrors,
                   ledger>>

\* The monitor sees the shutdown: only between two saves.
HealthStop ==
    /\ At("health", "idle") /\ shutdown
    /\ saver' = [saver EXCEPT !["health"].at = "done"]
    /\ UNCHANGED <<breaker, loop, process, file, lastSaved, saveErrors,
                   ledger>>

-----------------------------------------------------------------------------
(* main: Ctrl+C, the drain, the join, the final save.                       *)

MainStep == UNCHANGED <<breaker, loop, file, lastSaved, saveErrors>>

CtrlC ==
    /\ up /\ main = "running"
    /\ shutdown' = TRUE
    /\ main' = "draining"
    /\ UNCHANGED <<up, saver, ledger>> /\ MainStep

\* Fault: the final save does not wait for a save in progress.
DrainEnds_AtOnce ==
    /\ up /\ main = "draining"
    /\ main' = "joining"
    /\ UNCHANGED <<up, shutdown, saver, ledger>> /\ MainStep

\* The five seconds pass: ws_handle, awaited first, never ends, so health_handle
\* is never awaited.  DrainCoversSave: five seconds outlast a save of the monitor.
DrainEnds ==
    /\ up /\ main = "draining"
    /\ DrainCoversSave => saver["health"].at = "done"
    /\ main' = "joining"
    /\ UNCHANGED <<up, shutdown, saver, ledger>> /\ MainStep

\* Fault: the execution thread is not joined.
Join_NoWait ==
    /\ up /\ main = "joining"
    /\ main' = "saving"
    /\ saver' = [saver EXCEPT !["main"].at = "stats"]
    /\ UNCHANGED <<up, shutdown, ledger>> /\ MainStep

\* exec_handle.join(), then the final save starts.
Join ==
    /\ up /\ main = "joining" /\ stage = "stopped"
    /\ main' = "saving"
    /\ saver' = [saver EXCEPT !["main"].at = "stats"]
    /\ UNCHANGED <<up, shutdown, ledger>> /\ MainStep

\* The runtime is dropped, which waits for the poll in progress: a save the
\* monitor has begun is finished first.
Exit ==
    /\ At("main", "saved") /\ saver["health"].at \in {"idle", "done"}
    /\ up' = FALSE
    /\ main' = "exited"
    /\ UNCHANGED <<shutdown, saver, ledger>> /\ MainStep

-----------------------------------------------------------------------------

ExecStep ==
    \/ StopAtShutdown
    \/ CheckStep
    \/ Refused
    \/ Send
    \/ Unsent
    \/ ColdPath
    \/ Answered

Next ==
    \/ \E m \in Costs, underLimit \in BOOLEAN : TakeTrigger(m, underLimit)
    \/ ExecStep
    \/ \E s \in Savers : SaveStep(s)
    \/ HealthTick \/ HealthStop
    \/ CtrlC \/ DrainEnds \/ Join \/ Exit
    \/ Restart

Spec == Init /\ [][Next]_vars

\* The execution thread and main's sequence run on, a connection answers or fails
\* in the end, the monitor ticks, and tokio::select! (which polls its branches in
\* random order) does not choose the tick over the shutdown for ever.  Triggers,
\* Ctrl+C, crashes and restarts are not fair.
FairSpec ==
    /\ Spec
    /\ WF_vars(ExecStep)
    /\ \A s \in Savers : WF_vars(SaveStep(s))
    /\ WF_vars(HealthTick) /\ SF_vars(HealthStop)
    /\ WF_vars(DrainEnds) /\ WF_vars(Join) /\ WF_vars(Exit)

-----------------------------------------------------------------------------

Steps == {"idle", "stats", "usd", "flag", "truncate", "write", "saved", "done"}

TypeOK ==
    /\ CB!TypeOK
    /\ mode \in Modes
    /\ stage \in {"poll", "check", "wire", "stopped"}
    /\ inFlight \in BOOLEAN
    /\ cursor \in 0..PoolLen
    /\ up \in BOOLEAN /\ shutdown \in BOOLEAN
    /\ main \in {"running", "draining", "joining", "saving", "exited"}
    /\ saver \in [Savers -> [at : Steps, orders : Nat, cents : Nat, tripped : BOOLEAN]]
    /\ file \in [whole : BOOLEAN, orders : Nat, cents : Nat, tripped : BOOLEAN]
    /\ lastSaved \in Nat
    /\ earlier \in [orders : Nat, cents : Nat]
    /\ alerted \in BOOLEAN
    /\ restarts \in 0..MaxRestarts /\ crashes \in 0..MaxRestarts
    /\ saveErrors \in 0..MaxSaveErrors

LifetimeOrders == earlier.orders + granted
LifetimeCents  == earlier.cents + grantedCents

\* Every save so far ended, and every process before this one ended by Ctrl+C.
Clean == crashes = 0 /\ saveErrors = 0

\* Every way out of an iteration of the loop releases the order guard it took:
\* a guard left held would drop every later trigger.
GuardReleased == stage \in {"poll", "stopped"} => ~inFlight

\* An order is on a connection only under the guard and only once
\* check_and_record has granted it on an untripped breaker.
WireIsGuarded ==
    stage = "wire" => inFlight /\ ~tripped /\ call[Exec] = "ok"

\* The loop never comes back for another trigger once the breaker has tripped,
\* whichever of its paths tripped it.
StopsAtTrip == tripped => stage \in {"check", "stopped"}

\* The pre-signed pool is refilled before it runs out: the loop never meets
\* PoolExhausted.
PoolNeverExhausted == mode = "presigned" /\ stage = "poll" => cursor < PoolLen

\* Restarts by Ctrl+C keep max_orders for the lifetime of the state file: the
\* counters saved are never behind the orders granted.
OrdersLimitSurvivesRestarts == Clean => LifetimeOrders <= MaxOrders

\* They keep the USD limit but for the cent each save may lose, which the next
\* process can spend again.
UsdLimitSurvivesRestarts == Clean => LifetimeCents <= MaxCents + restarts

\* What a process that shut down leaves on disk covers every order it granted,
\* and its trip.
FinalSaveCovers ==
    main = "exited" /\ saveErrors = 0 =>
        /\ file.whole
        /\ restored.orders + granted <= file.orders
        /\ file.tripped = tripped

\* Within a process the state on disk never goes back to fewer orders.
SavesNeverGoBack == [][restarts' = restarts => lastSaved <= lastSaved']_<<restarts, lastSaved>>

\* Ctrl+C always ends the process.
ShutdownCompletes == shutdown ~> ~(up /\ shutdown)

\* A trip reaches the state file, unless the process ends first.
TripReachesDisk == (up /\ tripped) ~> (file.tripped \/ ~up \/ ~tripped)
=============================================================================
