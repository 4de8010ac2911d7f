--------------------------- MODULE Executor_proofs ---------------------------
(***************************************************************************)
(* Theorems about Executor, for any limits, costs and modes and any number *)
(* of restarts, crashes and failing saves.  What the breaker promises one  *)
(* process is taken from CircuitBreaker_proofs, for its single caller.     *)
(***************************************************************************)
EXTENDS Executor, FiniteSetTheorems, TLAPS

CBP == INSTANCE CircuitBreaker_proofs
        WITH Callers <- {Exec}, Restored <- [orders : Nat, cents : Nat], pc <- call

Loaded == {"usd", "flag", "truncate", "write"}

\* The loop: a guard is held exactly from the trigger to the end of its order,
\* and whenever the loop may go on the breaker is not tripped.
LoopInv ==
    /\ inFlight <=> stage \in {"check", "wire"}
    /\ stage # "check" => call[Exec] \in {"idle", "ok", "err"}
    /\ stage = "wire" => call[Exec] = "ok"
    /\ stage # "stopped" => (tripped => stage = "check" /\ call[Exec] = "err")

\* main saves last, once the loop has stopped and, if the drain covers a save,
\* the health monitor has.
ShutdownInv ==
    /\ saver["main"].at = "idle" <=> main \in {"running", "draining", "joining"}
    /\ saver["main"].at # "done" /\ saver["health"].at # "saved"
    /\ main \in {"saving", "exited"} => stage = "stopped"
    /\ main = "exited" => saver["main"].at = "saved"
    /\ ~up => main = "exited"
    /\ DrainCoversSave /\ main \in {"joining", "saving", "exited"} =>
            saver["health"].at = "done"

\* What a saver has read is not older than the last save and not ahead of the
\* counter; main, after the loop, reads the last values.
SaveInv == DrainCoversSave =>
    /\ \A s \in Savers : saver[s].at \in Loaded =>
            lastSaved <= saver[s].orders /\ saver[s].orders <= ordersFired
    /\ lastSaved <= ordersFired
    /\ saver["main"].at \in Loaded => saver["main"].orders = ordersFired
    /\ saver["main"].at \in Loaded \ {"usd"} =>
            saver["main"].cents = SavedCents(usdCents)
    /\ saver["main"].at \in {"truncate", "write"} => saver["main"].tripped = tripped
    /\ saver["main"].at = "saved" /\ saveErrors = 0 =>
            /\ file.whole
            /\ file.orders = ordersFired
            /\ file.cents = SavedCents(usdCents)
            /\ file.tripped = tripped

\* The counters a clean restart begins with cover all earlier grants.
LedgerInv == DrainCoversSave /\ Clean =>
    /\ earlier.orders <= restored.orders
    /\ earlier.orders + granted <= MaxOrders
    /\ earlier.cents <= restored.cents + restarts
    /\ earlier.cents + grantedCents <= MaxCents + restarts

IInv == CBP!IInv /\ TypeOK /\ LoopInv /\ ShutdownInv /\ SaveInv /\ LedgerInv
        /\ crashes <= restarts

-----------------------------------------------------------------------------
(* The breaker.                                                             *)

\* Executor's assumptions are those CircuitBreaker makes.
LEMMA BreakerAssumptions ==
    /\ CBP!CallersAssumption /\ CBP!LimitsAssumption
    /\ CBP!CostsAssumption /\ CBP!RestoredAssumption
<1>1. CBP!CallersAssumption
  BY FS_Singleton DEF CBP!CallersAssumption, CBP!IsFiniteSet, IsFiniteSet
<1>2. CBP!LimitsAssumption
  BY ExecutorLimits DEF CBP!LimitsAssumption
<1>3. CBP!CostsAssumption
  BY ExecutorCosts DEF CBP!CostsAssumption
<1>4. CBP!RestoredAssumption
  BY DEF CBP!RestoredAssumption
<1>5. QED
  BY <1>1, <1>2, <1>3, <1>4

\* The invariant of the breaker speaks of Executor's own instance of it.
LEMMA BreakerPromises ==
    CBP!IInv => /\ CB!TypeOK
                /\ CB!OrdersWithinLimit
                /\ CB!UsdWithinLimit
                /\ CB!CountersCoverGrants
<1>1. CBP!IInv => CBP!TypeOK
  BY DEF CBP!IInv
<1>2. QED
  BY <1>1, BreakerAssumptions, CBP!InvLimits
     DEF CB!TypeOK, CBP!TypeOK, CB!Resting, CBP!Resting, CB!Calling, CBP!Calling,
         CB!OrdersWithinLimit, CBP!OrdersWithinLimit,
         CB!UsdWithinLimit, CBP!UsdWithinLimit,
         CB!CountersCoverGrants, CBP!CountersCoverGrants

\* A process starts with the breaker as its constructor leaves it.
LEMMA BreakerInit ==
    ASSUME NEW r \in [orders : Nat, cents : Nat], CB!WithInitialCounts(r)
    PROVE  CBP!Init
BY DEF CB!WithInitialCounts, CBP!Init, CBP!WithInitialCounts

\* Within a process, every step is one of the breaker or leaves it alone.
LEMMA BreakerStep == [Next]_vars => [CBP!Next]_(CBP!vars) \/ Restart
<1> SUFFICES ASSUME [Next]_vars, ~Restart
             PROVE  [CBP!Next]_(CBP!vars)
  OBVIOUS
<1>1. ASSUME NEW m \in Costs, CB!LoadTripped(Exec, m)
      PROVE  CBP!Next
  BY <1>1 DEF CB!LoadTripped, CBP!LoadTripped, CBP!Next, CB!Resting, CBP!Resting,
              CB!flags, CBP!flags, CB!history, CBP!history
<1>2. ASSUME CB!CallStep(Exec) \/ CB!Trip(Exec)
      PROVE  CBP!Next
  <2>1. CASE CB!FireOrder(Exec)
    BY <2>1 DEF CB!FireOrder, CBP!FireOrder, CBP!Next, CB!history, CBP!history
  <2>2. CASE CB!CommitUsd(Exec)
    BY <2>2 DEF CB!CommitUsd, CBP!CommitUsd, CBP!Next, CB!Granted, CBP!Granted,
                CB!CentsOf, CBP!CentsOf, CB!history, CBP!history
  <2>3. CASE CB!StoreTripped(Exec)
    BY <2>3 DEF CB!StoreTripped, CBP!StoreTripped, CBP!Next, CB!SetTripped,
                CBP!SetTripped, CB!InCall, CBP!InCall, CB!Calling, CBP!Calling
  <2>4. CASE CB!Trip(Exec)
    BY <2>4 DEF CB!Trip, CBP!Trip, CBP!Next, CB!SetTripped, CBP!SetTripped,
                CB!InCall, CBP!InCall, CB!Calling, CBP!Calling, CB!Resting, CBP!Resting
  <2>5. QED
    BY <1>2, <2>1, <2>2, <2>3, <2>4 DEF CB!CallStep
<1>3. UNCHANGED breaker => UNCHANGED CBP!vars
  BY DEF breaker, CBP!vars, CBP!flags, CBP!history
<1>4. CASE UNCHANGED vars
  BY <1>3, <1>4 DEF vars
<1>5. ASSUME NEW m \in Costs, NEW underLimit \in BOOLEAN, TakeTrigger(m, underLimit)
      PROVE  [CBP!Next]_(CBP!vars)
  BY <1>1, <1>3, <1>5 DEF TakeTrigger
<1>6. CASE ExecStep
  BY <1>2, <1>3, <1>6
     DEF ExecStep, StopAtShutdown, CheckStep, Refused, Send, Unsent, Settle, ColdPath,
         Answered
<1>7. ASSUME NEW s \in Savers, SaveStep(s)
      PROVE  [CBP!Next]_(CBP!vars)
  BY <1>3, <1>7 DEF SaveStep
<1>8. CASE HealthTick \/ HealthStop \/ CtrlC \/ DrainEnds \/ Join \/ Exit
  BY <1>3, <1>8 DEF HealthTick, HealthStop, CtrlC, DrainEnds, Join, Exit, MainStep
<1>9. QED
  BY <1>4, <1>5, <1>6, <1>7, <1>8 DEF Next

\* ExecutorState::load always yields counters.
LEMMA RestartLoads ==
    ASSUME TypeOK
    PROVE  Load \in [orders : Nat, cents : Nat]
BY DEF TypeOK, Load

\* The breaker keeps its invariant, a restart included.
LEMMA BreakerInv == CBP!IInv /\ TypeOK /\ [Next]_vars => CBP!IInv'
<1>1. CBP!Init => CBP!IInv
  BY BreakerAssumptions, CBP!InvInit
<1>2. (CBP!Init)' => CBP!IInv'
  BY <1>1, PTL
<1> SUFFICES ASSUME CBP!IInv, TypeOK, [Next]_vars
             PROVE  CBP!IInv'
  OBVIOUS
<1>3. CASE Restart
  <2>1. (CBP!Init)'
    BY <1>3, RestartLoads DEF Restart, CB!Rebuild, CBP!Init, CBP!WithInitialCounts
  <2>2. QED
    BY <1>2, <2>1
<1>4. CASE [CBP!Next]_(CBP!vars)
  BY <1>4, BreakerAssumptions, CBP!InvStep
<1>5. QED
  BY <1>3, <1>4, BreakerStep

-----------------------------------------------------------------------------
(* Types.                                                                   *)

\* The initial states satisfy the inductive invariant.
LEMMA InitInv == Init => IInv
<1> SUFFICES ASSUME Init
             PROVE  IInv
  OBVIOUS
<1> DEFINE zero == [orders |-> 0, cents |-> 0]
<1>1. zero \in [orders : Nat, cents : Nat] /\ CB!WithInitialCounts(zero)
  BY DEF Init
<1>2. CBP!IInv
  BY <1>1, BreakerInit, BreakerAssumptions, CBP!InvInit
<1>3. TypeOK
  <2>1. CB!TypeOK
    BY <1>2, BreakerPromises
  <2>2. saver \in [Savers -> [at : Steps, orders : Nat, cents : Nat, tripped : BOOLEAN]]
    BY DEF Init, Idle, Steps
  <2>3. 0 \in 0..PoolLen /\ 0 \in 0..MaxRestarts /\ 0 \in 0..MaxSaveErrors
    BY PoolAssumption, ExecutorLimits
  <2>4. QED
    BY <2>1, <2>2, <2>3 DEF Init, TypeOK, Missing
<1>4. call[Exec] = "idle" /\ tripped = FALSE /\ ordersFired = 0 /\ granted = 0
      /\ restored.orders = 0 /\ restored.cents = 0 /\ grantedCents = 0
  BY DEF Init, CB!WithInitialCounts
<1>5. LoopInv /\ ShutdownInv
  BY <1>4 DEF Init, LoopInv, ShutdownInv, Savers, Idle
<1>6. SaveInv /\ LedgerInv /\ crashes <= restarts
  BY <1>4, ExecutorLimits DEF Init, SaveInv, LedgerInv, Savers, Idle, Loaded
<1>7. QED
  BY <1>2, <1>3, <1>5, <1>6 DEF IInv

\* Every step keeps the types.
LEMMA TypeStep == IInv /\ [Next]_vars => TypeOK'
<1>a. CBP!IInv => CB!TypeOK
  BY BreakerPromises
<1>b. CBP!IInv' => CB!TypeOK'
  BY <1>a, PTL
<1> SUFFICES ASSUME IInv, [Next]_vars
             PROVE  TypeOK'
  OBVIOUS
<1> USE DEF IInv
<1>1. CB!TypeOK'
  BY <1>b, BreakerInv
<1> USE <1>1 DEF TypeOK, breaker, loop, process, disk, ledger
<1>2. ASSUME NEW m \in Costs, NEW underLimit \in BOOLEAN, TakeTrigger(m, underLimit)
      PROVE  TypeOK'
  BY <1>2 DEF TakeTrigger
<1>3. CASE StopAtShutdown \/ CheckStep \/ Refused
  BY <1>3 DEF StopAtShutdown, CheckStep, Refused
<1>4. Taken \in 0..PoolLen /\ \A c \in 0..PoolLen : Refilled(c) \in 0..PoolLen
  BY PoolAssumption DEF Taken, Refilled, bodies
<1>5. CASE Send \/ Unsent \/ ColdPath \/ Answered
  BY <1>4, <1>5 DEF Send, Unsent, Settle, ColdPath, Answered
<1> DEFINE Saving == [Savers -> [at : Steps, orders : Nat, cents : Nat,
                                tripped : BOOLEAN]]
<1>6. ASSUME NEW s \in Savers, SaveStep(s)
      PROVE  TypeOK'
  <2>1. /\ SavedCents(usdCents) \in Nat
        /\ ordersFired \in Nat /\ tripped \in BOOLEAN
    BY ExecutorCosts DEF SavedCents, CB!TypeOK
  <2>2. [Idle EXCEPT !.at = After(s)] \in [at : Steps, orders : Nat, cents : Nat,
                                           tripped : BOOLEAN]
    BY DEF Idle, After, Steps
  <2>3. saver' \in Saving
    BY <1>6, <2>1, <2>2
       DEF SaveStep, LoadOrders, LoadUsd, LoadFlag, Truncate, Write, WriteFails, Steps
  <2>4. saver[s].orders \in Nat /\ saver[s].cents \in Nat /\ saver[s].tripped \in BOOLEAN
    OBVIOUS
  <2>5. /\ file' \in [whole : BOOLEAN, orders : Nat, cents : Nat, tripped : BOOLEAN]
        /\ lastSaved' \in Nat
        /\ saveErrors' \in 0..MaxSaveErrors
    <3>1. saveErrors' \in 0..MaxSaveErrors
      BY <1>6, ExecutorLimits
         DEF SaveStep, LoadOrders, LoadUsd, LoadFlag, Truncate, Write, WriteFails
    <3>2. /\ file' \in {file, Missing, Whole(saver[s])}
          /\ lastSaved' \in {lastSaved, saver[s].orders}
      BY <1>6
         DEF SaveStep, LoadOrders, LoadUsd, LoadFlag, Truncate, Write, WriteFails
    <3>3. /\ Missing \in [whole : BOOLEAN, orders : Nat, cents : Nat, tripped : BOOLEAN]
          /\ Whole(saver[s])
                 \in [whole : BOOLEAN, orders : Nat, cents : Nat, tripped : BOOLEAN]
      BY <2>4 DEF Missing, Whole
    <3>4. QED
      BY <2>4, <3>1, <3>2, <3>3
  <2>6. QED
    BY <1>6, <2>3, <2>5 DEF SaveStep
<1>7. CASE HealthTick \/ HealthStop
  BY <1>7 DEF HealthTick, HealthStop, At, Steps
<1>8. CASE CtrlC \/ DrainEnds \/ Join \/ Exit
  <2>1. saver' \in Saving
    BY <1>8 DEF CtrlC, DrainEnds, Join, Exit, Steps
  <2>2. QED
    BY <1>8, <2>1 DEF CtrlC, DrainEnds, Join, Exit, MainStep
<1>9. CASE Restart
  <2>1. Load \in [orders : Nat, cents : Nat]
    BY RestartLoads
  <2>2. granted \in Nat /\ grantedCents \in Nat
    BY DEF CB!TypeOK
  <2>3. saver' \in Saving
    BY <1>9 DEF Restart, Idle, Steps
  <2>4. earlier' \in [orders : Nat, cents : Nat] /\ lastSaved' \in Nat
    BY <1>9, <2>1, <2>2 DEF Restart
  <2>5. restarts' \in 0..MaxRestarts /\ crashes' \in 0..MaxRestarts /\ 0 \in 0..PoolLen
    BY <1>9, PoolAssumption, ExecutorLimits DEF Restart
  <2>6. QED
    BY <1>9, <2>3, <2>4, <2>5 DEF Restart
<1>10. CASE UNCHANGED vars
  BY <1>10 DEF vars
<1>11. QED
  BY <1>2, <1>3, <1>5, <1>6, <1>7, <1>8, <1>9, <1>10 DEF Next, ExecStep

-----------------------------------------------------------------------------
(* The execution loop.                                                      *)

\* Every way through an iteration releases the guard and halts at a trip.
LEMMA LoopStep == IInv /\ [Next]_vars => LoopInv'
<1> SUFFICES ASSUME IInv, [Next]_vars
             PROVE  LoopInv'
  OBVIOUS
<1>1. call \in [{Exec} -> CB!Resting \cup CB!Calling]
  BY DEF IInv, TypeOK, CB!TypeOK
<1> USE <1>1 DEF LoopInv, breaker, loop, CB!Resting, CB!Calling
<1>2. TypeOK /\ LoopInv
  BY DEF IInv
<1>3. ASSUME NEW m \in Costs, NEW underLimit \in BOOLEAN, TakeTrigger(m, underLimit)
      PROVE  LoopInv'
  BY <1>2, <1>3 DEF TakeTrigger, CB!LoadTripped, CB!flags
<1>4. CASE CheckStep
  BY <1>2, <1>4
     DEF CheckStep, CB!CallStep, CB!FireOrder, CB!CommitUsd, CB!Granted,
         CB!StoreTripped, CB!SetTripped
<1>5. CASE StopAtShutdown \/ Refused \/ Send
  BY <1>2, <1>5 DEF StopAtShutdown, Refused, Send
<1>6. CASE Unsent \/ Answered
  BY <1>2, <1>6 DEF Unsent, Answered, Settle
<1>7. CASE ColdPath
  BY <1>2, <1>7 DEF ColdPath, CB!Trip
<1>8. CASE UNCHANGED <<breaker, loop>>
  BY <1>2, <1>8
<1>9. CASE (\E s \in Savers : SaveStep(s)) \/ HealthTick \/ HealthStop
  BY <1>8, <1>9 DEF SaveStep, HealthTick, HealthStop
<1>10. CASE CtrlC \/ DrainEnds \/ Join \/ Exit \/ UNCHANGED vars
  BY <1>8, <1>10 DEF CtrlC, DrainEnds, Join, Exit, MainStep, vars
<1>11. CASE Restart
  BY <1>11 DEF Restart, CB!Rebuild
<1>12. QED
  BY <1>3, <1>4, <1>5, <1>6, <1>7, <1>9, <1>10, <1>11 DEF Next, ExecStep

-----------------------------------------------------------------------------
(* Shutdown.                                                                *)

\* Drain, join, save and exit keep their order.
LEMMA ShutdownStep == IInv /\ [Next]_vars => ShutdownInv'
<1> SUFFICES ASSUME IInv, [Next]_vars
             PROVE  ShutdownInv'
  OBVIOUS
<1>1. /\ TypeOK /\ ShutdownInv
      /\ "main" \in Savers /\ "health" \in Savers
      /\ saver \in [Savers -> [at : Steps, orders : Nat, cents : Nat, tripped : BOOLEAN]]
  BY DEF IInv, TypeOK, Savers
<1>2. ASSUME NEW m \in Costs, NEW underLimit \in BOOLEAN, TakeTrigger(m, underLimit)
      PROVE  ShutdownInv'
  BY <1>1, <1>2 DEF TakeTrigger, ShutdownInv, process, disk
<1>3. CASE ExecStep
  BY <1>1, <1>3
     DEF ExecStep, StopAtShutdown, CheckStep, Refused, Send, Unsent, Settle, ColdPath,
         Answered, ShutdownInv, loop, process, disk
<1>4. ASSUME NEW s \in Savers, SaveStep(s)
      PROVE  ShutdownInv'
  BY <1>1, <1>4
     DEF SaveStep, At, LoadOrders, LoadUsd, LoadFlag, Truncate, Write, WriteFails, After,
         Idle, ShutdownInv, loop, process, Savers
<1>5. CASE HealthTick \/ HealthStop
  BY <1>1, <1>5 DEF HealthTick, HealthStop, At, ShutdownInv, loop, process
<1>6. CASE CtrlC \/ DrainEnds \/ Join \/ Exit
  <2>1. CASE CtrlC \/ DrainEnds
    BY <1>1, <2>1 DEF CtrlC, DrainEnds, MainStep, ShutdownInv, loop
  <2>2. CASE Join
    BY <1>1, <2>2 DEF Join, MainStep, ShutdownInv, loop
  <2>3. CASE Exit
    <3>1. saver["main"].at = "saved" /\ main' = "exited" /\ up' = FALSE
          /\ UNCHANGED <<saver, stage>>
      BY <2>3 DEF Exit, MainStep, At, loop
    <3>2. main \in {"saving", "exited"} /\ stage = "stopped"
      BY <1>1, <3>1 DEF ShutdownInv, TypeOK
    <3>3. DrainCoversSave => saver["health"].at = "done"
      BY <1>1, <3>2 DEF ShutdownInv
    <3>4. QED
      BY <1>1, <3>1, <3>2, <3>3 DEF ShutdownInv
  <2>4. QED
    BY <1>6, <2>1, <2>2, <2>3
<1>7. CASE Restart
  BY <1>1, <1>7 DEF Restart, ShutdownInv, Idle
<1>8. CASE UNCHANGED vars
  BY <1>1, <1>8 DEF vars, loop, process, disk, ShutdownInv
<1>9. QED
  BY <1>2, <1>3, <1>4, <1>5, <1>6, <1>7, <1>8 DEF Next

-----------------------------------------------------------------------------
(* Saves.                                                                   *)

\* Main and the monitor never save at the same time.
LEMMA OneSaver ==
    ASSUME IInv, DrainCoversSave, saver["main"].at \in Loaded \cup {"stats"}
    PROVE  stage = "stopped" /\ saver["health"].at = "done"
BY DEF IInv, ShutdownInv, TypeOK, Loaded

\* The counter never goes down within a process, and it and the flag stand still
\* once the loop has stopped.
LEMMA Counting ==
    ASSUME IInv, [Next]_vars, ~Restart
    PROVE  /\ ordersFired \in Nat /\ ordersFired' \in Nat
           /\ ordersFired <= ordersFired'
           /\ stage = "stopped" => UNCHANGED <<ordersFired, usdCents, tripped>>
<1>1. ordersFired \in Nat
  BY DEF IInv, TypeOK, CB!TypeOK
<1>2. ASSUME NEW m \in Costs, NEW underLimit \in BOOLEAN, TakeTrigger(m, underLimit)
      PROVE  UNCHANGED ordersFired /\ stage # "stopped"
  BY <1>2 DEF TakeTrigger, CB!LoadTripped, CB!flags, breaker
<1>3. CASE CheckStep
  BY <1>1, <1>3
     DEF CheckStep, CB!CallStep, CB!FireOrder, CB!CommitUsd, CB!Granted,
         CB!StoreTripped, CB!SetTripped, CB!history
<1>4. CASE StopAtShutdown \/ Refused \/ Send \/ Unsent \/ Answered \/ ColdPath
  BY <1>1, <1>4
     DEF StopAtShutdown, Refused, Send, Unsent, Settle, Answered, ColdPath, CB!Trip,
         CB!SetTripped, breaker
<1>5. ASSUME NEW s \in Savers, SaveStep(s)
      PROVE  UNCHANGED <<ordersFired, usdCents, tripped>>
  BY <1>5 DEF SaveStep, breaker
<1>6. CASE HealthTick \/ HealthStop \/ CtrlC \/ DrainEnds \/ Join \/ Exit
           \/ UNCHANGED vars
  BY <1>1, <1>6
     DEF HealthTick, HealthStop, CtrlC, DrainEnds, Join, Exit, MainStep, breaker, vars
<1>7. QED
  BY <1>1, <1>2, <1>3, <1>4, <1>5, <1>6 DEF Next, ExecStep

\* Steps that leave the savers and the disk alone.
LEMMA SaveKept ==
    ASSUME IInv, [Next]_vars, ~Restart, UNCHANGED disk
    PROVE  SaveInv'
<1> SUFFICES ASSUME DrainCoversSave
             PROVE  SaveInv'
  BY DEF SaveInv
<1>1. /\ ordersFired \in Nat /\ ordersFired' \in Nat /\ lastSaved \in Nat
      /\ \A s \in Savers : saver[s].orders \in Nat
      /\ ordersFired <= ordersFired'
      /\ stage = "stopped" => UNCHANGED <<ordersFired, usdCents, tripped>>
  BY Counting DEF IInv, TypeOK
<1>2. saver["main"].at \in Loaded \cup {"saved"} => stage = "stopped"
  BY DEF IInv, ShutdownInv, TypeOK, Loaded
<1>3. QED
  BY <1>1, <1>2 DEF IInv, SaveInv, disk, Loaded

\* Saves interleaved with orders keep what savers hold between disk and counter.
LEMMA SaveInvStep == IInv /\ [Next]_vars => SaveInv'
<1> SUFFICES ASSUME IInv, [Next]_vars, DrainCoversSave
             PROVE  SaveInv'
  BY DEF SaveInv
<1>1. /\ "main" \in Savers /\ "health" \in Savers
      /\ saver \in [Savers -> [at : Steps, orders : Nat, cents : Nat, tripped : BOOLEAN]]
      /\ lastSaved \in Nat /\ ordersFired \in Nat /\ tripped \in BOOLEAN
      /\ file.orders \in Nat /\ saveErrors \in Nat
  BY DEF IInv, TypeOK, CB!TypeOK, Savers
<1>2. SaveInv /\ ShutdownInv
  BY DEF IInv
<1>3. ASSUME NEW s \in Savers, SaveStep(s)
      PROVE  SaveInv'
  <2>1. UNCHANGED <<ordersFired, usdCents, tripped>>
        /\ SavedCents(usdCents') = SavedCents(usdCents)
    BY <1>3 DEF SaveStep, breaker, SavedCents
  <2>2. up /\ saver[s].at \in Loaded \cup {"stats"}
    BY <1>3
       DEF SaveStep, At, Loaded, LoadOrders, LoadUsd, LoadFlag, Truncate, Write, WriteFails
  <2>3. s = "main" => saver["health"].at = "done"
    BY <2>2, OneSaver
  <2>4. s = "health" => saver["main"].at = "idle"
    BY <2>2, <1>1, <1>2 DEF ShutdownInv, IInv, TypeOK, Loaded
  <2>5. CASE LoadOrders(s)
    BY <1>1, <1>2, <2>1, <2>3, <2>4, <2>5 DEF LoadOrders, At, SaveInv, Loaded, Savers
  <2>6. CASE LoadUsd(s) \/ LoadFlag(s)
    BY <1>1, <1>2, <2>1, <2>3, <2>4, <2>6
       DEF LoadUsd, LoadFlag, At, SaveInv, Loaded, Savers
  <2>7. CASE Truncate(s)
    BY <1>1, <1>2, <2>1, <2>3, <2>4, <2>7 DEF Truncate, At, SaveInv, Loaded, Savers
  <2>8. CASE Write(s)
    BY <1>1, <1>2, <2>1, <2>3, <2>4, <2>8
       DEF Write, At, After, Whole, Idle, SaveInv, Loaded, Savers
  <2>9. CASE WriteFails(s)
    BY <1>1, <1>2, <2>1, <2>3, <2>4, <2>9
       DEF WriteFails, At, After, Idle, SaveInv, Loaded, Savers
  <2>10. QED
    BY <1>3, <2>5, <2>6, <2>7, <2>8, <2>9 DEF SaveStep
<1>4. CASE HealthTick \/ HealthStop
  BY <1>1, <1>2, <1>4 DEF HealthTick, HealthStop, At, SaveInv, Loaded, Savers, breaker
<1>5. CASE Join
  BY <1>1, <1>2, <1>5
     DEF Join, MainStep, SaveInv, ShutdownInv, Loaded, Savers, breaker
<1>6. CASE Restart
  <2>1. Load.orders = file.orders
    BY DEF Load
  <2>2. QED
    BY <1>1, <1>6, <2>1 DEF Restart, CB!Rebuild, SaveInv, Loaded, Idle, Savers
<1>7. ASSUME NEW m \in Costs, NEW underLimit \in BOOLEAN, TakeTrigger(m, underLimit)
      PROVE  UNCHANGED disk
  BY <1>7 DEF TakeTrigger
<1>8. CASE ExecStep
  BY <1>6, <1>8, SaveKept
     DEF ExecStep, StopAtShutdown, CheckStep, Refused, Send, Unsent, ColdPath, Answered
<1>9. CASE CtrlC \/ DrainEnds \/ Exit \/ UNCHANGED vars
  BY <1>6, <1>9, SaveKept DEF CtrlC, DrainEnds, Exit, MainStep, disk, vars
<1>10. QED
  BY <1>3, <1>4, <1>5, <1>6, <1>7, <1>8, <1>9, SaveKept DEF Next

-----------------------------------------------------------------------------
(* Restarts.                                                                *)

\* A process that exited left its counters in the file.
LEMMA ExitCovers == IInv => (DrainCoversSave => FinalSaveCovers)
<1> SUFFICES ASSUME IInv, DrainCoversSave, main = "exited", saveErrors = 0
             PROVE  /\ file.whole
                    /\ restored.orders + granted <= file.orders
                    /\ file.tripped = tripped
  BY DEF FinalSaveCovers
<1>1. saver["main"].at = "saved"
  BY DEF IInv, ShutdownInv
<1>2. file.whole /\ file.orders = ordersFired /\ file.tripped = tripped
  BY <1>1 DEF IInv, SaveInv
<1>3. restored.orders + granted <= ordersFired
  BY BreakerPromises DEF IInv, CB!CountersCoverGrants
<1>4. QED
  BY <1>2, <1>3

\* And no more than a cent less than it granted.
LEMMA ExitCents ==
    ASSUME IInv, DrainCoversSave, main = "exited", saveErrors = 0
    PROVE  restored.cents + grantedCents <= file.cents + 1
<1>1. saver["main"].at = "saved"
  BY DEF IInv, ShutdownInv
<1>2. file.cents = SavedCents(usdCents)
  BY <1>1 DEF IInv, SaveInv
<1>3. restored.cents + grantedCents <= usdCents
  BY BreakerPromises DEF IInv, CB!CountersCoverGrants
<1>4. /\ usdCents \in Nat /\ restored.cents \in Nat /\ grantedCents \in Nat
      /\ file.cents \in Nat
  BY DEF IInv, TypeOK, CB!TypeOK
<1>5. QED
  BY <1>2, <1>3, <1>4 DEF SavedCents

\* Only a grant changes what was granted.
LEMMA GrantStep ==
    ASSUME IInv, [CBP!Next]_(CBP!vars)
    PROVE  /\ UNCHANGED restored
           /\ granted' > 0 \/ UNCHANGED <<granted, grantedCents>>
<1>1. granted \in Nat
  BY DEF IInv, TypeOK, CB!TypeOK
<1>2. QED
  BY <1>1
     DEF CBP!Next, CBP!LoadTripped, CBP!FireOrder, CBP!CommitUsd, CBP!Granted,
         CBP!StoreTripped, CBP!Trip, CBP!SetTripped, CBP!history, CBP!vars

\* A clean restart starts from counters that cover every earlier grant.
LEMMA LedgerStep == IInv /\ [Next]_vars => LedgerInv' /\ (crashes <= restarts)'
<1>a. CBP!IInv => CB!OrdersWithinLimit /\ CB!UsdWithinLimit
  BY BreakerPromises
<1>b. CBP!IInv' => CB!OrdersWithinLimit' /\ CB!UsdWithinLimit'
  BY <1>a, PTL
<1>c. IInv /\ [Next]_vars => TypeOK' /\ CB!OrdersWithinLimit' /\ CB!UsdWithinLimit'
  BY <1>b, TypeStep, BreakerInv DEF IInv
<1> SUFFICES ASSUME IInv, [Next]_vars
             PROVE  LedgerInv' /\ (crashes <= restarts)'
  OBVIOUS
<1>1. /\ earlier.orders \in Nat /\ granted \in Nat /\ restored.orders \in Nat
      /\ earlier.cents \in Nat /\ grantedCents \in Nat /\ restored.cents \in Nat
      /\ granted' \in Nat /\ grantedCents' \in Nat
      /\ file.orders \in Nat /\ file.cents \in Nat
      /\ crashes \in Nat /\ restarts \in Nat /\ crashes <= restarts
      /\ saveErrors \in Nat /\ MaxOrders \in Nat /\ MaxCents \in Nat
  BY <1>c, ExecutorLimits DEF IInv, TypeOK, CB!TypeOK
<1>2. CASE Restart
  <2>1. crashes' <= restarts'
    BY <1>1, <1>2 DEF Restart
  <2>2. ASSUME DrainCoversSave, Clean'
        PROVE  /\ earlier'.orders <= restored'.orders
               /\ earlier'.orders + granted' <= MaxOrders
               /\ earlier'.cents <= restored'.cents + restarts'
               /\ earlier'.cents + grantedCents' <= MaxCents + restarts'
    <3>1. ~up /\ Clean
      BY <1>1, <1>2, <2>2 DEF Restart, Clean
    <3>2. main = "exited"
      BY <3>1 DEF IInv, ShutdownInv
    <3>3. /\ restored.orders + granted <= file.orders
          /\ restored.cents + grantedCents <= file.cents + 1
      BY <2>2, <3>1, <3>2, ExitCovers, ExitCents DEF FinalSaveCovers, Clean
    <3>4. /\ earlier.orders <= restored.orders
          /\ earlier.orders + granted <= MaxOrders
          /\ earlier.cents <= restored.cents + restarts
          /\ earlier.cents + grantedCents <= MaxCents + restarts
      BY <2>2, <3>1 DEF IInv, LedgerInv
    <3>5. /\ earlier'.orders = earlier.orders + granted
          /\ earlier'.cents = earlier.cents + grantedCents
          /\ restored'.orders = file.orders /\ granted' = 0
          /\ restored'.cents = file.cents /\ grantedCents' = 0
          /\ restarts' = restarts + 1
      BY <1>2 DEF Restart, CB!Rebuild, Load
    <3>6. QED
      BY <1>1, <3>3, <3>4, <3>5
  <2>3. QED
    BY <2>1, <2>2 DEF LedgerInv
<1>3. CASE ~Restart
  <2>1. UNCHANGED ledger /\ saveErrors' >= saveErrors
    <3>1. ASSUME NEW s \in Savers, SaveStep(s)
          PROVE  UNCHANGED ledger /\ saveErrors' >= saveErrors
      BY <1>1, <3>1
         DEF SaveStep, LoadOrders, LoadUsd, LoadFlag, Truncate, Write, WriteFails
    <3>2. ASSUME NEW m \in Costs, NEW underLimit \in BOOLEAN, TakeTrigger(m, underLimit)
          PROVE  UNCHANGED ledger /\ saveErrors' >= saveErrors
      BY <1>1, <3>2 DEF TakeTrigger, disk
    <3>3. CASE ExecStep
      BY <1>1, <3>3
         DEF ExecStep, StopAtShutdown, CheckStep, Refused, Send, Unsent, ColdPath,
             Answered, disk
    <3>4. CASE HealthTick \/ HealthStop \/ CtrlC \/ DrainEnds \/ Join \/ Exit
               \/ UNCHANGED vars
      BY <1>1, <3>4
         DEF HealthTick, HealthStop, CtrlC, DrainEnds, Join, Exit, MainStep, vars, disk
    <3>5. QED
      BY <1>3, <3>1, <3>2, <3>3, <3>4 DEF Next
  <2>2. UNCHANGED restored /\ (granted' > 0 \/ UNCHANGED <<granted, grantedCents>>)
    BY <1>3, BreakerStep, GrantStep
  <2>3. ASSUME DrainCoversSave, Clean'
        PROVE  /\ earlier'.orders <= restored'.orders
               /\ earlier'.orders + granted' <= MaxOrders
               /\ earlier'.cents <= restored'.cents + restarts'
               /\ earlier'.cents + grantedCents' <= MaxCents + restarts'
    <3>1. Clean
      BY <1>1, <2>1, <2>3 DEF Clean, ledger
    <3>2. /\ earlier.orders <= restored.orders
          /\ earlier.orders + granted <= MaxOrders
          /\ earlier.cents <= restored.cents + restarts
          /\ earlier.cents + grantedCents <= MaxCents + restarts
      BY <2>3, <3>1 DEF IInv, LedgerInv
    <3>3. granted' > 0 => /\ restored.orders + granted' <= MaxOrders
                          /\ restored.cents + grantedCents' <= MaxCents
      BY <1>c, <2>2 DEF CB!OrdersWithinLimit, CB!UsdWithinLimit
    <3>4. QED
      BY <1>1, <2>1, <2>2, <3>2, <3>3 DEF ledger
  <2>4. QED
    BY <1>1, <2>1, <2>3 DEF LedgerInv, ledger
<1>4. QED
  BY <1>2, <1>3

-----------------------------------------------------------------------------

\* Every step keeps the inductive invariant.
LEMMA InvStep == IInv /\ [Next]_vars => IInv'
BY BreakerInv, TypeStep, LoopStep, ShutdownStep, SaveInvStep, LedgerStep DEF IInv

\* No interleaving of orders, saves, shutdown, crashes and restarts leaves the
\* inductive invariant.
THEOREM Invariance == Spec => []IInv
BY InitInv, InvStep, PTL DEF Spec

\* Every reachable state of the process is well typed.
THEOREM TypeCorrect == Spec => []TypeOK
<1>1. IInv => TypeOK
  BY DEF IInv
<1>2. QED
  BY <1>1, Invariance, PTL

\* The order guard is free whenever the loop waits for a trigger or has ended: no
\* way out of an iteration leaves it held.
THEOREM GuardAlwaysReleased == Spec => []GuardReleased
<1>1. IInv => GuardReleased
  BY DEF IInv, LoopInv, GuardReleased
<1>2. QED
  BY <1>1, Invariance, PTL

\* An order on a connection was granted, under the guard, by a breaker that has
\* not tripped.
THEOREM WireAlwaysGuarded == Spec => []WireIsGuarded
<1>1. IInv => WireIsGuarded
  BY DEF IInv, LoopInv, WireIsGuarded
<1>2. QED
  BY <1>1, Invariance, PTL

\* Whichever path trips the breaker, the loop takes no further trigger.
THEOREM HaltsAtTrip == Spec => []StopsAtTrip
<1>1. IInv => StopsAtTrip
  BY DEF IInv, TypeOK, LoopInv, StopsAtTrip
<1>2. QED
  BY <1>1, Invariance, PTL

\* When main's five seconds outlast a save in progress, a process that exits
\* leaves all its grants and its trip on disk.
THEOREM ExitSaves == ASSUME DrainCoversSave PROVE Spec => []FinalSaveCovers
<1>1. IInv => FinalSaveCovers
  BY ExitCovers
<1>2. QED
  BY <1>1, Invariance, PTL

\* Then max_orders also holds for all processes together that share a state file,
\* however often they are restarted by Ctrl+C.
THEOREM OrdersSafeOverRestarts ==
    ASSUME DrainCoversSave PROVE Spec => []OrdersLimitSurvivesRestarts
<1>1. IInv => OrdersLimitSurvivesRestarts
  BY DEF IInv, LedgerInv, OrdersLimitSurvivesRestarts, LifetimeOrders
<1>2. QED
  BY <1>1, Invariance, PTL

\* And max_usd_exposure holds for them but for a cent each restart may lose.
THEOREM UsdSafeOverRestarts ==
    ASSUME DrainCoversSave PROVE Spec => []UsdLimitSurvivesRestarts
<1>1. IInv => UsdLimitSurvivesRestarts
  BY DEF IInv, LedgerInv, UsdLimitSurvivesRestarts, LifetimeCents
<1>2. QED
  BY <1>1, Invariance, PTL

\* Then, too, no save of a process takes back what an earlier one had put on disk.
THEOREM SavesMonotone == ASSUME DrainCoversSave PROVE Spec => SavesNeverGoBack
<1>1. ASSUME IInv, [Next]_vars
      PROVE  restarts' = restarts => lastSaved <= lastSaved'
  <2> SUFFICES ASSUME restarts' = restarts
               PROVE  lastSaved <= lastSaved'
    OBVIOUS
  <2>1. lastSaved \in Nat /\ restarts \in Nat
    BY <1>1, ExecutorLimits DEF IInv, TypeOK
  <2>2. ~Restart
    BY <2>1 DEF Restart
  <2>3. ASSUME NEW s \in Savers, SaveStep(s)
        PROVE  lastSaved <= lastSaved'
    BY <1>1, <2>1, <2>3
       DEF SaveStep, LoadOrders, LoadUsd, LoadFlag, Truncate, Write, WriteFails, At,
           IInv, SaveInv, Loaded
  <2>4. ASSUME NEW m \in Costs, NEW underLimit \in BOOLEAN, TakeTrigger(m, underLimit)
        PROVE  lastSaved <= lastSaved'
    BY <2>1, <2>4 DEF TakeTrigger, disk
  <2>5. CASE ExecStep
    BY <2>1, <2>5
       DEF ExecStep, StopAtShutdown, CheckStep, Refused, Send, Unsent, ColdPath,
           Answered, disk
  <2>6. CASE HealthTick \/ HealthStop \/ CtrlC \/ DrainEnds \/ Join \/ Exit
             \/ UNCHANGED vars
    BY <2>1, <2>6
       DEF HealthTick, HealthStop, CtrlC, DrainEnds, Join, Exit, MainStep, vars, disk
  <2>7. QED
    BY <1>1, <2>2, <2>3, <2>4, <2>5, <2>6 DEF Next
<1>2. IInv /\ [Next]_vars =>
          [restarts' = restarts => lastSaved <= lastSaved']_<<restarts, lastSaved>>
  BY <1>1
<1>3. QED
  BY <1>2, Invariance, PTL DEF Spec, SavesNeverGoBack
=============================================================================
