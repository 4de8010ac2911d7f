----------------------------- MODULE Connections -----------------------------
(***************************************************************************)
(* The pool of warm HTTP/2 connections of rtt-core and the two threads     *)
(* that share it: the execution thread, which sends one request per        *)
(* trigger, and the maintenance thread, which checks every connection and  *)
(* replaces those that fail; and run_benchmark, which feeds the triggers   *)
(* and stops the threads.                                                  *)
(*                                                                         *)
(* connect_h2 spawns the task that drives a connection on the runtime of   *)
(* its caller.  The runtimes of both threads are current_thread: they poll *)
(* their tasks only inside block_on, and drop them when the thread ends.   *)
(* So a connection moves only while the thread that opened it is busy      *)
(* (Driven), and dies with it.  Those opened by warmup belong to the       *)
(* multi-threaded runtime of main, which always runs.                      *)
(*                                                                         *)
(* The mutex of a slot is held over an await only by a health check; every *)
(* other critical section is one step.  Requests are not told apart, a     *)
(* response only by whether it comes.                                      *)
(*                                                                         *)
(* A definition named X_Fault is X with a mistake the code could have made *)
(* in its place; no action uses it.                                        *)
(***************************************************************************)
EXTENDS Integers, FiniteSets

CONSTANTS
    PoolSize,       \* connections in the pool
    QueueCapacity,  \* triggers the queue holds (1024 in the code)
    MaxTriggers     \* bound: triggers run_benchmark injects (sample_count)

ASSUME PoolAssumption == PoolSize \in Nat \ {0}
ASSUME QueueAssumption == QueueCapacity \in Nat \ {0} /\ MaxTriggers \in Nat

VARIABLES
    owner,      \* whose runtime drives the connection at a place
    link,       \* "open"; "broken" by the peer or the network; "gone", its task
                \* having ended
    healthy,    \* the flag beside the sender in each slot of the pool
    nextIndex,  \* next_index modulo the size of the pool
    th,         \* where each thread is, on which slot, and whether its connection
                \* is its own
    running,    \* the flag each thread looks at
    main,       \* where run_benchmark is
    injected,   \* triggers put into the queue
    taken,      \* triggers taken from it
    failed      \* history: slots whose connection a collection failed on and no
                \* health check has succeeded on since

Threads == {"exec", "maint"}
Slots   == 0 .. PoolSize - 1
\* Besides that of each slot there is at most one connection a thread has to itself:
\* one just opened, or one replaced in its slot while a response is awaited on it.
Own(t) == IF t = "exec" THEN PoolSize ELSE PoolSize + 1
Places == 0 .. PoolSize + 1

links == <<owner, link>>
bench == <<running, main, injected>>
vars  == <<links, healthy, nextIndex, th, bench, taken, failed>>

\* An idle execution thread spins on try_recv, an idle maintenance thread sleeps.
Rest == [at |-> "idle", slot |-> 0, own |-> FALSE, resend |-> FALSE]

\* After warmup and the one request run_benchmark sends itself.
Init ==
    /\ owner = [p \in Places |-> "main"]
    /\ link = [p \in Places |-> IF p \in Slots THEN "open" ELSE "gone"]
    /\ healthy = [i \in Slots |-> TRUE]
    /\ nextIndex = 1 % PoolSize
    /\ th = [t \in Threads |-> Rest]
    /\ running = [t \in Threads |-> TRUE]
    /\ main = "inject"
    /\ injected = 0 /\ taken = 0
    /\ failed = {}

-----------------------------------------------------------------------------
(* Connections and their runtimes.                                          *)

\* Inside block_on.
Busy(t) == th[t].at \notin {"idle", "done"}

Driven(p) == owner[p] = "main" \/ (owner[p] \in Threads /\ Busy(owner[p]))

\* The exchange or the network ends a connection: its task finds out and ends, at once
\* or when it is polled again.
Break(p) ==
    /\ link[p] = "open"
    /\ link' = [link EXCEPT ![p] = IF Driven(p) THEN "gone" ELSE "broken"]
    /\ UNCHANGED <<owner, healthy, nextIndex, th, bench, taken, failed>>

Notice(p) ==
    /\ link[p] = "broken" /\ Driven(p)
    /\ link' = [link EXCEPT ![p] = "gone"]
    /\ UNCHANGED <<owner, healthy, nextIndex, th, bench, taken, failed>>

\* Fault: the tasks of a thread outlive it, and nothing polls them.
DropRuntime_Leaked(t) == UNCHANGED link

\* The runtime of a thread that ends is dropped, and its connection tasks with it.
DropRuntime(t) ==
    link' = [p \in Places |-> IF owner[p] = t THEN "gone" ELSE link[p]]

\* Fault: the guard of a failed health check lives until after the reconnect.
Held_Reconnect(i) ==
    th["maint"].at \in {"wait", "dial", "swap"} /\ th["maint"].slot = i

\* The mutex of slot i is taken: a health check keeps it until its answer came.
Held(i) == th["maint"].at = "wait" /\ th["maint"].slot = i

\* The connection a thread awaits a response on.
Awaited(t) == IF th[t].own THEN Own(t) ELSE th[t].slot

At(t, place) == th[t].at = place

\* What follows a request, sent or not: the execution thread records it and goes
\* back to the queue; the health check goes on with the next slot.
Onward(t) ==
    IF t = "maint" /\ th[t].slot + 1 \in Slots
    THEN [Rest EXCEPT !.at = "send", !.slot = th[t].slot + 1]
    ELSE Rest

GoOn(t) == th' = [th EXCEPT ![t] = Onward(t)]

-----------------------------------------------------------------------------
(* ConnectionPool, by either thread.                                        *)

\* reconnect, first half: connect_h2 opens a connection or fails.
Dial(t) ==
    /\ At(t, "dial")
    /\ \/ /\ GoOn(t)
          /\ UNCHANGED links
       \/ /\ owner' = [owner EXCEPT ![Own(t)] = t]
          /\ link' = [link EXCEPT ![Own(t)] = "open"]
          /\ th' = [th EXCEPT ![t].at = "swap", ![t].own = TRUE]
    /\ UNCHANGED <<healthy, nextIndex, bench, taken, failed>>

\* The execution thread awaits a response on what is in slot i.
AwaitedIn(i) == At("exec", "wait") /\ th["exec"].slot = i /\ ~th["exec"].own

\* reconnect, second half: the new connection replaces what is in the slot by now,
\* which lives on for a request that is still awaited on it.
Swap(t) ==
    LET i == th[t].slot
        from(p) == IF p = i THEN Own(t)
                   ELSE IF p = Own("exec") /\ AwaitedIn(i) THEN i ELSE p
        next == IF th[t].resend THEN [th[t] EXCEPT !.at = "send", !.own = FALSE,
                                                  !.resend = FALSE]
                ELSE Onward(t)
    IN
    /\ At(t, "swap") /\ ~Held(i)
    /\ owner' = [p \in Places |-> IF p = Own(t) THEN "main" ELSE owner[from(p)]]
    /\ link' = [p \in Places |-> IF p = Own(t) THEN "gone" ELSE link[from(p)]]
    /\ healthy' = [healthy EXCEPT ![i] = TRUE]
    /\ failed' = failed \ {i}
    /\ th' = [u \in Threads |-> IF u = t THEN next
                                ELSE IF u = "exec" /\ AwaitedIn(i)
                                     THEN [th[u] EXCEPT !.own = TRUE]
                                     ELSE th[u]]
    /\ UNCHANGED <<nextIndex, bench, taken>>

\* The request goes out on what is in the slot by now.
Send(t) ==
    LET i == th[t].slot IN
    /\ At(t, "send") /\ ~Held(i)
    /\ th' = [th EXCEPT ![t].at = "wait"]
    /\ UNCHANGED <<healthy, nextIndex, links, bench, taken, failed>>

\* The response and its body arrive: both need the task of the connection.
Answered(t) ==
    /\ At(t, "wait")
    /\ link[Awaited(t)] = "open" /\ Driven(Awaited(t))

\* The connection's task has ended, or finds it broken, or its stream alone is reset.
Broken(t) ==
    /\ At(t, "wait")
    /\ link[Awaited(t)] = "gone" \/ Driven(Awaited(t))

-----------------------------------------------------------------------------
(* The execution thread.                                                    *)

\* try_recv, then send_start: acquire picks the slot round-robin.
Take ==
    /\ At("exec", "idle") /\ running["exec"] /\ taken < injected
    /\ taken' = taken + 1
    /\ nextIndex' = (nextIndex + 1) % PoolSize
    /\ th' = [th EXCEPT !["exec"] = [Rest EXCEPT !.at = "check", !.slot = nextIndex]]
    /\ UNCHANGED <<healthy, links, bench, failed>>

\* Fault: the flag is not looked at.
EnsureHealthy_Always ==
    /\ At("exec", "check") /\ ~Held(th["exec"].slot)
    /\ th' = [th EXCEPT !["exec"].at = "send"]
    /\ UNCHANGED <<healthy, nextIndex, links, bench, taken, failed>>

\* ensure_healthy: an unhealthy connection is replaced before the request is sent.
EnsureHealthy ==
    LET i == th["exec"].slot IN
    /\ At("exec", "check") /\ ~Held(i)
    /\ th' = [th EXCEPT !["exec"].at = IF healthy[i] THEN "send" ELSE "dial",
                        !["exec"].resend = ~healthy[i]]
    /\ UNCHANGED <<healthy, nextIndex, links, bench, taken, failed>>

\* collect returns the response, or fails and reports it.
Collect ==
    LET mine == th["exec"].own IN
    /\ \/ Answered("exec") /\ GoOn("exec") /\ UNCHANGED failed
       \/ /\ Broken("exec")
          /\ th' = [th EXCEPT !["exec"].at = "report", !["exec"].own = FALSE]
          /\ failed' = IF mine THEN failed ELSE failed \cup {th["exec"].slot}
    /\ owner' = [owner EXCEPT ![Own("exec")] = "main"]
    /\ link' = [link EXCEPT ![Own("exec")] = "gone"]
    /\ UNCHANGED <<healthy, nextIndex, bench, taken>>

\* Fault: report_failure only reconnects, and when that fails nothing is marked.
ReportFailure_Unmarked ==
    /\ At("exec", "report") /\ ~Held(th["exec"].slot)
    /\ th' = [th EXCEPT !["exec"].at = "dial"]
    /\ UNCHANGED <<healthy, nextIndex, links, bench, taken, failed>>

\* report_failure marks what is in the slot by now and reconnects.
ReportFailure ==
    LET i == th["exec"].slot IN
    /\ At("exec", "report") /\ ~Held(i)
    /\ healthy' = [healthy EXCEPT ![i] = FALSE]
    /\ th' = [th EXCEPT !["exec"].at = "dial"]
    /\ UNCHANGED <<nextIndex, links, bench, taken, failed>>

ExecStep ==
    \/ Take \/ EnsureHealthy \/ Send("exec") \/ Collect \/ ReportFailure
    \/ Dial("exec") \/ Swap("exec")

-----------------------------------------------------------------------------
(* The maintenance thread.                                                  *)

\* The interval is over: health_check_detailed begins with the first slot.
StartCheck ==
    /\ At("maint", "idle") /\ running["maint"]
    /\ th' = [th EXCEPT !["maint"] = [Rest EXCEPT !.at = "send"]]
    /\ UNCHANGED <<healthy, nextIndex, links, bench, taken, failed>>

\* The answer to GET / or its failure sets the flag; a failure reconnects.
CheckSlot ==
    LET i == th["maint"].slot IN
    /\ \/ /\ Answered("maint")
          /\ healthy' = [healthy EXCEPT ![i] = TRUE]
          /\ failed' = failed \ {i}
          /\ GoOn("maint")
       \/ /\ Broken("maint")
          /\ healthy' = [healthy EXCEPT ![i] = FALSE]
          /\ th' = [th EXCEPT !["maint"].at = "dial"]
          /\ UNCHANGED failed
    /\ UNCHANGED <<nextIndex, links, bench, taken>>

MaintStep ==
    StartCheck \/ Send("maint") \/ CheckSlot \/ Dial("maint") \/ Swap("maint")

-----------------------------------------------------------------------------
(* run_benchmark and the end of the threads.                                *)

\* A thread looks at its flag where it is idle, and only there.
Stop(t) ==
    /\ At(t, "idle") /\ ~running[t]
    /\ th' = [th EXCEPT ![t].at = "done"]
    /\ DropRuntime(t)
    /\ UNCHANGED <<healthy, nextIndex, owner, bench, taken, failed>>

\* stop(): clears the flag of a thread, and joins it.
AskToStop(t, place) ==
    /\ running' = [running EXCEPT ![t] = FALSE]
    /\ main' = place

\* IngressThread::inject: when the queue is full run_benchmark returns its error,
\* which drops the maintenance thread, declared last, before the execution thread.
Inject ==
    /\ main = "inject" /\ injected < MaxTriggers
    /\ IF injected - taken < QueueCapacity
       THEN injected' = injected + 1 /\ UNCHANGED <<running, main>>
       ELSE AskToStop("maint", "unwind maint") /\ UNCHANGED injected
    /\ UNCHANGED <<healthy, nextIndex, links, th, taken, failed>>

\* All records are there or thirty seconds have passed: exec.stop().
StopExec ==
    /\ main = "inject" /\ injected = MaxTriggers
    /\ AskToStop("exec", "stop exec")
    /\ UNCHANGED <<healthy, nextIndex, links, th, taken, failed, injected>>

\* The other thread is stopped once the first is joined.
JoinFirst ==
    /\ \/ main = "stop exec" /\ At("exec", "done") /\ AskToStop("maint", "stop maint")
       \/ main = "unwind maint" /\ At("maint", "done") /\ AskToStop("exec", "unwind exec")
    /\ UNCHANGED <<healthy, nextIndex, links, th, taken, failed, injected>>

JoinSecond ==
    /\ \/ main = "stop maint" /\ At("maint", "done")
       \/ main = "unwind exec" /\ At("exec", "done")
    /\ main' = "returned"
    /\ UNCHANGED <<healthy, nextIndex, links, th, taken, failed, injected, running>>

MainStep == Inject \/ StopExec \/ JoinFirst \/ JoinSecond

-----------------------------------------------------------------------------

Next ==
    \/ ExecStep \/ MaintStep \/ MainStep
    \/ \E t \in Threads : Stop(t)
    \/ \E p \in Places : Break(p) \/ Notice(p)

\* The threads and main run on; tokio's mutex is first come, first served; an
\* exchange that a connection is open to answers, and what it has sent is read
\* when the connection's task is polled again; connecting comes to an end.
Fairness ==
    /\ WF_vars(MainStep)
    /\ SF_vars(ExecStep \/ Stop("exec"))
    /\ SF_vars(MaintStep \/ Stop("maint"))

Spec == Init /\ [][Next]_vars /\ Fairness

-----------------------------------------------------------------------------

TypeOK ==
    /\ owner \in [Places -> Threads \cup {"main"}]
    /\ link \in [Places -> {"open", "broken", "gone"}]
    /\ healthy \in [Slots -> BOOLEAN] /\ nextIndex \in Slots
    /\ th \in [Threads -> [at : {"idle", "check", "send", "wait", "report", "dial",
                                 "swap", "done"},
                           slot : Slots, own : BOOLEAN, resend : BOOLEAN]]
    /\ running \in [Threads -> BOOLEAN]
    /\ main \in {"inject", "stop exec", "stop maint", "unwind maint",
                 "unwind exec", "returned"}
    /\ injected \in 0..MaxTriggers /\ taken \in 0..injected
    /\ failed \subseteq Slots

\* A connection a request failed on is reconnected, or seen by a health check to
\* work, before another request is sent on it (connection.rs:355, "reconnect the
\* underlying connection before reuse if collection fails"), whatever the
\* maintenance thread does to the slot between the failure, its report, the
\* reconnect and the next request.
NoReuseAfterFailure == At("exec", "wait") /\ ~th["exec"].own => th["exec"].slot \notin failed

\* A trigger taken is dealt with: send_start and collect never wait for ever, though
\* the connection may be one whose task only the maintenance thread polls, or one
\* that the thread takes with it when it ends.
ExecReturns == Busy("exec") ~> ~Busy("exec")

\* run_benchmark, when it stops the execution thread first, ends.
CleanStopReturns == main = "stop exec" ~> main = "returned"

\* When it unwinds, and joins the maintenance thread first, it ends too
\* (executor.rs:192, "Sleep in small increments for responsive shutdown").
UnwindReturns == main = "unwind maint" ~> main = "returned"

=============================================================================
