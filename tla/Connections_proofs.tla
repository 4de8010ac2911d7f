-------------------------- MODULE Connections_proofs --------------------------
(***************************************************************************)
(* For any pool, queue and number of triggers: no request is sent on a     *)
(* connection that an earlier one failed on, until it is replaced or a     *)
(* health check has found it to work.                                      *)
(***************************************************************************)
EXTENDS Connections, TLAPS

Thread == [at : {"idle", "check", "send", "wait", "report", "dial", "swap", "done"},
           slot : Slots, own : BOOLEAN, resend : BOOLEAN]

\* A slot whose connection failed is marked unhealthy, or about to be.
FlagInv == \A i \in failed : ~healthy[i] \/ (At("exec", "report") /\ th["exec"].slot = i)

\* Between the look at the flag and the response nothing fails but the request itself.
SendInv == At("exec", "send") => th["exec"].slot \notin failed

IInv == TypeOK /\ FlagInv /\ SendInv /\ NoReuseAfterFailure

\* What Onward leads to is a place in the code of a thread, never before a request of
\* the execution thread.
LEMMA OnwardTyped ==
    ASSUME TypeOK, NEW t \in Threads
    PROVE  /\ Rest \in Thread
           /\ Onward(t) \in Thread
           /\ Onward(t).at \in {"idle", "send"}
           /\ t = "exec" => Onward(t).at = "idle"
<1>1. 0 \in Slots
  BY PoolAssumption DEF Slots
<1>2. Rest \in Thread
  BY <1>1 DEF Rest, Thread
<1> QED
  BY <1>2 DEF Onward, Rest, Thread, Threads, TypeOK

\* The initial states satisfy the invariant.
LEMMA InvInit == Init => IInv
<1> SUFFICES ASSUME Init PROVE IInv
  OBVIOUS
<1>1. 0 \in Slots /\ 1 % PoolSize \in Slots
  BY PoolAssumption DEF Slots
<1>2. Rest \in Thread
  BY <1>1 DEF Rest, Thread
<1>3. TypeOK
  BY <1>1, <1>2, QueueAssumption DEF Init, TypeOK, Thread, Threads
<1> QED
  BY <1>3 DEF Init, IInv, FlagInv, SendInv, NoReuseAfterFailure, At, Rest, Threads

\* A step of either thread, of main or of a connection preserves it.
LEMMA InvStep == IInv /\ [Next]_vars => IInv'
<1> SUFFICES ASSUME IInv, [Next]_vars PROVE IInv'
  OBVIOUS
<1> USE DEF IInv
<1>t. "exec" \in Threads /\ "maint" \in Threads /\ "exec" # "maint"
  BY DEF Threads
<1>r. /\ th \in [Threads -> Thread]
      /\ \A t \in Threads : th[t].slot \in Slots /\ Own(t) \in Places
      /\ Slots \subseteq Places
  <2>1. th \in [Threads -> Thread]
    BY DEF TypeOK, Thread
  <2>2. \A t \in Threads : th[t].slot \in Slots
    BY <2>1 DEF Thread
  <2>3. \A t \in Threads : Own(t) \in Places
    BY PoolAssumption DEF Own, Places
  <2>4. Slots \subseteq Places
    BY PoolAssumption DEF Slots, Places
  <2> QED
    BY <2>1, <2>2, <2>3, <2>4
<1>m. \A n \in Nat : n % PoolSize \in Slots
  BY PoolAssumption, SMTT(30) DEF Slots
<1>1. CASE Take
  <2>1. th' = [th EXCEPT !["exec"] = [Rest EXCEPT !.at = "check", !.slot = nextIndex]]
    BY <1>1 DEF Take
  <2>2. [Rest EXCEPT !.at = "check", !.slot = nextIndex] \in Thread
    BY DEF Rest, Thread, TypeOK
  <2>3. (nextIndex + 1) % PoolSize \in Slots
    <3>1. nextIndex \in 0 .. PoolSize - 1
      BY DEF TypeOK, Slots
    <3>2. nextIndex + 1 \in Nat
      BY <3>1, PoolAssumption
    <3> QED
      BY <3>2, <1>m
  <2>4. taken' \in 0..injected'
    <3>1. injected \in 0..MaxTriggers /\ taken \in 0..injected
      BY DEF TypeOK
    <3>2. taken < injected /\ taken' = taken + 1 /\ injected' = injected
      BY <1>1 DEF Take, bench
    <3> QED
      BY <3>1, <3>2, QueueAssumption
  <2>5. th' \in [Threads -> Thread] /\ th'["exec"].at = "check"
    BY <1>t, <1>r, <2>1, <2>2 DEF Rest
  <2>6. TypeOK'
    BY <1>1, <2>3, <2>4, <2>5 DEF Take, TypeOK, bench, links, Thread
  <2> QED
    BY <1>1, <2>5, <2>6 DEF Take, FlagInv, SendInv, NoReuseAfterFailure, At
<1>2. CASE EnsureHealthy
  <2>1. th' \in [Threads -> Thread]
    <3>1. PICK place \in {"send", "dial"}, again \in BOOLEAN :
              th' = [th EXCEPT !["exec"] = [th["exec"] EXCEPT !.at = place, !.resend = again]]
      <4>1. CASE healthy[th["exec"].slot]
        BY <1>2, <4>1 DEF EnsureHealthy
      <4>2. CASE ~healthy[th["exec"].slot]
        BY <1>2, <4>2 DEF EnsureHealthy
      <4> QED
        BY ONLY <4>1, <4>2
    <3>2. [th["exec"] EXCEPT !.at = place, !.resend = again] \in Thread
      BY ONLY <1>r, <1>t, <3>1 DEF Thread
    <3> QED
      BY ONLY <1>r, <3>1, <3>2
  <2>2. TypeOK'
    BY <1>2, <2>1 DEF EnsureHealthy, TypeOK, bench, links, Thread
  <2>3. /\ th["exec"].at = "check" /\ th'["exec"].slot = th["exec"].slot
        /\ th'["exec"].at = IF healthy[th["exec"].slot] THEN "send" ELSE "dial"
        /\ healthy' = healthy /\ failed' = failed
    BY <1>2, <1>r, <1>t DEF EnsureHealthy, At, Thread
  <2>4. FlagInv'
    BY <2>3 DEF FlagInv, At
  <2>5. SendInv'
    BY <2>3 DEF FlagInv, SendInv, At
  <2>6. NoReuseAfterFailure'
    BY <2>3 DEF NoReuseAfterFailure, At
  <2> QED
    BY <2>2, <2>4, <2>5, <2>6
<1>3. ASSUME NEW t \in Threads, Send(t) PROVE IInv'
  <2>1. th' \in [Threads -> Thread]
    BY <1>3, <1>r DEF Send, Thread
  <2>2. TypeOK'
    BY <1>3, <2>1 DEF Send, TypeOK, bench, links, Thread
  <2> QED
    BY <1>3, <1>r, <1>t, <2>2 DEF Send, FlagInv, SendInv, NoReuseAfterFailure, At, Thread
<1>4. CASE Collect
  <2>1. th' \in [Threads -> Thread] /\ th'["exec"].at \in {"idle", "report"}
    BY <1>4, <1>r, <1>t, OnwardTyped DEF Collect, GoOn, Thread
  <2>2. failed' \subseteq Slots
    <3>1. failed \subseteq Slots /\ th["exec"].slot \in Slots
      BY <1>r, <1>t DEF TypeOK
    <3> QED
      BY <1>4, <3>1 DEF Collect
  <2>3. /\ owner' \in [Places -> Threads \cup {"main"}]
        /\ link' \in [Places -> {"open", "broken", "gone"}]
    BY <1>4, <1>r, <1>t DEF Collect, TypeOK
  <2>4. TypeOK'
    BY <1>4, <2>1, <2>2, <2>3 DEF Collect, TypeOK, bench, Thread
  <2>5. FlagInv'
    BY <1>4, <1>r, <1>t, OnwardTyped
    DEF Collect, FlagInv, GoOn, Answered, Broken, At, Thread
  <2> QED
    BY <2>1, <2>4, <2>5 DEF SendInv, NoReuseAfterFailure, At
<1>5. CASE ReportFailure
  <2>1. th' \in [Threads -> Thread] /\ th'["exec"].at = "dial"
    BY <1>5, <1>r, <1>t DEF ReportFailure, Thread
  <2>2. TypeOK'
    BY <1>5, <2>1 DEF ReportFailure, TypeOK, bench, links, Thread
  <2>3. FlagInv'
    BY <1>5, <1>r, <1>t DEF ReportFailure, FlagInv, TypeOK, At
  <2> QED
    BY <2>1, <2>2, <2>3 DEF SendInv, NoReuseAfterFailure, At
<1>6. ASSUME NEW t \in Threads, Dial(t) PROVE IInv'
  <2>1. /\ th' \in [Threads -> Thread]
        /\ t = "exec" => th'["exec"].at \in {"idle", "swap"}
        /\ t # "exec" => th'["exec"] = th["exec"]
    BY <1>6, <1>r, <1>t, OnwardTyped DEF Dial, GoOn, Thread
  <2>2. /\ owner' \in [Places -> Threads \cup {"main"}]
        /\ link' \in [Places -> {"open", "broken", "gone"}]
    <3>1. CASE UNCHANGED links
      BY <3>1 DEF links, TypeOK
    <3>2. CASE owner' = [owner EXCEPT ![Own(t)] = t] /\ link' = [link EXCEPT ![Own(t)] = "open"]
      <4>1. /\ owner \in [Places -> Threads \cup {"main"}]
            /\ link \in [Places -> {"open", "broken", "gone"}]
        BY DEF TypeOK
      <4> QED
        BY <3>2, <4>1, <1>r, <1>6
    <3> QED
      BY <1>6, <3>1, <3>2 DEF Dial
  <2>3. TypeOK'
    BY <1>6, <2>1, <2>2 DEF Dial, TypeOK, bench, Thread
  <2> QED
    BY <1>6, <2>1, <2>3 DEF Dial, FlagInv, SendInv, NoReuseAfterFailure, At
<1>7. ASSUME NEW t \in Threads, Swap(t) PROVE IInv'
  <2> DEFINE i == th[t].slot
             next == IF th[t].resend
                     THEN [th[t] EXCEPT !.at = "send", !.own = FALSE, !.resend = FALSE]
                     ELSE Onward(t)
  <2>1. next \in Thread /\ (next.at = "send" /\ t = "exec" => next.slot = i)
                        /\ next.at \in {"idle", "send"}
    BY <1>r, <1>7, OnwardTyped DEF Thread
  <2>2. th' = [u \in Threads |-> IF u = t THEN next
                                 ELSE IF u = "exec" /\ AwaitedIn(i)
                                      THEN [th[u] EXCEPT !.own = TRUE]
                                      ELSE th[u]]
    BY <1>7 DEF Swap
  <2>3. t = "exec" => ~AwaitedIn(i)
    BY <1>7 DEF Swap, AwaitedIn, At
  <2>4. /\ th' \in [Threads -> Thread]
        /\ t = "exec" => th'["exec"] = next
        /\ t # "exec" => /\ th'["exec"].at = th["exec"].at
                         /\ th'["exec"].slot = th["exec"].slot
                         /\ AwaitedIn(i) \/ th'["exec"].own = th["exec"].own
                         /\ AwaitedIn(i) => th'["exec"].own
    <3> HIDE DEF next
    <3>1. \A u \in Threads : [th[u] EXCEPT !.own = TRUE] \in Thread
      BY <1>r DEF Thread
    <3>2. \A u \in Threads : th'[u] \in Thread
      BY <1>r, <2>1, <2>2, <3>1
    <3>3. [th["exec"] EXCEPT !.own = TRUE].own = TRUE
      BY <1>r, <1>t DEF Thread
    <3> QED
      BY <1>r, <1>t, <2>2, <3>2, <3>3 DEF Thread
  <2>5. /\ owner' \in [Places -> Threads \cup {"main"}]
        /\ link' \in [Places -> {"open", "broken", "gone"}]
    BY <1>7, <1>r, <1>t DEF Swap, TypeOK
  <2>6. healthy' = [healthy EXCEPT ![i] = TRUE] /\ failed' = failed \ {i}
    BY <1>7 DEF Swap
  <2>7. TypeOK'
    <3>1. UNCHANGED <<nextIndex, running, main, injected, taken>>
      BY <1>7 DEF Swap, bench
    <3>2. healthy' \in [Slots -> BOOLEAN] /\ failed' \subseteq Slots
      BY <2>6 DEF TypeOK
    <3> HIDE DEF IInv, next, i
    <3>3. TypeOK
      BY DEF IInv
    <3> QED
      BY ONLY <2>4, <2>5, <3>1, <3>2, <3>3 DEF TypeOK, Thread
  <2>8. FlagInv'
    BY <1>7, <1>r, <2>1, <2>4, <2>6 DEF Swap, FlagInv, TypeOK, At
  <2> QED
    BY <2>1, <2>4, <2>6, <2>7, <2>8 DEF SendInv, NoReuseAfterFailure, At, AwaitedIn
<1>8. CASE StartCheck
  <2>1. th' \in [Threads -> Thread] /\ th'["exec"] = th["exec"]
    BY <1>8, <1>r, <1>t, OnwardTyped DEF StartCheck, Thread
  <2>2. TypeOK'
    BY <1>8, <2>1 DEF StartCheck, TypeOK, bench, links, Thread
  <2> QED
    BY <1>8, <2>1, <2>2 DEF StartCheck, FlagInv, SendInv, NoReuseAfterFailure, At
<1>9. CASE CheckSlot
  <2>1. th' \in [Threads -> Thread] /\ th'["exec"] = th["exec"]
    BY <1>9, <1>r, <1>t, OnwardTyped DEF CheckSlot, GoOn, Thread
  <2>2. healthy' \in [Slots -> BOOLEAN] /\ failed' \subseteq failed
    BY <1>9, <1>r, <1>t DEF CheckSlot, TypeOK
  <2>3. TypeOK'
    BY <1>9, <2>1, <2>2 DEF CheckSlot, TypeOK, bench, links, Thread
  <2>4. FlagInv'
    <3> DEFINE j == th["maint"].slot
    <3>1. j \in Slots /\ healthy \in [Slots -> BOOLEAN] /\ failed \subseteq Slots
      BY <1>r, <1>t DEF TypeOK
    <3>2. \/ healthy' = [healthy EXCEPT ![j] = TRUE] /\ failed' = failed \ {j}
          \/ healthy' = [healthy EXCEPT ![j] = FALSE] /\ failed' = failed
      BY <1>9 DEF CheckSlot
    <3>3. At("exec", "report") = At("exec", "report")'
      BY <2>1 DEF At
    <3>4. \A i \in failed : ~healthy[i] \/ (At("exec", "report") /\ th["exec"].slot = i)
      BY DEF FlagInv
    <3> HIDE DEF IInv, j
    <3>5. ASSUME NEW i \in failed'
          PROVE  ~healthy'[i] \/ (At("exec", "report")' /\ th'["exec"].slot = i)
      <4>1. i \in failed /\ (~healthy[i] => ~healthy'[i])
        BY ONLY <3>1, <3>2, <3>5
      <4> QED
        BY <2>1, <3>3, <3>4, <4>1
    <3> QED
      BY <3>5 DEF FlagInv
  <2> QED
    BY <2>1, <2>2, <2>3, <2>4 DEF SendInv, NoReuseAfterFailure, At
<1>10. ASSUME NEW t \in Threads, Stop(t) PROVE IInv'
  <2>1. /\ th' \in [Threads -> Thread]
        /\ \/ th'["exec"] = th["exec"]
           \/ th'["exec"].at = "done" /\ th["exec"].at = "idle"
    <3>1. th' = [th EXCEPT ![t] = [th[t] EXCEPT !.at = "done"]] /\ th[t].at = "idle"
      BY <1>10 DEF Stop, At
    <3>2. [th[t] EXCEPT !.at = "done"] \in Thread /\ [th[t] EXCEPT !.at = "done"].at = "done"
      BY <1>r DEF Thread
    <3> HIDE DEF IInv
    <3> QED
      BY <3>1, <3>2, <1>r, <1>t, <1>10
  <2>2. TypeOK'
    BY <1>10, <2>1 DEF Stop, DropRuntime, TypeOK, bench, Thread
  <2> QED
    BY <1>10, <2>1, <2>2 DEF Stop, FlagInv, SendInv, NoReuseAfterFailure, At
<1>11. CASE MainStep
  <2>1. UNCHANGED <<healthy, nextIndex, links, th, taken, failed>>
    BY <1>11 DEF MainStep, Inject, StopExec, JoinFirst, JoinSecond
  <2>2. running' \in [Threads -> BOOLEAN] /\ injected' \in 0..MaxTriggers /\ taken \in 0..injected'
    <3>1. running \in [Threads -> BOOLEAN] /\ injected \in 0..MaxTriggers /\ taken \in 0..injected
      BY DEF TypeOK
    <3>2. \/ UNCHANGED running
          \/ \E t \in Threads : running' = [running EXCEPT ![t] = FALSE]
      BY <1>11, <1>t DEF MainStep, Inject, StopExec, JoinFirst, JoinSecond, AskToStop
    <3>3. injected' = injected \/ (injected < MaxTriggers /\ injected' = injected + 1)
      BY <1>11 DEF MainStep, Inject, StopExec, JoinFirst, JoinSecond
    <3>4. running' \in [Threads -> BOOLEAN]
      BY <3>1, <3>2
    <3> QED
      BY <3>1, <3>3, <3>4, QueueAssumption
  <2>3. main' \in {"inject", "stop exec", "stop maint", "unwind maint", "unwind exec", "returned"}
    BY <1>11 DEF MainStep, Inject, StopExec, JoinFirst, JoinSecond, AskToStop, TypeOK
  <2>4. TypeOK'
    BY <2>1, <2>2, <2>3 DEF TypeOK, links
  <2> QED
    BY <2>1, <2>4 DEF FlagInv, SendInv, NoReuseAfterFailure, At
<1>12. ASSUME NEW p \in Places, Break(p) \/ Notice(p) PROVE IInv'
  <2>1. TypeOK'
    BY <1>12 DEF Break, Notice, TypeOK, bench
  <2> QED
    BY <1>12, <2>1 DEF Break, Notice, FlagInv, SendInv, NoReuseAfterFailure, At
<1>13. CASE UNCHANGED vars
  BY <1>13 DEF vars, links, bench, TypeOK, FlagInv, SendInv, NoReuseAfterFailure, At
<1> QED
  BY <1>1, <1>2, <1>3, <1>4, <1>5, <1>6, <1>7, <1>8, <1>9, <1>10, <1>11, <1>12, <1>13, <1>t
  DEF Next, ExecStep, MaintStep

\* Every reachable state of pool, threads and main satisfies the invariant.
THEOREM Invariance == Spec => []IInv
  BY InvInit, InvStep, PTL DEF Spec

\* Every reachable state of pool, threads and main is well typed.
THEOREM TypeCorrect == Spec => []TypeOK
<1>1. IInv => TypeOK
  BY DEF IInv
<1> QED
  BY <1>1, Invariance, PTL

\* report_failure and ensure_healthy keep their promise whatever the maintenance thread
\* does to the slot in between: no request goes out on a connection one failed on.
THEOREM FailedNotReused == Spec => []NoReuseAfterFailure
<1>1. IInv => NoReuseAfterFailure
  BY DEF IInv
<1> QED
  BY <1>1, Invariance, PTL

=============================================================================
