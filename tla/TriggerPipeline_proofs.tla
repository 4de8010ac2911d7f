----------------------- MODULE TriggerPipeline_proofs -----------------------
(***************************************************************************)
(* Theorems about TriggerPipeline, for any capacities, configurations and  *)
(* number of snapshots.                                                    *)
(***************************************************************************)
EXTENDS TriggerPipeline, TLAPS

TypeInv ==
    /\ \E S : published \in Seq(S)
    /\ cursor \in Nat
    /\ at \in [Tasks -> {"recv", "send", "busy", "done"}]
    /\ held \in [Tasks -> Nat]
    /\ snapshots \in Seq(Nat) /\ triggers \in Seq(Nat) /\ ready \in Seq(Nat)
    /\ taken \in Seq(Nat)

\* What a task at its send has in hand, as a set.
InHand(t) == IF at[t] = "send" THEN {held[t]} ELSE {}

\* The places of a snapshot on its way, from the loop back to the bridge's
\* receiver, whose next ones are yet to come.
Places == <<ToSet(taken), ToSet(ready), InHand("forward"), ToSet(triggers), InHand("runner"),
            ToSet(snapshots), InHand("bridge"), {s \in Nat : s >= cursor}>>

\* What is in a place was published before all that is in a later place.
Chain(places) ==
    \A j, k \in 1..8 : j < k => \A x \in places[j], y \in places[k] : x < y

OrderInv ==
    /\ Chain(Places)
    /\ Increasing(taken) /\ Increasing(ready) /\ Increasing(triggers) /\ Increasing(snapshots)

\* Before the shutdown and the end of the loop no task stops, and every trigger
\* that was made is at one of the first five places.
LossInv ==
    ~shutdown /\ ~Done("exec") =>
        /\ \A t \in Tasks : ~Done(t)
        /\ fired = ToSet(taken) \cup ToSet(ready) \cup InHand("forward") \cup ToSet(triggers)
                     \cup InHand("runner")

Inv == TypeInv /\ OrderInv /\ LossInv

-----------------------------------------------------------------------------
\* Sequences of numbers.

\* An element is put behind the others.
LEMMA AppendFacts ==
    ASSUME NEW s \in Seq(Nat), NEW x \in Nat
    PROVE  /\ Append(s, x) \in Seq(Nat)
           /\ ToSet(Append(s, x)) = ToSet(s) \cup {x}
           /\ Increasing(s) /\ (\A y \in ToSet(s) : y < x) => Increasing(Append(s, x))
<1> DEFINE t == Append(s, x)
<1>1. /\ t \in Seq(Nat) /\ Len(t) = Len(s) + 1 /\ Len(s) \in Nat
      /\ DOMAIN t = 1..(Len(s) + 1) /\ DOMAIN s = 1..Len(s)
      /\ t[Len(s) + 1] = x /\ \A i \in 1..Len(s) : t[i] = s[i]
  OBVIOUS
<1> HIDE DEF t
<1>2. ToSet(t) = ToSet(s) \cup {x}
  <2>1. ASSUME NEW i \in 1..(Len(s) + 1) PROVE t[i] \in ToSet(s) \cup {x}
    <3>1. i \in 1..Len(s) \/ i = Len(s) + 1
      BY <1>1
    <3> QED BY <1>1, <3>1 DEF ToSet
  <2>2. \A i \in 1..Len(s) : i \in 1..(Len(s) + 1) /\ s[i] = t[i]
    BY <1>1
  <2>3. Len(s) + 1 \in 1..(Len(s) + 1)
    BY <1>1
  <2> QED BY <1>1, <2>1, <2>2, <2>3 DEF ToSet
<1>3. ASSUME Increasing(s), \A y \in ToSet(s) : y < x
      PROVE  Increasing(t)
  <2>1. SUFFICES ASSUME NEW i \in 1..(Len(s) + 1), NEW j \in 1..(Len(s) + 1), i < j
                 PROVE  t[i] < t[j]
    BY <1>1 DEF Increasing
  <2>2. i \in 1..Len(s) /\ s[i] \in ToSet(s)
    <3>1. i \in 1..Len(s)
      BY <1>1, <2>1
    <3> QED BY <1>1, <3>1 DEF ToSet
  <2>3. CASE j = Len(s) + 1
    BY <1>1, <1>3, <2>2, <2>3
  <2>4. CASE j # Len(s) + 1
    <3>1. j \in 1..Len(s)
      BY <1>1, <2>4
    <3> QED BY <1>1, <1>3, <2>1, <2>2, <3>1 DEF Increasing
  <2> QED BY <2>3, <2>4
<1> QED BY <1>1, <1>2, <1>3 DEF t

\* The first element is taken off.
LEMMA TailFacts ==
    ASSUME NEW s \in Seq(Nat), s # <<>>
    PROVE  /\ Head(s) \in Nat /\ Head(s) \in ToSet(s) /\ Tail(s) \in Seq(Nat)
           /\ ToSet(s) = {Head(s)} \cup ToSet(Tail(s))
           /\ Increasing(s) => /\ Increasing(Tail(s))
                               /\ \A y \in ToSet(Tail(s)) : Head(s) < y
<1> DEFINE t == Tail(s)
<1>1. /\ t \in Seq(Nat) /\ Len(t) = Len(s) - 1 /\ Len(s) \in Nat /\ Len(s) >= 1
      /\ DOMAIN t = 1..(Len(s) - 1) /\ DOMAIN s = 1..Len(s)
      /\ Head(s) = s[1] /\ s[1] \in Nat /\ \A i \in 1..(Len(s) - 1) : t[i] = s[i + 1]
  OBVIOUS
<1> HIDE DEF t
<1>2. s[1] \in ToSet(s)
  BY <1>1 DEF ToSet
<1>3. ToSet(s) = {s[1]} \cup ToSet(t)
  <2>1. ASSUME NEW i \in 1..Len(s) PROVE s[i] \in {s[1]} \cup ToSet(t)
    <3>1. CASE i = 1
      BY <3>1
    <3>2. CASE i # 1
      <4>1. i - 1 \in 1..(Len(s) - 1) /\ (i - 1) + 1 = i
        BY <1>1, <3>2
      <4>2. t[i - 1] = s[i]
        BY <1>1, <4>1
      <4> QED BY <1>1, <4>1, <4>2 DEF ToSet
    <3> QED BY <3>1, <3>2
  <2>2. \A i \in 1..(Len(s) - 1) : i + 1 \in 1..Len(s) /\ t[i] = s[i + 1]
    BY <1>1
  <2>3. /\ \A x \in ToSet(s) : \E i \in 1..Len(s) : x = s[i]
        /\ \A x \in ToSet(t) : \E i \in 1..(Len(s) - 1) : x = t[i]
        /\ \A i \in 1..Len(s) : s[i] \in ToSet(s)
    BY <1>1 DEF ToSet
  <2>4. \A x \in ToSet(s) : x \in {s[1]} \cup ToSet(t)
    BY <2>1, <2>3
  <2>5. \A x \in ToSet(t) : x \in ToSet(s)
    BY <2>2, <2>3
  <2> QED BY <1>2, <2>4, <2>5
<1>4. ASSUME Increasing(s)
      PROVE  Increasing(t) /\ \A y \in ToSet(t) : s[1] < y
  <2>1. ASSUME NEW i \in 1..(Len(s) - 1), NEW j \in 1..(Len(s) - 1), i < j
        PROVE  t[i] < t[j]
    <3>1. i + 1 \in 1..Len(s) /\ j + 1 \in 1..Len(s) /\ i + 1 < j + 1
      BY <1>1, <2>1
    <3> QED BY <1>1, <1>4, <3>1 DEF Increasing
  <2>2. ASSUME NEW i \in 1..(Len(s) - 1) PROVE s[1] < t[i]
    <3>1. 1 \in 1..Len(s) /\ i + 1 \in 1..Len(s) /\ 1 < i + 1
      BY <1>1
    <3> QED BY <1>1, <1>4, <3>1 DEF Increasing
  <2> QED BY <1>1, <2>1, <2>2 DEF Increasing, ToSet
<1> QED BY <1>1, <1>2, <1>3, <1>4 DEF t

\* Two sequences one after the other.
LEMMA ConcatFacts ==
    ASSUME NEW s \in Seq(Nat), NEW t \in Seq(Nat)
    PROVE  /\ s \o t \in Seq(Nat)
           /\ ToSet(s \o t) = ToSet(s) \cup ToSet(t)
           /\ Increasing(s) /\ Increasing(t) /\ (\A x \in ToSet(s), y \in ToSet(t) : x < y) =>
                  Increasing(s \o t)
<1> DEFINE u == s \o t
           m == Len(s)
           n == Len(t)
<1>1. /\ u \in Seq(Nat) /\ Len(u) = m + n /\ m \in Nat /\ n \in Nat
      /\ DOMAIN u = 1..(m + n) /\ DOMAIN s = 1..m /\ DOMAIN t = 1..n
      /\ \A i \in 1..(m + n) : u[i] = IF i <= m THEN s[i] ELSE t[i - m]
  OBVIOUS
<1> HIDE DEF u, m, n
<1>2. \A i \in 1..(m + n) : \/ i \in 1..m /\ u[i] = s[i]
                            \/ i > m /\ i - m \in 1..n /\ u[i] = t[i - m]
  BY <1>1
<1>3. \A i \in 1..m : i \in 1..(m + n) /\ u[i] = s[i]
  BY <1>1
<1>4. \A i \in 1..n : i + m \in 1..(m + n) /\ u[i + m] = t[i]
  <2> SUFFICES ASSUME NEW i \in 1..n PROVE i + m \in 1..(m + n) /\ u[i + m] = t[i]
    OBVIOUS
  <2>1. i + m \in 1..(m + n) /\ ~(i + m <= m) /\ (i + m) - m = i
    BY <1>1
  <2> QED BY <1>1, <2>1
<1>0. /\ \A i \in 1..m : s[i] \in ToSet(s)
      /\ \A i \in 1..n : t[i] \in ToSet(t)
      /\ \A i \in 1..(m + n) : u[i] \in ToSet(u)
      /\ \A x \in ToSet(s) : \E i \in 1..m : x = s[i]
      /\ \A x \in ToSet(t) : \E i \in 1..n : x = t[i]
      /\ \A x \in ToSet(u) : \E i \in 1..(m + n) : x = u[i]
  BY <1>1 DEF ToSet
<1>5. ToSet(u) = ToSet(s) \cup ToSet(t)
  <2>1. \A x \in ToSet(u) : x \in ToSet(s) \cup ToSet(t)
    BY <1>0, <1>2
  <2>2. \A x \in ToSet(s) : x \in ToSet(u)
    BY ONLY <1>0, <1>3
  <2>3. \A x \in ToSet(t) : x \in ToSet(u)
    <3> SUFFICES ASSUME NEW x \in ToSet(t) PROVE x \in ToSet(u)
      OBVIOUS
    <3>1. PICK i \in 1..n : x = t[i]
      BY ONLY <1>0
    <3>2. i + m \in 1..(m + n) /\ u[i + m] = x
      BY ONLY <1>4, <3>1
    <3> QED BY ONLY <1>0, <3>2
  <2> HIDE DEF m, n
  <2>4. ToSet(u) \subseteq ToSet(s) \cup ToSet(t)
    BY ONLY <2>1
  <2>5. ToSet(s) \cup ToSet(t) \subseteq ToSet(u)
    BY ONLY <2>2, <2>3
  <2> QED BY ONLY <2>4, <2>5
<1>6. ASSUME Increasing(s), Increasing(t), \A x \in ToSet(s), y \in ToSet(t) : x < y
      PROVE  Increasing(u)
  <2>1. SUFFICES ASSUME NEW i \in 1..(m + n), NEW j \in 1..(m + n), i < j
                 PROVE  u[i] < u[j]
    BY <1>1 DEF Increasing
  <2>2. CASE i \in 1..m /\ j \in 1..m
    BY <1>1, <1>3, <1>6, <2>1, <2>2 DEF Increasing, m
  <2>3. CASE i \in 1..m /\ j > m
    <3>1. u[i] = s[i] /\ j - m \in 1..n /\ u[j] = t[j - m]
      BY <1>1, <1>2, <1>3, <2>3
    <3> QED BY <1>0, <1>6, <2>3, <3>1
  <2>4. CASE i > m /\ j > m
    <3>1. i - m \in 1..n /\ j - m \in 1..n /\ i - m < j - m
      BY <1>1, <1>2, <2>1, <2>4
    <3>2. u[i] = t[i - m] /\ u[j] = t[j - m]
      BY <1>1, <1>2, <2>4
    <3> QED BY <1>1, <1>6, <3>1, <3>2 DEF Increasing, n
  <2> QED BY <1>1, <2>1, <2>2, <2>3, <2>4
<1> QED BY <1>1, <1>5, <1>6 DEF u

\* The chain holds when the first of a place moves to the place before it.
LEMMA ChainMoves ==
    ASSUME NEW before, NEW after, NEW k \in 1..8, NEW h,
           Chain(before), \A i \in 1..8 : before[i] \subseteq Nat,
           h \in before[k], \A y \in after[k] : h < y,
           k > 1 => after[k - 1] \subseteq before[k - 1] \cup {h},
           \A i \in 1..8 : i # k - 1 => after[i] \subseteq before[i]
    PROVE  Chain(after)
<1> SUFFICES ASSUME NEW i \in 1..8, NEW j \in 1..8, i < j, NEW x \in after[i], NEW y \in after[j]
             PROVE  x < y
  BY DEF Chain
<1>1. CASE i # k - 1 /\ j # k - 1
  BY <1>1 DEF Chain
<1>2. CASE j = k - 1
  BY <1>2 DEF Chain
<1>3. CASE i = k - 1
  <2>1. CASE j = k
    BY <1>3, <2>1 DEF Chain
  <2>2. CASE j # k
    BY <1>3, <2>2 DEF Chain
  <2> QED BY <2>1, <2>2
<1> QED BY <1>1, <1>2, <1>3

\* The chain holds when places lose elements.
LEMMA ChainLoses ==
    ASSUME NEW before, NEW after, Chain(before), \A i \in 1..8 : after[i] \subseteq before[i]
    PROVE  Chain(after)
BY DEF Chain

-----------------------------------------------------------------------------
\* The places.

\* The eight places, by number.
LEMMA PlacesAre ==
    /\ Places[1] = ToSet(taken) /\ Places[2] = ToSet(ready) /\ Places[3] = InHand("forward")
    /\ Places[4] = ToSet(triggers) /\ Places[5] = InHand("runner")
    /\ Places[6] = ToSet(snapshots) /\ Places[7] = InHand("bridge")
    /\ Places[8] = {s \in Nat : s >= cursor}
BY DEF Places

\* Snapshots are numbered.
LEMMA PlacesNat ==
    ASSUME TypeInv PROVE \A i \in 1..8 : Places[i] \subseteq Nat
<1>1. \A s \in Seq(Nat) : ToSet(s) \subseteq Nat
  BY DEF ToSet
<1>2. \A t \in Tasks : InHand(t) \subseteq Nat
  BY DEF InHand, TypeInv
<1>3. /\ ToSet(taken) \subseteq Nat /\ ToSet(ready) \subseteq Nat /\ ToSet(triggers) \subseteq Nat
      /\ ToSet(snapshots) \subseteq Nat
  BY <1>1 DEF TypeInv
<1>4. InHand("forward") \subseteq Nat /\ InHand("runner") \subseteq Nat /\ InHand("bridge") \subseteq Nat
  BY <1>2 DEF Tasks
<1> QED BY <1>3, <1>4, PlacesAre

\* The same places after a step.
LEMMA PlacesAfter ==
    /\ Places'[1] = ToSet(taken') /\ Places'[2] = ToSet(ready') /\ Places'[3] = InHand("forward")'
    /\ Places'[4] = ToSet(triggers') /\ Places'[5] = InHand("runner")'
    /\ Places'[6] = ToSet(snapshots') /\ Places'[7] = InHand("bridge")'
    /\ Places'[8] = {s \in Nat : s >= cursor'}
BY DEF Places

-----------------------------------------------------------------------------
\* The steps.

\* A task goes to a step that is not a send, nothing else moves; the order stays.
LEMMA StopOrder ==
    ASSUME Inv, NEW t \in Tasks, NEW step \in {"recv", "busy", "done"}, MoveTo(t, step),
           UNCHANGED <<published, cursor, held, queues, taken>>
    PROVE  /\ TypeInv' /\ OrderInv'
           /\ \A u \in Tasks : InHand(u)' \subseteq InHand(u)
           /\ at'[t] = step /\ \A u \in Tasks \ {t} : at'[u] = at[u] /\ InHand(u)' = InHand(u)
<1>1. at' = [at EXCEPT ![t] = step] /\ UNCHANGED <<snapshots, triggers, ready>>
  BY DEF MoveTo, queues
<1>2. at'[t] = step /\ \A u \in Tasks \ {t} : at'[u] = at[u]
  BY <1>1 DEF Inv, TypeInv
<1>3. \A u \in Tasks : InHand(u)' \subseteq InHand(u)
  BY <1>2 DEF InHand
<1>4. \A u \in Tasks \ {t} : InHand(u)' = InHand(u)
  BY <1>2 DEF InHand
<1>5. TypeInv'
  BY <1>1 DEF Inv, TypeInv
<1>6. \A i \in 1..8 : Places'[i] \subseteq Places[i]
  <2>1. /\ InHand("forward")' \subseteq InHand("forward")
        /\ InHand("runner")' \subseteq InHand("runner")
        /\ InHand("bridge")' \subseteq InHand("bridge")
    BY <1>3 DEF Tasks
  <2> QED BY <1>1, <2>1, PlacesAre, PlacesAfter
<1>7. Chain(Places')
  BY <1>6, ChainLoses DEF Inv, OrderInv
<1>8. OrderInv'
  BY <1>1, <1>7 DEF Inv, OrderInv
<1> QED BY <1>2, <1>3, <1>4, <1>5, <1>8

\* A task that stops without the shutdown has seen another one that has stopped.
LEMMA StopInv ==
    ASSUME Inv, NEW t \in Tasks, NEW step \in {"recv", "busy", "done"}, MoveTo(t, step),
           at[t] \in {"recv", "busy"} \/ (at[t] = "send" /\ t # "exec" /\ step = "done"),
           t # "exec" /\ step = "done" => shutdown \/ \E u \in Tasks : Done(u),
           UNCHANGED <<published, cursor, held, queues, history, shutdown>>
    PROVE  Inv'
<1>1. UNCHANGED <<published, cursor, held, queues, taken, fired>>
  BY DEF history
<1>2. /\ TypeInv' /\ OrderInv'
      /\ at'[t] = step /\ \A u \in Tasks \ {t} : at'[u] = at[u] /\ InHand(u)' = InHand(u)
  BY <1>1, StopOrder
<1>3. at[t] # "send" => \A u \in Tasks : InHand(u)' = InHand(u)
  BY <1>2 DEF InHand
<1>4. LossInv'
  <2>1. SUFFICES ASSUME ~shutdown', ~Done("exec")' PROVE LossInv'
    BY DEF LossInv
  <2>2. ~shutdown /\ ~Done("exec")
    BY <1>2, <2>1 DEF Done, Tasks
  <2>3. /\ \A u \in Tasks : ~Done(u)
        /\ fired = ToSet(taken) \cup ToSet(ready) \cup InHand("forward") \cup ToSet(triggers)
                     \cup InHand("runner")
    BY <2>2 DEF Inv, LossInv
  <2>4. step # "done"
    BY <1>2, <2>1, <2>2, <2>3 DEF Done
  <2>5. \A u \in Tasks : ~Done(u)'
    BY <1>2, <2>3, <2>4 DEF Done
  <2>6. InHand("forward")' = InHand("forward") /\ InHand("runner")' = InHand("runner")
    BY <1>3, <2>4 DEF Tasks
  <2> QED BY <1>1, <2>3, <2>5, <2>6 DEF LossInv, queues
<1> QED BY <1>2, <1>4 DEF Inv

\* A task that takes an element in hand.
LEMMA CarryFacts ==
    ASSUME TypeInv, NEW t \in Tasks, NEW x \in Nat, Carry(t, x)
    PROVE  /\ at' \in [Tasks -> {"recv", "send", "busy", "done"}] /\ held' \in [Tasks -> Nat]
           /\ at'[t] = "send" /\ InHand(t)' = {x}
           /\ \A u \in Tasks \ {t} : at'[u] = at[u] /\ InHand(u)' = InHand(u)
<1>1. at' = [at EXCEPT ![t] = "send"] /\ held' = [held EXCEPT ![t] = x]
  BY DEF Carry
<1>2. /\ at' \in [Tasks -> {"recv", "send", "busy", "done"}] /\ held' \in [Tasks -> Nat]
      /\ at'[t] = "send" /\ held'[t] = x
      /\ \A u \in Tasks \ {t} : at'[u] = at[u] /\ held'[u] = held[u]
  BY <1>1 DEF TypeInv
<1> QED BY <1>2 DEF InHand

\* A task that goes to a step that is not a send has nothing in hand.
LEMMA MoveFacts ==
    ASSUME TypeInv, NEW t \in Tasks, NEW step \in {"recv", "busy", "done"}, MoveTo(t, step),
           UNCHANGED held
    PROVE  /\ at' \in [Tasks -> {"recv", "send", "busy", "done"}] /\ held' \in [Tasks -> Nat]
           /\ at'[t] = step /\ InHand(t)' = {}
           /\ \A u \in Tasks \ {t} : at'[u] = at[u] /\ InHand(u)' = InHand(u)
<1>1. /\ at' \in [Tasks -> {"recv", "send", "busy", "done"}] /\ held' \in [Tasks -> Nat]
      /\ at'[t] = step
      /\ \A u \in Tasks \ {t} : at'[u] = at[u] /\ held'[u] = held[u]
  BY DEF TypeInv, MoveTo
<1> QED BY <1>1 DEF InHand

\* A published snapshot is not on its way yet.
LEMMA PublishInv == ASSUME Inv, Publish PROVE Inv'
<1>1. PICK x : published' = Append(published, x)
  BY DEF Publish
<1>2. PICK S : published \in Seq(S)
  BY DEF Inv, TypeInv
<1>3. published' \in Seq(S \cup {x})
  <2>1. published \in Seq(S \cup {x})
    BY <1>2
  <2> QED BY <1>1, <2>1
<1>4. UNCHANGED <<cursor, at, held, snapshots, triggers, ready, taken, fired, shutdown>>
  BY DEF Publish, queues, signals, history
<1>5. TypeInv'
  BY <1>3, <1>4 DEF Inv, TypeInv
<1>6. \A t \in Tasks : InHand(t)' = InHand(t)
  BY <1>4 DEF InHand
<1>7. InHand("forward")' = InHand("forward") /\ InHand("runner")' = InHand("runner")
      /\ InHand("bridge")' = InHand("bridge")
  BY <1>6 DEF Tasks
<1>8. Chain(Places')
  <2>1. \A i \in 1..8 : Places'[i] \subseteq Places[i]
    BY <1>4, <1>7, PlacesAre, PlacesAfter
  <2> QED BY <2>1, ChainLoses DEF Inv, OrderInv
<1>9. OrderInv'
  BY <1>4, <1>8 DEF Inv, OrderInv
<1>10. LossInv'
  BY <1>4, <1>7 DEF Inv, LossInv, Done
<1> QED BY <1>5, <1>9, <1>10 DEF Inv

\* The bridge's receiver skips what is gone, or takes the next snapshot in hand.
LEMMA BridgeRecvInv == ASSUME Inv, BridgeRecv PROVE Inv'
<1>1. /\ UNCHANGED <<published, snapshots, triggers, ready, taken, fired, shutdown>>
      /\ at["bridge"] = "recv" /\ TypeInv /\ "bridge" \in Tasks
      /\ cursor \in Nat /\ Len(published) \in Nat
  BY DEF BridgeRecv, queues, signals, history, Inv, TypeInv, Tasks
<1>2. CASE cursor < Oldest
  <2>1. cursor' = Oldest /\ UNCHANGED <<at, held>>
    BY <1>2 DEF BridgeRecv
  <2>2. cursor' \in Nat
    BY <1>1, <2>1, PipelineAssumption DEF Oldest
  <2>3. TypeInv'
    BY <1>1, <2>1, <2>2 DEF TypeInv
  <2>4. \A t \in Tasks : InHand(t)' = InHand(t)
    BY <2>1 DEF InHand
  <2>5. InHand("forward")' = InHand("forward") /\ InHand("runner")' = InHand("runner")
        /\ InHand("bridge")' = InHand("bridge")
    BY <2>4 DEF Tasks
  <2>6. \A i \in 1..8 : Places'[i] \subseteq Places[i]
    <3>1. {s \in Nat : s >= cursor'} \subseteq {s \in Nat : s >= cursor}
      BY <1>1, <1>2, <2>1, <2>2
    <3> QED BY <1>1, <2>5, <3>1, PlacesAre, PlacesAfter
  <2>7. OrderInv'
    BY <1>1, <2>6, ChainLoses DEF Inv, OrderInv
  <2>8. LossInv'
    BY <1>1, <2>1, <2>5 DEF Inv, LossInv, Done
  <2> QED BY <2>3, <2>7, <2>8 DEF Inv
<1>3. CASE ~(cursor < Oldest)
  <2>1. cursor' = cursor + 1 /\ Carry("bridge", cursor)
    BY <1>3 DEF BridgeRecv
  <2>2. /\ at' \in [Tasks -> {"recv", "send", "busy", "done"}] /\ held' \in [Tasks -> Nat]
        /\ at'["bridge"] = "send" /\ InHand("bridge")' = {cursor}
        /\ \A u \in Tasks \ {"bridge"} : at'[u] = at[u] /\ InHand(u)' = InHand(u)
    BY <1>1, <2>1, CarryFacts
  <2>3. InHand("forward")' = InHand("forward") /\ InHand("runner")' = InHand("runner")
    BY <2>2 DEF Tasks
  <2>4. TypeInv'
    BY <1>1, <2>1, <2>2 DEF TypeInv
  <2>5. Chain(Places')
    <3>1. cursor \in Places[8] /\ \A y \in Places'[8] : cursor < y
      BY <1>1, <2>1, PlacesAre, PlacesAfter
    <3>2. Places'[7] \subseteq Places[7] \cup {cursor}
      BY <2>2, PlacesAre, PlacesAfter
    <3>3. \A i \in 1..8 : i # 7 => Places'[i] \subseteq Places[i]
      <4>1. {s \in Nat : s >= cursor'} \subseteq {s \in Nat : s >= cursor}
        BY <1>1, <2>1
      <4> QED BY <1>1, <2>3, <4>1, PlacesAre, PlacesAfter
    <3>4. Chain(Places) /\ \A i \in 1..8 : Places[i] \subseteq Nat
      BY <1>1, PlacesNat DEF Inv, OrderInv
    <3> HIDE DEF Places
    <3> QED BY <3>1, <3>2, <3>3, <3>4, ChainMoves
  <2>6. OrderInv'
    BY <1>1, <2>5 DEF Inv, OrderInv
  <2>7. LossInv'
    BY <1>1, <2>2, <2>3 DEF Inv, LossInv, Done, Tasks
  <2> QED BY <2>4, <2>6, <2>7 DEF Inv
<1> QED BY <1>2, <1>3

\* The bridge sends, or finds the runner gone.
LEMMA BridgeSendInv == ASSUME Inv, BridgeSend PROVE Inv'
<1>1. /\ UNCHANGED <<published, cursor, held, taken, ready, triggers, fired, shutdown>>
      /\ at["bridge"] = "send" /\ TypeInv /\ "bridge" \in Tasks
  BY DEF BridgeSend, queues, signals, history, Inv, Tasks
<1>2. CASE Done("runner")
  <2>1. MoveTo("bridge", "done") /\ UNCHANGED snapshots /\ "runner" \in Tasks
    BY <1>2 DEF BridgeSend, Tasks
  <2>2. UNCHANGED <<published, cursor, held, queues, history, shutdown>>
    BY <1>1, <2>1 DEF BridgeSend, queues, history, signals
  <2> QED BY <1>1, <1>2, <2>1, <2>2, StopInv
<1>3. CASE ~Done("runner")
  <2> DEFINE h == held["bridge"]
  <2>1. snapshots' = Append(snapshots, h) /\ MoveTo("bridge", "recv") /\ h \in Nat
    BY <1>1, <1>3 DEF BridgeSend, TypeInv
  <2>2. InHand("bridge") = {h}
    BY <1>1 DEF InHand
  <2> HIDE DEF h
  <2>3. /\ at' \in [Tasks -> {"recv", "send", "busy", "done"}] /\ held' \in [Tasks -> Nat]
        /\ at'["bridge"] = "recv" /\ InHand("bridge")' = {}
        /\ \A u \in Tasks \ {"bridge"} : at'[u] = at[u] /\ InHand(u)' = InHand(u)
    BY <1>1, <2>1, MoveFacts
  <2>4. InHand("forward")' = InHand("forward") /\ InHand("runner")' = InHand("runner")
    BY <2>3 DEF Tasks
  <2>5. Chain(Places) /\ \A i \in 1..8 : Places[i] \subseteq Nat
    BY <1>1, PlacesNat DEF Inv, OrderInv
  <2>6. \A y \in ToSet(snapshots) : y < h
    <3>1. ToSet(snapshots) = Places[6] /\ h \in Places[7]
      BY <2>2, PlacesAre
    <3> HIDE DEF Places
    <3> QED BY <2>5, <3>1 DEF Chain
  <2>7. /\ snapshots' \in Seq(Nat) /\ ToSet(snapshots') = ToSet(snapshots) \cup {h}
        /\ Increasing(snapshots) => Increasing(snapshots')
    BY <1>1, <2>1, <2>6, AppendFacts DEF TypeInv
  <2>8. TypeInv'
    BY <1>1, <2>3, <2>7 DEF TypeInv
  <2>9. Chain(Places')
    <3>1. h \in Places[7] /\ \A y \in Places'[7] : h < y
      BY <2>2, <2>3, PlacesAre, PlacesAfter
    <3>2. Places'[6] \subseteq Places[6] \cup {h}
      BY <2>7, PlacesAre, PlacesAfter
    <3>3. \A i \in 1..8 : i # 6 => Places'[i] \subseteq Places[i]
      BY <1>1, <2>3, <2>4, PlacesAre, PlacesAfter
    <3> HIDE DEF Places
    <3> QED BY <2>5, <3>1, <3>2, <3>3, ChainMoves
  <2>10. OrderInv'
    BY <1>1, <2>7, <2>9 DEF Inv, OrderInv
  <2>11. LossInv'
    BY <1>1, <2>2, <2>3, <2>4, <2>7 DEF Inv, LossInv, Done, Tasks
  <2> QED BY <2>8, <2>10, <2>11 DEF Inv
<1> QED BY <1>2, <1>3

\* The runner sends, or finds the forwarding task gone.
LEMMA RunnerSendInv == ASSUME Inv, RunnerSend PROVE Inv'
<1>1. /\ UNCHANGED <<published, cursor, held, taken, ready, snapshots, fired, shutdown>>
      /\ at["runner"] = "send" /\ TypeInv /\ "runner" \in Tasks
  BY DEF RunnerSend, queues, signals, history, Inv, Tasks
<1>2. CASE Done("forward")
  <2>1. MoveTo("runner", "done") /\ UNCHANGED triggers /\ "forward" \in Tasks
    BY <1>2 DEF RunnerSend, Tasks
  <2>2. UNCHANGED <<published, cursor, held, queues, history, shutdown>>
    BY <1>1, <2>1 DEF RunnerSend, queues, history, signals
  <2> QED BY <1>1, <1>2, <2>1, <2>2, StopInv
<1>3. CASE ~Done("forward")
  <2> DEFINE h == held["runner"]
  <2>1. triggers' = Append(triggers, h) /\ MoveTo("runner", "recv") /\ h \in Nat
    BY <1>1, <1>3 DEF RunnerSend, TypeInv
  <2>2. InHand("runner") = {h}
    BY <1>1 DEF InHand
  <2> HIDE DEF h
  <2>3. /\ at' \in [Tasks -> {"recv", "send", "busy", "done"}] /\ held' \in [Tasks -> Nat]
        /\ at'["runner"] = "recv" /\ InHand("runner")' = {}
        /\ \A u \in Tasks \ {"runner"} : at'[u] = at[u] /\ InHand(u)' = InHand(u)
    BY <1>1, <2>1, MoveFacts
  <2>4. InHand("forward")' = InHand("forward") /\ InHand("bridge")' = InHand("bridge")
    BY <2>3 DEF Tasks
  <2>5. Chain(Places) /\ \A i \in 1..8 : Places[i] \subseteq Nat
    BY <1>1, PlacesNat DEF Inv, OrderInv
  <2>6. \A y \in ToSet(triggers) : y < h
    <3>1. ToSet(triggers) = Places[4] /\ h \in Places[5]
      BY <2>2, PlacesAre
    <3> HIDE DEF Places
    <3> QED BY <2>5, <3>1 DEF Chain
  <2>7. /\ triggers' \in Seq(Nat) /\ ToSet(triggers') = ToSet(triggers) \cup {h}
        /\ Increasing(triggers) => Increasing(triggers')
    BY <1>1, <2>1, <2>6, AppendFacts DEF TypeInv
  <2>8. TypeInv'
    BY <1>1, <2>3, <2>7 DEF TypeInv
  <2>9. Chain(Places')
    <3>1. h \in Places[5] /\ \A y \in Places'[5] : h < y
      BY <2>2, <2>3, PlacesAre, PlacesAfter
    <3>2. Places'[4] \subseteq Places[4] \cup {h}
      BY <2>7, PlacesAre, PlacesAfter
    <3>3. \A i \in 1..8 : i # 4 => Places'[i] \subseteq Places[i]
      BY <1>1, <2>3, <2>4, PlacesAre, PlacesAfter
    <3> HIDE DEF Places
    <3> QED BY <2>5, <3>1, <3>2, <3>3, ChainMoves
  <2>10. OrderInv'
    BY <1>1, <2>7, <2>9 DEF Inv, OrderInv
  <2>11. LossInv'
    BY <1>1, <2>2, <2>3, <2>4, <2>7 DEF Inv, LossInv, Done, Tasks
  <2> QED BY <2>8, <2>10, <2>11 DEF Inv
<1> QED BY <1>2, <1>3

\* The forwarding task sends, or finds the loop gone.
LEMMA ForwardSendInv == ASSUME Inv, ForwardSend PROVE Inv'
<1>1. /\ UNCHANGED <<published, cursor, held, taken, triggers, snapshots, fired, shutdown>>
      /\ at["forward"] = "send" /\ TypeInv /\ "forward" \in Tasks
  BY DEF ForwardSend, queues, signals, history, Inv, Tasks
<1>2. CASE Done("exec")
  <2>1. MoveTo("forward", "done") /\ UNCHANGED ready /\ "exec" \in Tasks
    BY <1>2 DEF ForwardSend, Tasks
  <2>2. UNCHANGED <<published, cursor, held, queues, history, shutdown>>
    BY <1>1, <2>1 DEF ForwardSend, queues, history, signals
  <2> QED BY <1>1, <1>2, <2>1, <2>2, StopInv
<1>3. CASE ~Done("exec")
  <2> DEFINE h == held["forward"]
  <2>1. ready' = Append(ready, h) /\ MoveTo("forward", "recv") /\ h \in Nat
    BY <1>1, <1>3 DEF ForwardSend, TypeInv
  <2>2. InHand("forward") = {h}
    BY <1>1 DEF InHand
  <2> HIDE DEF h
  <2>3. /\ at' \in [Tasks -> {"recv", "send", "busy", "done"}] /\ held' \in [Tasks -> Nat]
        /\ at'["forward"] = "recv" /\ InHand("forward")' = {}
        /\ \A u \in Tasks \ {"forward"} : at'[u] = at[u] /\ InHand(u)' = InHand(u)
    BY <1>1, <2>1, MoveFacts
  <2>4. InHand("runner")' = InHand("runner") /\ InHand("bridge")' = InHand("bridge")
    BY <2>3 DEF Tasks
  <2>5. Chain(Places) /\ \A i \in 1..8 : Places[i] \subseteq Nat
    BY <1>1, PlacesNat DEF Inv, OrderInv
  <2>6. \A y \in ToSet(ready) : y < h
    <3>1. ToSet(ready) = Places[2] /\ h \in Places[3]
      BY <2>2, PlacesAre
    <3> HIDE DEF Places
    <3> QED BY <2>5, <3>1 DEF Chain
  <2>7. /\ ready' \in Seq(Nat) /\ ToSet(ready') = ToSet(ready) \cup {h}
        /\ Increasing(ready) => Increasing(ready')
    BY <1>1, <2>1, <2>6, AppendFacts DEF TypeInv
  <2>8. TypeInv'
    BY <1>1, <2>3, <2>7 DEF TypeInv
  <2>9. Chain(Places')
    <3>1. h \in Places[3] /\ \A y \in Places'[3] : h < y
      BY <2>2, <2>3, PlacesAre, PlacesAfter
    <3>2. Places'[2] \subseteq Places[2] \cup {h}
      BY <2>7, PlacesAre, PlacesAfter
    <3>3. \A i \in 1..8 : i # 2 => Places'[i] \subseteq Places[i]
      BY <1>1, <2>3, <2>4, PlacesAre, PlacesAfter
    <3> HIDE DEF Places
    <3> QED BY <2>5, <3>1, <3>2, <3>3, ChainMoves
  <2>10. OrderInv'
    BY <1>1, <2>7, <2>9 DEF Inv, OrderInv
  <2>11. LossInv'
    BY <1>1, <2>2, <2>3, <2>4, <2>7 DEF Inv, LossInv, Done, Tasks
  <2> QED BY <2>8, <2>10, <2>11 DEF Inv
<1> QED BY <1>2, <1>3

\* The runner takes a snapshot and makes a trigger of it, or does not.
LEMMA RunnerRecvInv == ASSUME Inv, NEW fires \in BOOLEAN, RunnerRecv(fires) PROVE Inv'
<1>1. /\ UNCHANGED <<published, cursor, taken, ready, triggers, shutdown>>
      /\ at["runner"] = "recv" /\ TypeInv /\ "runner" \in Tasks
      /\ snapshots # <<>> /\ snapshots' = Tail(snapshots) /\ snapshots \in Seq(Nat)
  BY DEF RunnerRecv, queues, signals, history, Inv, TypeInv, Tasks
<1> DEFINE h == Head(snapshots)
<1>2. /\ h \in Nat /\ h \in ToSet(snapshots) /\ snapshots' \in Seq(Nat)
      /\ ToSet(snapshots) = {h} \cup ToSet(snapshots')
      /\ Increasing(snapshots) => Increasing(snapshots') /\ \A y \in ToSet(snapshots') : h < y
  BY <1>1, TailFacts
<1>3. CASE fires
  <2>1. Carry("runner", h) /\ fired' = fired \cup {h}
    BY <1>3 DEF RunnerRecv
  <2> HIDE DEF h
  <2>2. /\ at' \in [Tasks -> {"recv", "send", "busy", "done"}] /\ held' \in [Tasks -> Nat]
        /\ at'["runner"] = "send" /\ InHand("runner")' = {h}
        /\ \A u \in Tasks \ {"runner"} : at'[u] = at[u] /\ InHand(u)' = InHand(u)
    BY <1>1, <1>2, <2>1, CarryFacts
  <2>3. /\ InHand("runner") = {}
        /\ InHand("forward")' = InHand("forward") /\ InHand("bridge")' = InHand("bridge")
    BY <1>1, <2>2 DEF Tasks, InHand
  <2>4. TypeInv'
    BY <1>1, <1>2, <2>2 DEF TypeInv
  <2>5. Chain(Places')
    <3>1. Chain(Places) /\ \A i \in 1..8 : Places[i] \subseteq Nat
      BY <1>1, PlacesNat DEF Inv, OrderInv
    <3>2. h \in Places[6] /\ \A y \in Places'[6] : h < y
      BY <1>2, PlacesAre, PlacesAfter DEF Inv, OrderInv
    <3>3. Places'[5] \subseteq Places[5] \cup {h}
      BY <2>2, PlacesAre, PlacesAfter
    <3>4. \A i \in 1..8 : i # 5 => Places'[i] \subseteq Places[i]
      BY <1>1, <1>2, <2>3, PlacesAre, PlacesAfter
    <3> HIDE DEF Places
    <3> QED BY <3>1, <3>2, <3>3, <3>4, ChainMoves
  <2>6. OrderInv'
    BY <1>1, <1>2, <2>5 DEF Inv, OrderInv
  <2>7. LossInv'
    BY <1>1, <1>2, <2>1, <2>2, <2>3 DEF Inv, LossInv, Done, Tasks
  <2> QED BY <2>4, <2>6, <2>7 DEF Inv
<1>4. CASE ~fires
  <2>1. UNCHANGED <<at, held, fired>>
    BY <1>4 DEF RunnerRecv
  <2> HIDE DEF h
  <2>2. \A t \in Tasks : InHand(t)' = InHand(t)
    BY <2>1 DEF InHand
  <2>3. InHand("forward")' = InHand("forward") /\ InHand("runner")' = InHand("runner")
        /\ InHand("bridge")' = InHand("bridge")
    BY <2>2 DEF Tasks
  <2>4. TypeInv'
    BY <1>1, <1>2, <2>1 DEF TypeInv
  <2>5. \A i \in 1..8 : Places'[i] \subseteq Places[i]
    BY <1>1, <1>2, <2>3, PlacesAre, PlacesAfter
  <2>6. OrderInv'
    BY <1>1, <1>2, <2>5, ChainLoses DEF Inv, OrderInv
  <2>7. LossInv'
    BY <1>1, <2>1, <2>3 DEF Inv, LossInv, Done
  <2> QED BY <2>4, <2>6, <2>7 DEF Inv
<1> QED BY <1>3, <1>4

\* The forwarding task takes a trigger in hand.
LEMMA ForwardRecvInv == ASSUME Inv, ForwardRecv PROVE Inv'
<1>1. /\ UNCHANGED <<published, cursor, taken, ready, snapshots, shutdown>>
      /\ at["forward"] = "recv" /\ TypeInv /\ "forward" \in Tasks
      /\ triggers # <<>> /\ triggers' = Tail(triggers) /\ triggers \in Seq(Nat)
  BY DEF ForwardRecv, queues, signals, history, Inv, TypeInv, Tasks
<1> DEFINE h == Head(triggers)
<1>2. /\ h \in Nat /\ h \in ToSet(triggers) /\ triggers' \in Seq(Nat)
      /\ ToSet(triggers) = {h} \cup ToSet(triggers')
      /\ Increasing(triggers) => Increasing(triggers') /\ \A y \in ToSet(triggers') : h < y
  BY <1>1, TailFacts
<1>3. Carry("forward", h) /\ fired' = fired
  BY DEF ForwardRecv, history
<1> HIDE DEF h
<1>4. /\ at' \in [Tasks -> {"recv", "send", "busy", "done"}] /\ held' \in [Tasks -> Nat]
      /\ at'["forward"] = "send" /\ InHand("forward")' = {h}
      /\ \A u \in Tasks \ {"forward"} : at'[u] = at[u] /\ InHand(u)' = InHand(u)
  BY <1>1, <1>2, <1>3, CarryFacts
<1>5. /\ InHand("forward") = {}
      /\ InHand("runner")' = InHand("runner") /\ InHand("bridge")' = InHand("bridge")
  BY <1>1, <1>4 DEF Tasks, InHand
<1>6. TypeInv'
  BY <1>1, <1>2, <1>4 DEF TypeInv
<1>7. Chain(Places')
  <2>1. Chain(Places) /\ \A i \in 1..8 : Places[i] \subseteq Nat
    BY <1>1, PlacesNat DEF Inv, OrderInv
  <2>2. h \in Places[4] /\ \A y \in Places'[4] : h < y
    BY <1>2, PlacesAre, PlacesAfter DEF Inv, OrderInv
  <2>3. Places'[3] \subseteq Places[3] \cup {h}
    BY <1>4, PlacesAre, PlacesAfter
  <2>4. \A i \in 1..8 : i # 3 => Places'[i] \subseteq Places[i]
    BY <1>1, <1>2, <1>5, PlacesAre, PlacesAfter
  <2> HIDE DEF Places
  <2> QED BY <2>1, <2>2, <2>3, <2>4, ChainMoves
<1>8. OrderInv'
  BY <1>1, <1>2, <1>7 DEF Inv, OrderInv
<1>9. LossInv'
  BY <1>1, <1>2, <1>3, <1>4, <1>5 DEF Inv, LossInv, Done, Tasks
<1> QED BY <1>6, <1>8, <1>9 DEF Inv

\* The loop takes a trigger: it is done with, or its order goes out.
LEMMA ExecTakeInv == ASSUME Inv, ExecTake PROVE Inv'
<1>1. /\ UNCHANGED <<published, cursor, held, triggers, snapshots, fired, shutdown>>
      /\ at["exec"] = "recv" /\ TypeInv /\ "exec" \in Tasks
      /\ ready # <<>> /\ ready' = Tail(ready) /\ ready \in Seq(Nat) /\ taken \in Seq(Nat)
  BY DEF ExecTake, queues, signals, history, Inv, TypeInv, Tasks
<1> DEFINE h == Head(ready)
<1>2. /\ h \in Nat /\ h \in ToSet(ready) /\ ready' \in Seq(Nat)
      /\ ToSet(ready) = {h} \cup ToSet(ready')
      /\ Increasing(ready) => Increasing(ready') /\ \A y \in ToSet(ready') : h < y
  BY <1>1, TailFacts
<1>3. /\ taken' = Append(taken, h)
      /\ \E step \in {"recv", "busy", "done"} : MoveTo("exec", step)
  BY DEF ExecTake
<1> HIDE DEF h
<1>4. /\ at' \in [Tasks -> {"recv", "send", "busy", "done"}] /\ held' \in [Tasks -> Nat]
      /\ \A u \in Tasks \ {"exec"} : at'[u] = at[u] /\ InHand(u)' = InHand(u)
  BY <1>1, <1>3, MoveFacts
<1>5. /\ InHand("forward")' = InHand("forward") /\ InHand("runner")' = InHand("runner")
      /\ InHand("bridge")' = InHand("bridge")
  BY <1>4 DEF Tasks
<1>6. Chain(Places) /\ \A i \in 1..8 : Places[i] \subseteq Nat
  BY <1>1, PlacesNat DEF Inv, OrderInv
<1>7. \A y \in ToSet(taken) : y < h
  <2>1. ToSet(taken) = Places[1] /\ h \in Places[2]
    BY <1>2, PlacesAre
  <2> HIDE DEF Places
  <2> QED BY <1>6, <2>1 DEF Chain
<1>8. /\ taken' \in Seq(Nat) /\ ToSet(taken') = ToSet(taken) \cup {h}
      /\ Increasing(taken) => Increasing(taken')
  BY <1>1, <1>2, <1>3, <1>7, AppendFacts
<1>9. TypeInv'
  BY <1>1, <1>2, <1>4, <1>8 DEF TypeInv
<1>10. Chain(Places')
  <2>1. h \in Places[2] /\ \A y \in Places'[2] : h < y
    BY <1>2, PlacesAre, PlacesAfter DEF Inv, OrderInv
  <2>2. Places'[1] \subseteq Places[1] \cup {h}
    BY <1>8, PlacesAre, PlacesAfter
  <2>3. \A i \in 1..8 : i # 1 => Places'[i] \subseteq Places[i]
    BY <1>1, <1>2, <1>5, PlacesAre, PlacesAfter
  <2> HIDE DEF Places
  <2> QED BY <1>6, <2>1, <2>2, <2>3, ChainMoves
<1>11. OrderInv'
  BY <1>1, <1>2, <1>8, <1>10 DEF Inv, OrderInv
<1>12. LossInv'
  BY <1>1, <1>2, <1>4, <1>5, <1>8 DEF Inv, LossInv, Done, Tasks
<1> QED BY <1>9, <1>11, <1>12 DEF Inv

\* The channels start empty.
LEMMA InvInit == Init => Inv
<1> SUFFICES ASSUME Init PROVE Inv
  OBVIOUS
<1>1. /\ published = <<>> /\ cursor = 1 /\ at = [t \in Tasks |-> "recv"]
      /\ held = [t \in Tasks |-> 0] /\ snapshots = <<>> /\ triggers = <<>> /\ ready = <<>>
      /\ fired = {} /\ taken = <<>>
  BY DEF Init
<1>2. <<>> \in Seq(Nat) /\ ToSet(<<>>) = {} /\ Increasing(<<>>)
  BY DEF ToSet, Increasing
<1>3. \A t \in Tasks : ~Done(t) /\ InHand(t) = {}
  BY <1>1 DEF Done, InHand
<1>4. InHand("forward") = {} /\ InHand("runner") = {} /\ InHand("bridge") = {}
  BY <1>3 DEF Tasks
<1>5. TypeInv
  <2>1. published \in Seq(Nat)
    BY <1>1
  <2> QED BY <1>1, <1>2, <2>1 DEF TypeInv
<1>6. \A i \in 1..7 : Places[i] = {}
  <2>1. /\ ToSet(taken) = {} /\ ToSet(ready) = {} /\ ToSet(triggers) = {} /\ ToSet(snapshots) = {}
    BY <1>1, <1>2
  <2> QED BY <1>4, <2>1, PlacesAre
<1>7. Chain(Places)
  BY <1>6 DEF Chain
<1>8. OrderInv
  BY <1>1, <1>2, <1>7 DEF OrderInv
<1>9. LossInv
  BY <1>1, <1>2, <1>3, <1>4 DEF LossInv
<1> QED BY <1>5, <1>8, <1>9 DEF Inv

\* Ctrl+C and the flag: there is less to show after them.
LEMMA SignalInv ==
    ASSUME Inv, shutdown => shutdown', UNCHANGED <<published, cursor, at, held, queues, history>>
    PROVE  Inv'
<1>1. UNCHANGED <<published, cursor, at, held, snapshots, triggers, ready, taken, fired>>
  BY DEF queues, history
<1>2. TypeInv'
  BY <1>1 DEF Inv, TypeInv
<1>3. \A t \in Tasks : InHand(t)' = InHand(t)
  BY <1>1 DEF InHand
<1>4. InHand("forward")' = InHand("forward") /\ InHand("runner")' = InHand("runner")
      /\ InHand("bridge")' = InHand("bridge")
  BY <1>3 DEF Tasks
<1>5. \A i \in 1..8 : Places'[i] \subseteq Places[i]
  BY <1>1, <1>4, PlacesAre, PlacesAfter
<1>6. OrderInv'
  BY <1>1, <1>5, ChainLoses DEF Inv, OrderInv
<1>7. LossInv'
  BY <1>1, <1>4 DEF Inv, LossInv, Done
<1> QED BY <1>2, <1>6, <1>7 DEF Inv

\* Every step keeps the invariant.
LEMMA InvStep == Inv /\ [Next]_vars => Inv'
<1> SUFFICES ASSUME Inv, [Next]_vars PROVE Inv'
  OBVIOUS
<1>1. CASE BridgeStop
  BY <1>1, StopInv DEF BridgeStop, Tasks, signals
<1>2. CASE RunnerEnd
  BY <1>2, StopInv DEF RunnerEnd, Tasks, signals
<1>3. CASE ForwardStop
  BY <1>3, StopInv DEF ForwardStop, Tasks, signals
<1>4. CASE ExecStop
  BY <1>4, StopInv DEF ExecStop, Tasks, signals
<1>5. ASSUME NEW next \in {"recv", "done"}, ExecAnswer(next) PROVE Inv'
  BY <1>5, StopInv DEF ExecAnswer, Tasks, signals
<1>6. CASE CtrlC
  BY <1>6, SignalInv DEF CtrlC
<1>7. CASE FlagExec
  BY <1>7, SignalInv DEF FlagExec
<1>8. CASE UNCHANGED vars
  BY <1>8, SignalInv DEF vars, signals
<1> QED
  BY <1>1, <1>2, <1>3, <1>4, <1>5, <1>6, <1>7, <1>8, PublishInv, BridgeRecvInv, BridgeSendInv,
     RunnerRecvInv, RunnerSendInv, ForwardRecvInv, ForwardSendInv, ExecTakeInv
     DEF Next, BridgeStep, RunnerStep, ForwardStep, ExecStep

\* The invariant holds in every behaviour.
LEMMA Invariant == Spec => []Inv
BY InvInit, InvStep, PTL DEF Spec

-----------------------------------------------------------------------------
\* The theorems.

\* What a task has in hand, as a sequence.
LEMMA CarriedFacts ==
    ASSUME TypeInv, NEW t \in Tasks
    PROVE  /\ Carried(t) \in Seq(Nat) /\ ToSet(Carried(t)) = InHand(t)
           /\ Increasing(Carried(t))
<1>1. CASE at[t] = "send"
  <2>1. Carried(t) = <<held[t]>> /\ held[t] \in Nat
    BY <1>1 DEF Carried, TypeInv
  <2> QED BY <1>1, <2>1 DEF InHand, ToSet, Increasing
<1>2. CASE at[t] # "send"
  BY <1>2 DEF Carried, InHand, ToSet, Increasing
<1> QED BY <1>1, <1>2

\* Pending and what is around it, as one increasing sequence.
LEMMA InvOrders ==
    ASSUME Inv
    PROVE  /\ InOrder
           /\ ToSet(Pending) = ToSet(ready) \cup InHand("forward") \cup ToSet(triggers)
                                 \cup InHand("runner")
<1> DEFINE f == Carried("forward")
           r == Carried("runner")
           b == Carried("bridge")
           a1 == ready \o f
           a2 == a1 \o triggers
           a3 == a2 \o r
           a4 == taken \o a3
           a5 == a4 \o snapshots
<1>1. /\ f \in Seq(Nat) /\ ToSet(f) = InHand("forward") /\ Increasing(f)
      /\ r \in Seq(Nat) /\ ToSet(r) = InHand("runner") /\ Increasing(r)
      /\ b \in Seq(Nat) /\ ToSet(b) = InHand("bridge") /\ Increasing(b)
  BY CarriedFacts DEF Inv, Tasks
<1>2. /\ ready \in Seq(Nat) /\ Increasing(ready) /\ triggers \in Seq(Nat) /\ Increasing(triggers)
      /\ taken \in Seq(Nat) /\ Increasing(taken)
      /\ snapshots \in Seq(Nat) /\ Increasing(snapshots)
  BY DEF Inv, TypeInv, OrderInv
<1> DEFINE Below(S, T) == \A x \in S, y \in T : x < y
<1>3. /\ Below(ToSet(taken), ToSet(ready)) /\ Below(ToSet(taken), ToSet(f))
      /\ Below(ToSet(taken), ToSet(triggers)) /\ Below(ToSet(taken), ToSet(r))
      /\ Below(ToSet(taken), ToSet(snapshots)) /\ Below(ToSet(taken), ToSet(b))
      /\ Below(ToSet(ready), ToSet(f)) /\ Below(ToSet(ready), ToSet(triggers))
      /\ Below(ToSet(ready), ToSet(r)) /\ Below(ToSet(ready), ToSet(snapshots))
      /\ Below(ToSet(ready), ToSet(b))
      /\ Below(ToSet(f), ToSet(triggers)) /\ Below(ToSet(f), ToSet(r))
      /\ Below(ToSet(f), ToSet(snapshots)) /\ Below(ToSet(f), ToSet(b))
      /\ Below(ToSet(triggers), ToSet(r)) /\ Below(ToSet(triggers), ToSet(snapshots))
      /\ Below(ToSet(triggers), ToSet(b))
      /\ Below(ToSet(r), ToSet(snapshots)) /\ Below(ToSet(r), ToSet(b))
      /\ Below(ToSet(snapshots), ToSet(b))
  <2>1. \A j, k \in 1..8 : j < k => Below(Places[j], Places[k])
    BY DEF Inv, OrderInv, Chain
  <2>2. /\ Places[1] = ToSet(taken) /\ Places[2] = ToSet(ready) /\ Places[3] = ToSet(f)
        /\ Places[4] = ToSet(triggers) /\ Places[5] = ToSet(r)
        /\ Places[6] = ToSet(snapshots) /\ Places[7] = ToSet(b)
    BY <1>1, PlacesAre
  <2> HIDE DEF Below, f, r, b
  <2>3. \A k \in 2..7 : Below(Places[1], Places[k])
    BY <2>1
  <2>4. \A k \in 3..7 : Below(Places[2], Places[k])
    BY <2>1
  <2>5. \A k \in 4..7 : Below(Places[3], Places[k])
    BY <2>1
  <2>6. \A k \in 5..7 : Below(Places[4], Places[k])
    BY <2>1
  <2>7. \A k \in 6..7 : Below(Places[5], Places[k])
    BY <2>1
  <2>8. Below(Places[6], Places[7])
    BY <2>1
  <2> QED BY <2>2, <2>3, <2>4, <2>5, <2>6, <2>7, <2>8
<1> HIDE DEF f, r, b
<1>4. a1 \in Seq(Nat) /\ Increasing(a1) /\ ToSet(a1) = ToSet(ready) \cup ToSet(f)
  BY <1>1, <1>2, <1>3, ConcatFacts
<1> HIDE DEF a1
<1>5. /\ a2 \in Seq(Nat) /\ Increasing(a2)
      /\ ToSet(a2) = ToSet(ready) \cup ToSet(f) \cup ToSet(triggers)
  <2>1. \A x \in ToSet(a1), y \in ToSet(triggers) : x < y
    BY <1>3, <1>4
  <2>2. a1 \in Seq(Nat) /\ Increasing(a1) /\ triggers \in Seq(Nat) /\ Increasing(triggers)
    BY <1>2, <1>4
  <2> HIDE DEF Below
  <2>3. a2 \in Seq(Nat) /\ Increasing(a2) /\ ToSet(a2) = ToSet(a1) \cup ToSet(triggers)
    BY ONLY <2>1, <2>2, ConcatFacts DEF a2
  <2> QED BY ONLY <2>3, <1>4
<1> HIDE DEF a2
<1>6. /\ a3 \in Seq(Nat) /\ Increasing(a3)
      /\ ToSet(a3) = ToSet(ready) \cup ToSet(f) \cup ToSet(triggers) \cup ToSet(r)
  <2>1. \A x \in ToSet(a2), y \in ToSet(r) : x < y
    BY <1>3, <1>5
  <2>2. a2 \in Seq(Nat) /\ Increasing(a2) /\ r \in Seq(Nat) /\ Increasing(r)
    BY <1>1, <1>5
  <2> HIDE DEF Below
  <2>3. a3 \in Seq(Nat) /\ Increasing(a3) /\ ToSet(a3) = ToSet(a2) \cup ToSet(r)
    BY ONLY <2>1, <2>2, ConcatFacts DEF a3
  <2> QED BY ONLY <2>3, <1>5
<1> HIDE DEF a3
<1>7. /\ a4 \in Seq(Nat) /\ Increasing(a4)
      /\ ToSet(a4) = ToSet(taken) \cup ToSet(ready) \cup ToSet(f) \cup ToSet(triggers) \cup ToSet(r)
  <2>1. \A x \in ToSet(taken), y \in ToSet(a3) : x < y
    BY <1>3, <1>6
  <2>2. a3 \in Seq(Nat) /\ Increasing(a3) /\ taken \in Seq(Nat) /\ Increasing(taken)
    BY <1>2, <1>6
  <2> HIDE DEF Below
  <2>3. a4 \in Seq(Nat) /\ Increasing(a4) /\ ToSet(a4) = ToSet(taken) \cup ToSet(a3)
    BY ONLY <2>1, <2>2, ConcatFacts DEF a4
  <2> QED BY ONLY <2>3, <1>6
<1> HIDE DEF a4
<1>8. /\ a5 \in Seq(Nat) /\ Increasing(a5)
      /\ ToSet(a5) = ToSet(taken) \cup ToSet(ready) \cup ToSet(f) \cup ToSet(triggers)
                       \cup ToSet(r) \cup ToSet(snapshots)
  <2>1. \A x \in ToSet(a4), y \in ToSet(snapshots) : x < y
    BY <1>3, <1>7
  <2>2. a4 \in Seq(Nat) /\ Increasing(a4) /\ snapshots \in Seq(Nat) /\ Increasing(snapshots)
    BY <1>2, <1>7
  <2> HIDE DEF Below
  <2>3. a5 \in Seq(Nat) /\ Increasing(a5) /\ ToSet(a5) = ToSet(a4) \cup ToSet(snapshots)
    BY ONLY <2>1, <2>2, ConcatFacts DEF a5
  <2> QED BY ONLY <2>3, <1>7
<1> HIDE DEF a5
<1>9. Increasing(a5 \o b)
  BY <1>1, <1>2, <1>3, <1>8, ConcatFacts
<1>10. Pending = a3 /\ taken \o Pending \o snapshots \o Carried("bridge") = a5 \o b
  BY DEF Pending, a1, a2, a3, a4, a5, f, r, b
<1> QED BY <1>1, <1>6, <1>9, <1>10 DEF InOrder

\* The loop acts on snapshots in the order they were published and on each at most
\* once, for any capacities and interleaving, through lag, blocking and shutdown.
THEOREM TakenInOrder == Spec => []InOrder
BY Invariant, InvOrders, PTL

\* Until the shutdown or the end of the loop every trigger is taken or on its way.
THEOREM TriggersKept == Spec => []NothingLost
<1>1. Inv => NothingLost
  BY InvOrders DEF Inv, LossInv, NothingLost
<1> QED BY <1>1, Invariant, PTL

-----------------------------------------------------------------------------
\* The orders.

Texts == [form : STRING, units : Nat, places : Nat]

\* What the feed may publish.
Books == UNION {{[asset |-> a, bid |-> t.bid, ask |-> t.ask] : t \in Tops[a]} : a \in DOMAIN Tops}

\* The part of the configuration that triggers and orders are made from.
ConfigInv ==
    /\ ToSet(SubscribedAssets(config)) \subseteq DOMAIN Tops
    /\ Buildable(config.strategy)
    /\ \E c \in Configs : config.strategy = c.strategy

\* The snapshots the runner is to see, and the triggers the loop is to see.
Snaps == ToSet(snapshots) \cup InHand("bridge")
Made == ToSet(ready) \cup InHand("forward") \cup ToSet(triggers) \cup InHand("runner")

\* A trigger was made of a snapshot that was published and may call for it, and an
\* order of a trigger of which one can be built.
FiredInv ==
    /\ ConfigInv
    /\ published \in Seq(Books) /\ cursor \in Nat \ {0}
    /\ Snaps \subseteq DOMAIN published /\ Made \subseteq fired
    /\ fired \subseteq DOMAIN published /\ sent \subseteq fired
    /\ \A s \in fired : TRUE \in Fires(config.strategy, published[s])
    /\ \A s \in sent : BuildsOrder(TriggerOf(s))

\* A step that makes no trigger and sends no order.
LEMMA FiredKept ==
    ASSUME FiredInv, UNCHANGED <<config, published, fired, sent>>, cursor' \in Nat \ {0},
           Snaps' \subseteq DOMAIN published, Made' \subseteq Made
    PROVE  FiredInv'
BY DEF FiredInv, ConfigInv, TriggerOf

\* A snapshot is published behind the others.
LEMMA PublishFired == ASSUME FiredInv, Publish PROVE FiredInv'
<1>0. PICK asset \in ToSet(SubscribedAssets(config)) : \E top \in Tops[asset] :
          published' = Append(published, [asset |-> asset, bid |-> top.bid, ask |-> top.ask])
  BY DEF Publish
<1>1. PICK top \in Tops[asset] :
          published' = Append(published, [asset |-> asset, bid |-> top.bid, ask |-> top.ask])
  BY <1>0
<1> DEFINE x == [asset |-> asset, bid |-> top.bid, ask |-> top.ask]
<1>2. x \in Books
  <2>1. asset \in DOMAIN Tops
    BY DEF FiredInv, ConfigInv
  <2> QED BY <2>1 DEF Books
<1> HIDE DEF x
<1>3. /\ published \in Seq(Books) /\ published' = Append(published, x)
      /\ UNCHANGED <<config, cursor, at, held, snapshots, triggers, ready, fired, sent>>
  BY <1>1 DEF x, FiredInv, Publish, queues, history
<1>4. /\ published' \in Seq(Books) /\ DOMAIN published \subseteq DOMAIN published'
      /\ \A s \in DOMAIN published : published'[s] = published[s]
  BY <1>2, <1>3
<1>5. Snaps' = Snaps /\ Made' = Made
  BY <1>3 DEF Snaps, Made, InHand
<1>6. /\ \A s \in fired' : TRUE \in Fires(config'.strategy, published'[s])
      /\ \A s \in sent' : BuildsOrder(TriggerOf(s)')
  BY <1>3, <1>4 DEF FiredInv, TriggerOf
<1>7. ConfigInv'
  BY <1>3 DEF FiredInv, ConfigInv
<1> QED BY <1>3, <1>4, <1>5, <1>6, <1>7 DEF FiredInv

\* The bridge takes a snapshot that was published in hand, or skips some.
LEMMA BridgeRecvFired == ASSUME Inv, FiredInv, BridgeRecv PROVE FiredInv'
<1>1. /\ UNCHANGED <<config, published, snapshots, triggers, ready, fired, sent>>
      /\ cursor \in Nat \ {0} /\ cursor <= Len(published) /\ published \in Seq(Books)
      /\ TypeInv /\ "bridge" \in Tasks
  BY DEF BridgeRecv, FiredInv, queues, history, Inv, Tasks
<1>2. CASE cursor < Oldest
  <2>1. Oldest \in Int
    BY <1>1, PipelineAssumption DEF Oldest
  <2>2. cursor' = Oldest /\ UNCHANGED <<at, held>>
    BY <1>2 DEF BridgeRecv
  <2>3. cursor' \in Nat \ {0}
    BY <1>1, <1>2, <2>1, <2>2
  <2>4. Snaps' = Snaps /\ Made' = Made
    BY <1>1, <2>2 DEF Snaps, Made, InHand
  <2> QED BY <1>1, <2>3, <2>4, FiredKept DEF FiredInv
<1>3. CASE ~(cursor < Oldest)
  <2>1. cursor' = cursor + 1 /\ Carry("bridge", cursor)
    BY <1>3 DEF BridgeRecv
  <2>2. InHand("bridge")' = {cursor} /\ \A u \in Tasks \ {"bridge"} : InHand(u)' = InHand(u)
    BY <1>1, <2>1, CarryFacts
  <2>3. Snaps' \subseteq Snaps \cup {cursor} /\ Made' = Made
    BY <1>1, <2>2 DEF Snaps, Made, Tasks
  <2>4. cursor \in DOMAIN published /\ cursor' \in Nat \ {0}
    BY <1>1, <2>1
  <2> QED BY <1>1, <2>3, <2>4, FiredKept DEF FiredInv
<1> QED BY <1>2, <1>3

\* A snapshot goes on to the runner's channel, or is dropped with the task.
LEMMA BridgeSendFired == ASSUME Inv, FiredInv, BridgeSend PROVE FiredInv'
<1>1. /\ UNCHANGED <<config, published, cursor, held, triggers, ready, fired, sent>>
      /\ TypeInv /\ "bridge" \in Tasks /\ at["bridge"] = "send"
      /\ snapshots \in Seq(Nat) /\ held["bridge"] \in Nat
  BY DEF BridgeSend, history, Inv, TypeInv, Tasks
<1>2. \E step \in {"recv", "busy", "done"} : MoveTo("bridge", step)
  BY DEF BridgeSend
<1>3. InHand("bridge")' = {} /\ \A u \in Tasks \ {"bridge"} : InHand(u)' = InHand(u)
  BY <1>1, <1>2, MoveFacts
<1>4. ToSet(snapshots)' \subseteq ToSet(snapshots) \cup {held["bridge"]}
  BY <1>1, AppendFacts DEF BridgeSend
<1>5. Snaps' \subseteq Snaps /\ Made' = Made
  BY <1>1, <1>3, <1>4 DEF Snaps, Made, Tasks, InHand
<1> QED BY <1>1, <1>5, FiredKept DEF FiredInv

\* The runner makes a trigger, or none, of the snapshot it takes.
LEMMA RunnerRecvFired ==
    ASSUME Inv, FiredInv, NEW fires \in BOOLEAN, RunnerRecv(fires) PROVE FiredInv'
<1> DEFINE h == Head(snapshots)
<1>1. /\ UNCHANGED <<config, published, cursor, triggers, ready, sent>>
      /\ TypeInv /\ "runner" \in Tasks
      /\ snapshots # <<>> /\ snapshots' = Tail(snapshots) /\ snapshots \in Seq(Nat)
      /\ fires \in Fires(config.strategy, published[h])
  BY DEF RunnerRecv, Inv, TypeInv, Tasks
<1>2. /\ h \in Nat /\ h \in ToSet(snapshots) /\ ToSet(snapshots)' \subseteq ToSet(snapshots)
  BY <1>1, TailFacts
<1>3. h \in DOMAIN published
  BY <1>2 DEF FiredInv, Snaps
<1>4. CASE fires
  <2>1. Carry("runner", h) /\ fired' = fired \cup {h}
    BY <1>4 DEF RunnerRecv
  <2>2. TRUE \in Fires(config.strategy, published[h])
    BY <1>1, <1>4
  <2> HIDE DEF h
  <2>3. InHand("runner")' = {h} /\ \A u \in Tasks \ {"runner"} : InHand(u)' = InHand(u)
    BY <1>1, <1>2, <2>1, CarryFacts
  <2>4. Snaps' \subseteq Snaps /\ Made' \subseteq Made \cup {h}
    BY <1>1, <1>2, <2>3 DEF Snaps, Made, Tasks
  <2>5. /\ \A s \in fired' : TRUE \in Fires(config'.strategy, published'[s])
        /\ \A s \in sent' : BuildsOrder(TriggerOf(s)')
    BY <1>1, <2>1, <2>2 DEF FiredInv, TriggerOf
  <2>6. ConfigInv'
    BY <1>1 DEF FiredInv, ConfigInv
  <2> QED BY <1>1, <1>3, <2>1, <2>4, <2>5, <2>6 DEF FiredInv
<1>5. CASE ~fires
  <2>1. UNCHANGED <<at, held, fired>>
    BY <1>5 DEF RunnerRecv
  <2>2. Snaps' \subseteq Snaps /\ Made' = Made
    BY <1>1, <1>2, <2>1 DEF Snaps, Made, InHand
  <2> QED BY <1>1, <2>1, <2>2, FiredKept DEF FiredInv
<1> QED BY <1>4, <1>5

\* A trigger goes on to the forwarding task's channel, or is dropped with the task.
LEMMA RunnerSendFired == ASSUME Inv, FiredInv, RunnerSend PROVE FiredInv'
<1>1. /\ UNCHANGED <<config, published, cursor, held, snapshots, ready, fired, sent>>
      /\ TypeInv /\ "runner" \in Tasks /\ at["runner"] = "send"
      /\ triggers \in Seq(Nat) /\ held["runner"] \in Nat
  BY DEF RunnerSend, history, Inv, TypeInv, Tasks
<1>2. \E step \in {"recv", "busy", "done"} : MoveTo("runner", step)
  BY DEF RunnerSend
<1>3. InHand("runner")' = {} /\ \A u \in Tasks \ {"runner"} : InHand(u)' = InHand(u)
  BY <1>1, <1>2, MoveFacts
<1>4. ToSet(triggers)' \subseteq ToSet(triggers) \cup {held["runner"]}
  BY <1>1, AppendFacts DEF RunnerSend
<1>5. Snaps' = Snaps /\ Made' \subseteq Made
  BY <1>1, <1>3, <1>4 DEF Snaps, Made, Tasks, InHand
<1> QED BY <1>1, <1>5, FiredKept DEF FiredInv

\* The forwarding task takes a trigger in hand.
LEMMA ForwardRecvFired == ASSUME Inv, FiredInv, ForwardRecv PROVE FiredInv'
<1> DEFINE h == Head(triggers)
<1>1. /\ UNCHANGED <<config, published, cursor, snapshots, ready, fired, sent>>
      /\ TypeInv /\ "forward" \in Tasks /\ Carry("forward", h)
      /\ triggers # <<>> /\ triggers' = Tail(triggers) /\ triggers \in Seq(Nat)
  BY DEF ForwardRecv, history, Inv, TypeInv, Tasks
<1>2. h \in Nat /\ h \in ToSet(triggers) /\ ToSet(triggers)' \subseteq ToSet(triggers)
  BY <1>1, TailFacts
<1> HIDE DEF h
<1>3. InHand("forward")' = {h} /\ \A u \in Tasks \ {"forward"} : InHand(u)' = InHand(u)
  BY <1>1, <1>2, CarryFacts
<1>4. Snaps' = Snaps /\ Made' \subseteq Made
  BY <1>1, <1>2, <1>3 DEF Snaps, Made, Tasks
<1> QED BY <1>1, <1>4, FiredKept DEF FiredInv

\* A trigger goes on to the loop's channel, or is dropped with the task.
LEMMA ForwardSendFired == ASSUME Inv, FiredInv, ForwardSend PROVE FiredInv'
<1>1. /\ UNCHANGED <<config, published, cursor, held, snapshots, triggers, fired, sent>>
      /\ TypeInv /\ "forward" \in Tasks /\ at["forward"] = "send"
      /\ ready \in Seq(Nat) /\ held["forward"] \in Nat
  BY DEF ForwardSend, history, Inv, TypeInv, Tasks
<1>2. \E step \in {"recv", "busy", "done"} : MoveTo("forward", step)
  BY DEF ForwardSend
<1>3. InHand("forward")' = {} /\ \A u \in Tasks \ {"forward"} : InHand(u)' = InHand(u)
  BY <1>1, <1>2, MoveFacts
<1>4. ToSet(ready)' \subseteq ToSet(ready) \cup {held["forward"]}
  BY <1>1, AppendFacts DEF ForwardSend
<1>5. Snaps' = Snaps /\ Made' \subseteq Made
  BY <1>1, <1>3, <1>4 DEF Snaps, Made, Tasks, InHand
<1> QED BY <1>1, <1>5, FiredKept DEF FiredInv

\* The loop takes a trigger, and sends an order only if it could be built.
LEMMA ExecTakeFired == ASSUME Inv, FiredInv, ExecTake PROVE FiredInv'
<1> DEFINE h == Head(ready)
<1>1. /\ UNCHANGED <<config, published, cursor, held, snapshots, triggers, fired>>
      /\ TypeInv /\ "exec" \in Tasks
      /\ ready # <<>> /\ ready' = Tail(ready) /\ ready \in Seq(Nat)
  BY DEF ExecTake, Inv, TypeInv, Tasks
<1>2. h \in ToSet(ready) /\ ToSet(ready)' \subseteq ToSet(ready)
  BY <1>1, TailFacts
<1>3. \E step \in {"recv", "busy", "done"} : MoveTo("exec", step)
  BY DEF ExecTake
<1>4. \A u \in Tasks \ {"exec"} : InHand(u)' = InHand(u)
  BY <1>1, <1>3, MoveFacts
<1>5. Snaps' = Snaps /\ Made' \subseteq Made
  BY <1>1, <1>2, <1>4 DEF Snaps, Made, Tasks
<1>6. sent' = sent \/ (sent' = sent \cup {h} /\ BuildsOrder(TriggerOf(h)))
  BY DEF ExecTake
<1>7. h \in fired
  BY <1>2 DEF FiredInv, Made
<1> HIDE DEF h
<1>8. /\ \A s \in fired' : TRUE \in Fires(config'.strategy, published'[s])
      /\ \A s \in sent' : BuildsOrder(TriggerOf(s)')
  BY <1>1, <1>6 DEF FiredInv, TriggerOf
<1>9. ConfigInv'
  BY <1>1 DEF FiredInv, ConfigInv
<1> QED BY <1>1, <1>5, <1>6, <1>7, <1>8, <1>9 DEF FiredInv

\* A task stops or the exchange answers: nothing new is in hand.
LEMMA StopFired ==
    ASSUME Inv, FiredInv, NEW t \in Tasks, NEW step \in {"recv", "busy", "done"}, MoveTo(t, step),
           UNCHANGED <<config, published, cursor, held, queues, history>>
    PROVE  FiredInv'
<1>1. /\ UNCHANGED <<config, published, cursor, held, snapshots, triggers, ready, fired, sent>>
      /\ TypeInv
  BY DEF queues, history, Inv
<1>2. \A u \in Tasks : InHand(u)' \subseteq InHand(u)
  BY <1>1, MoveFacts
<1>3. Snaps' \subseteq Snaps /\ Made' \subseteq Made
  BY <1>1, <1>2 DEF Snaps, Made, Tasks
<1> QED BY <1>1, <1>3, FiredKept DEF FiredInv

\* The configuration is one of those there may be, and nothing is on its way.
LEMMA FiredInit == Init => FiredInv
<1> SUFFICES ASSUME Init PROVE FiredInv
  OBVIOUS
<1>1. PICK c \in Configs :
          config = [creds |-> Overridden(c.file, c.env), dryRun |-> c.dryRun,
                    strategy |-> c.strategy, feeRateBps |-> c.feeRateBps, negRisk |-> c.negRisk,
                    assetIds |-> c.assetIds, bindings |-> c.bindings, workers |-> c.workers]
  BY DEF Init
<1>2. ConfigInv
  <2>1. /\ config.strategy = c.strategy /\ config.assetIds = c.assetIds
        /\ config.bindings = c.bindings
    BY <1>1
  <2>2. SubscribedAssets(config) = SubscribedAssets(c)
    BY <2>1 DEF SubscribedAssets
  <2>3. ToSet(SubscribedAssets(c)) \subseteq DOMAIN Tops
    BY TextsAssumption
  <2>4. Buildable(config.strategy)
    BY DEF Init, Starts
  <2> QED BY <2>1, <2>2, <2>3, <2>4 DEF ConfigInv
<1>3. /\ published = <<>> /\ cursor = 1 /\ at = [t \in Tasks |-> "recv"]
      /\ snapshots = <<>> /\ triggers = <<>> /\ ready = <<>> /\ fired = {} /\ sent = {}
  BY DEF Init
<1>4. ToSet(<<>>) = {} /\ \A t \in Tasks : InHand(t) = {}
  BY <1>3 DEF ToSet, InHand
<1>5. Snaps = {} /\ Made = {}
  BY <1>3, <1>4 DEF Snaps, Made, Tasks
<1> QED BY <1>2, <1>3, <1>5 DEF FiredInv

\* Every step keeps it.
LEMMA FiredStep == Inv /\ FiredInv /\ [Next]_vars => FiredInv'
<1> SUFFICES ASSUME Inv, FiredInv, [Next]_vars PROVE FiredInv'
  OBVIOUS
<1>1. CASE BridgeStop
  BY <1>1, StopFired DEF BridgeStop, Tasks
<1>2. CASE RunnerEnd
  BY <1>2, StopFired DEF RunnerEnd, Tasks
<1>3. CASE ForwardStop
  BY <1>3, StopFired DEF ForwardStop, Tasks
<1>4. CASE ExecStop
  BY <1>4, StopFired DEF ExecStop, Tasks
<1>5. ASSUME NEW next \in {"recv", "done"}, ExecAnswer(next) PROVE FiredInv'
  BY <1>5, StopFired DEF ExecAnswer, Tasks
<1>6. CASE CtrlC \/ FlagExec \/ UNCHANGED vars
  <2>1. UNCHANGED <<config, published, cursor, at, held, snapshots, triggers, ready, fired, sent>>
    BY <1>6 DEF CtrlC, FlagExec, vars, queues, history
  <2>2. Snaps' = Snaps /\ Made' = Made
    BY <2>1 DEF Snaps, Made, InHand
  <2> QED BY <2>1, <2>2, FiredKept DEF FiredInv
<1> QED
  BY <1>1, <1>2, <1>3, <1>4, <1>5, <1>6, PublishFired, BridgeRecvFired, BridgeSendFired,
     RunnerRecvFired, RunnerSendFired, ForwardRecvFired, ForwardSendFired, ExecTakeFired
     DEF Next, BridgeStep, RunnerStep, ForwardStep, ExecStep

\* It holds in every behaviour.
LEMMA FiredAlways == Spec => []FiredInv
<1>1. Init => FiredInv
  BY FiredInit
<1>2. Inv /\ FiredInv /\ [Next]_vars => FiredInv'
  BY FiredStep
<1> QED BY <1>1, <1>2, Invariant, PTL DEF Spec

-----------------------------------------------------------------------------
\* Amounts.  The exponents of the scales are at most six.

Ten == [n \in 0..6 |-> 10^n]

LEMMA PowersOfTen ==
    /\ \A n \in 0..6 : Ten[n] \in Nat \ {0}
    /\ \A a, b \in 0..6 : a + b <= 6 => Ten[a + b] = Ten[a] * Ten[b]
<1>1. /\ Ten[0] = 1 /\ Ten[1] = 10 /\ Ten[2] = 100 /\ Ten[3] = 1000
      /\ Ten[4] = 10000 /\ Ten[5] = 100000 /\ Ten[6] = 1000000
  BY SMT DEF Ten
<1>2. \A n \in 0..6 : n = 0 \/ n = 1 \/ n = 2 \/ n = 3 \/ n = 4 \/ n = 5 \/ n = 6
  OBVIOUS
<1>3. \A n \in 0..6 : Ten[n] \in Nat \ {0}
  BY <1>1, <1>2
<1>4. \A n \in 0..5 : Ten[n + 1] = 10 * Ten[n]
  <2>1. \A n \in 0..5 : n = 0 \/ n = 1 \/ n = 2 \/ n = 3 \/ n = 4 \/ n = 5
    OBVIOUS
  <2>2. /\ Ten[0 + 1] = 10 * Ten[0] /\ Ten[1 + 1] = 10 * Ten[1] /\ Ten[2 + 1] = 10 * Ten[2]
        /\ Ten[3 + 1] = 10 * Ten[3] /\ Ten[4 + 1] = 10 * Ten[4] /\ Ten[5 + 1] = 10 * Ten[5]
    BY <1>1
  <2> QED BY <2>1, <2>2, Zenon
<1>5. ASSUME NEW a \in 0..6, NEW b \in 0..6, a + b <= 6 PROVE Ten[a + b] = Ten[a] * Ten[b]
  <2>1. b \in 0..6 /\ Ten[b] \in Nat
    BY <1>3
  <2>2. a = 0 => Ten[a + b] = Ten[b]
    BY <2>1
  <2>3. a >= 1 => Ten[1 + b] = 10 * Ten[b]
    <3>1. a >= 1 => b \in 0..5 /\ 1 + b = b + 1
      BY <1>5
    <3> QED BY <1>4, <3>1
  <2>4. a >= 2 => Ten[2 + b] = 10 * Ten[1 + b]
    <3>1. a >= 2 => 1 + b \in 0..5 /\ 2 + b = (1 + b) + 1
      BY <1>5
    <3> QED BY <1>4, <3>1
  <2>5. a >= 3 => Ten[3 + b] = 10 * Ten[2 + b]
    <3>1. a >= 3 => 2 + b \in 0..5 /\ 3 + b = (2 + b) + 1
      BY <1>5
    <3> QED BY <1>4, <3>1
  <2>6. a >= 4 => Ten[4 + b] = 10 * Ten[3 + b]
    <3>1. a >= 4 => 3 + b \in 0..5 /\ 4 + b = (3 + b) + 1
      BY <1>5
    <3> QED BY <1>4, <3>1
  <2>7. a >= 5 => Ten[5 + b] = 10 * Ten[4 + b]
    <3>1. a >= 5 => 4 + b \in 0..5 /\ 5 + b = (4 + b) + 1
      BY <1>5
    <3> QED BY <1>4, <3>1
  <2>8. a >= 6 => Ten[6 + b] = 10 * Ten[5 + b]
    <3>1. a >= 6 => 5 + b \in 0..5 /\ 6 + b = (5 + b) + 1
      BY <1>5
    <3> QED BY <1>4, <3>1
  <2>9. CASE a = 0
    BY <1>1, <2>1, <2>2, <2>9
  <2>10. CASE a = 1
    BY <1>1, <2>1, <2>3, <2>10
  <2>11. CASE a = 2
    BY <1>1, <2>1, <2>3, <2>4, <2>11
  <2>12. CASE a = 3
    BY <1>1, <2>1, <2>3, <2>4, <2>5, <2>12
  <2>13. CASE a = 4
    BY <1>1, <2>1, <2>3, <2>4, <2>5, <2>6, <2>13
  <2>14. CASE a = 5
    BY <1>1, <2>1, <2>3, <2>4, <2>5, <2>6, <2>7, <2>14
  <2>15. CASE a = 6
    BY <1>1, <2>1, <2>3, <2>4, <2>5, <2>6, <2>7, <2>8, <2>15
  <2> QED BY <1>2, <2>9, <2>10, <2>11, <2>12, <2>13, <2>14, <2>15
<1> QED BY <1>3, <1>5

\* The scale, split at any number of digits.
LEMMA ScaleFacts ==
    /\ Unit \in Nat \ {0} /\ Cent \in Nat \ {0} /\ Unit = 100 * Cent
    /\ Decimals \in 2..6
    /\ \A a \in 0..Decimals : /\ 10^a = Ten[a] /\ 10^(Decimals - a) = Ten[Decimals - a]
                              /\ Ten[a] \in Nat \ {0} /\ Ten[Decimals - a] \in Nat \ {0}
                              /\ Ten[a] * Ten[Decimals - a] = Unit
<1>1. Decimals \in 2..6
  BY OrdersAssumption
<1>2. \A n \in 0..6 : 10^n = Ten[n]
  BY Zenon DEF Ten
<1>3. Unit = Ten[Decimals] /\ Cent = Ten[Decimals - 2]
  <2>1. Decimals \in 0..6 /\ Decimals - 2 \in 0..6
    BY <1>1
  <2> QED BY <1>2, <2>1, Zenon DEF Unit, Cent
<1>4. ASSUME NEW a \in 0..Decimals
      PROVE  /\ 10^a = Ten[a] /\ 10^(Decimals - a) = Ten[Decimals - a]
             /\ Ten[a] \in Nat \ {0} /\ Ten[Decimals - a] \in Nat \ {0}
             /\ Ten[a] * Ten[Decimals - a] = Unit
  <2>1. a \in 0..6 /\ Decimals - a \in 0..6 /\ a + (Decimals - a) = Decimals
    BY <1>1
  <2>2. 10^a = Ten[a] /\ 10^(Decimals - a) = Ten[Decimals - a]
    BY <1>2, <2>1, Zenon
  <2>3. Ten[a] \in Nat \ {0} /\ Ten[Decimals - a] \in Nat \ {0}
    BY <2>1, PowersOfTen
  <2>4. Ten[a + (Decimals - a)] = Ten[a] * Ten[Decimals - a]
    <3>1. a + (Decimals - a) <= 6
      BY <1>1
    <3> QED BY <2>1, <3>1, PowersOfTen
  <2> QED BY <1>3, <2>1, <2>2, <2>3, <2>4
<1>5. Unit \in Nat \ {0} /\ Cent \in Nat \ {0} /\ Unit = Ten[2] * Cent
  <2>1. 2 \in 0..Decimals /\ Decimals \in 0..6 /\ Decimals - 2 \in 0..6
    BY <1>1
  <2> QED BY <1>3, <1>4, <2>1, PowersOfTen
<1>6. Ten[2] = 100
  BY SMT DEF Ten
<1> QED BY <1>1, <1>4, <1>5, <1>6

\* Whole division.
LEMMA DivFacts ==
    ASSUME NEW a \in Nat, NEW b \in Nat \ {0}
    PROVE  a \div b \in Nat /\ (a \div b) * b <= a /\ a < ((a \div b) + 1) * b
OBVIOUS

\* What parses has no more digits than the scale, and its value in base units.
LEMMA ParsedFacts ==
    ASSUME NEW t \in Texts, ParseScaled(t) # NoAmount
    PROVE  /\ Parses(t) /\ t.places \in 0..Decimals /\ t.units \in Nat
           /\ ParseScaled(t) = t.units * Ten[Decimals - t.places]
           /\ ParseScaled(t) = ValueAt(t, Decimals) /\ ParseScaled(t) \in Nat
<1>1. /\ Parses(t) /\ ~(t.places > Decimals)
      /\ ParseScaled(t) = ValueAt(t, Decimals)
  BY DEF ParseScaled
<1>2. t.places \in Nat /\ t.units \in Nat
  BY DEF Texts
<1>3. Decimals \in 2..6
  BY ScaleFacts
<1>4. t.places \in 0..Decimals
  BY <1>1, <1>2, <1>3
<1>5. 10^(Decimals - t.places) = Ten[Decimals - t.places] /\ Ten[Decimals - t.places] \in Nat
  BY <1>4, ScaleFacts
<1>6. ValueAt(t, Decimals) = t.units * Ten[Decimals - t.places]
  BY <1>5 DEF ValueAt
<1> QED BY <1>1, <1>2, <1>4, <1>5, <1>6

\* The USDC of an order that can be built.
LEMMA AmountFacts ==
    ASSUME NEW p \in Texts, NEW s \in Texts, UsdcAmount(p, s) # NoAmount
    PROVE  /\ ParseScaled(p) # NoAmount /\ ParseScaled(s) # NoAmount
           /\ UsdcAmount(p, s) = (ParseScaled(p) * ParseScaled(s)) \div Unit
BY DEF UsdcAmount

\* Dropping the fraction of a base unit, and of a cent, of the same product: A and
\* B are the scales of the two texts, A1 and B1 what is missing to the unit.
LEMMA CentsNear ==
    ASSUME NEW N \in Nat, NEW A \in Nat \ {0}, NEW B \in Nat \ {0}, NEW A1 \in Nat \ {0},
           NEW B1 \in Nat \ {0}, NEW U \in Nat \ {0}, NEW C \in Nat \ {0},
           A * A1 = U, B * B1 = U, U = 100 * C
    PROVE  LET usdc == (N * (A1 * B1)) \div U
               cents == (N * 100) \div (A * B)
           IN  usdc \in Nat /\ cents \in Nat /\ cents * C < usdc + 1 /\ usdc < (cents + 1) * C
<1> DEFINE P == A * B
           Q == A1 * B1
           usdc == (N * Q) \div U
           cents == (N * 100) \div P
<1>1. P \in Nat \ {0} /\ Q \in Nat \ {0} /\ P * Q = U * U
  <2>1. P \in Nat \ {0} /\ Q \in Nat \ {0}
    OBVIOUS
  <2>2. P * Q = (A * A1) * (B * B1)
    OBVIOUS
  <2> QED BY <2>1, <2>2
<1> HIDE DEF P, Q
<1>2. usdc \in Nat /\ usdc * U <= N * Q /\ N * Q < (usdc + 1) * U
  <2>1. N * Q \in Nat
    BY <1>1
  <2> QED BY <2>1, DivFacts
<1>3. cents \in Nat /\ cents * P <= N * 100 /\ N * 100 < (cents + 1) * P
  BY <1>1, DivFacts
<1> HIDE DEF usdc, cents
<1>4. cents * U < 100 * (usdc + 1)
  <2>1. (cents * P) * Q <= (N * 100) * Q
    BY <1>1, <1>3
  <2>2. (cents * P) * Q = (cents * U) * U
    <3>1. (cents * P) * Q = cents * (P * Q) /\ (cents * U) * U = cents * (U * U)
      BY <1>1, <1>3
    <3> QED BY <1>1, <3>1
  <2>3. (N * 100) * Q < (100 * (usdc + 1)) * U
    <3>1. (N * 100) * Q = 100 * (N * Q) /\ (100 * (usdc + 1)) * U = 100 * ((usdc + 1) * U)
      BY <1>1, <1>2
    <3> QED BY <1>1, <1>2, <3>1
  <2>4. (cents * U) * U < (100 * (usdc + 1)) * U
    BY <1>1, <1>2, <1>3, <2>1, <2>2, <2>3
  <2> QED BY <1>2, <1>3, <2>4
<1>5. 100 * usdc < (cents + 1) * U
  <2>1. (N * 100) * Q < ((cents + 1) * P) * Q
    BY <1>1, <1>3
  <2>2. ((cents + 1) * P) * Q = ((cents + 1) * U) * U
    <3>1. /\ ((cents + 1) * P) * Q = (cents + 1) * (P * Q)
          /\ ((cents + 1) * U) * U = (cents + 1) * (U * U)
      BY <1>1, <1>3
    <3> QED BY <1>1, <3>1
  <2>3. (100 * usdc) * U <= (N * 100) * Q
    <3>1. (N * 100) * Q = 100 * (N * Q) /\ (100 * usdc) * U = 100 * (usdc * U)
      BY <1>1, <1>2
    <3> QED BY <1>1, <1>2, <3>1
  <2>4. (100 * usdc) * U < ((cents + 1) * U) * U
    BY <1>1, <1>2, <1>3, <2>1, <2>2, <2>3
  <2> QED BY <1>2, <1>3, <2>4
<1>6. cents * U = 100 * (cents * C) /\ (cents + 1) * U = 100 * ((cents + 1) * C)
  BY <1>3
<1>7. cents * C < usdc + 1 /\ usdc < (cents + 1) * C
  BY <1>2, <1>3, <1>4, <1>5, <1>6
<1> QED BY <1>2, <1>3, <1>7 DEF usdc, cents, P, Q

\* What the breaker may count for a trigger, next to what its order moves.
LEMMA CountNear ==
    ASSUME NEW t, t.price \in Texts, t.size \in Texts, UsdcAmount(t.price, t.size) # NoAmount,
           NEW cents \in CentsCounted(t)
    PROVE  /\ cents * Cent - 2 * Cent < UsdcAmount(t.price, t.size)
           /\ UsdcAmount(t.price, t.size) < cents * Cent + 2 * Cent
<1> DEFINE p == t.price
           s == t.size
           A == Ten[p.places]
           B == Ten[s.places]
           A1 == Ten[Decimals - p.places]
           B1 == Ten[Decimals - s.places]
           N == p.units * s.units
           usdc == (N * (A1 * B1)) \div Unit
           whole == (N * 100) \div (A * B)
<1>1. /\ Parses(p) /\ p.places \in 0..Decimals /\ p.units \in Nat /\ ParseScaled(p) = p.units * A1
      /\ Parses(s) /\ s.places \in 0..Decimals /\ s.units \in Nat /\ ParseScaled(s) = s.units * B1
      /\ UsdcAmount(p, s) = (ParseScaled(p) * ParseScaled(s)) \div Unit
  BY AmountFacts, ParsedFacts
<1>2. /\ A \in Nat \ {0} /\ A1 \in Nat \ {0} /\ A * A1 = Unit /\ 10^p.places = A
      /\ B \in Nat \ {0} /\ B1 \in Nat \ {0} /\ B * B1 = Unit /\ 10^s.places = B
      /\ Unit \in Nat \ {0} /\ Cent \in Nat \ {0} /\ Unit = 100 * Cent
  BY <1>1, ScaleFacts
<1>3. cents = whole \/ cents = whole - 1
  <2>1. /\ p.units * s.units * 100 = N * 100
        /\ 10^p.places * 10^s.places = A * B
    BY <1>2
  <2>2. cents \in {(p.units * s.units * 100) \div (10^p.places * 10^s.places),
                   (p.units * s.units * 100) \div (10^p.places * 10^s.places) - 1}
    BY <1>1 DEF CentsCounted
  <2> QED BY <2>1, <2>2
<1> HIDE DEF A, B, A1, B1
<1>4. N \in Nat
  BY <1>1
<1>5. UsdcAmount(p, s) = usdc
  <2>1. (p.units * A1) * (s.units * B1) = N * (A1 * B1)
    BY <1>1, <1>2
  <2> QED BY <1>1, <2>1
<1> HIDE DEF p, s, N
<1>6. usdc \in Nat /\ whole \in Nat /\ whole * Cent < usdc + 1 /\ usdc < (whole + 1) * Cent
  BY <1>2, <1>4, CentsNear
<1> HIDE DEF usdc, whole
<1>7. /\ (whole + 1) * Cent = whole * Cent + Cent /\ (whole - 1) * Cent = whole * Cent - Cent
      /\ whole * Cent \in Nat
  BY <1>2, <1>6
<1>8. cents * Cent - 2 * Cent < usdc /\ usdc < cents * Cent + 2 * Cent
  <2>1. CASE cents = whole
    BY <1>2, <1>6, <1>7, <2>1
  <2>2. CASE cents = whole - 1
    <3>1. cents * Cent = whole * Cent - Cent
      BY <1>7, <2>2
    <3> QED BY <1>2, <1>6, <1>7, <3>1
  <2> QED BY <1>3, <2>1, <2>2
<1> QED BY <1>5, <1>8 DEF p, s

\* The texts an order is made from.
LEMMA OrderTexts ==
    ASSUME FiredInv, NEW s \in sent
    PROVE  /\ s \in fired /\ TRUE \in Fires(config.strategy, published[s])
           /\ TriggerOf(s).price = Price(config.strategy, published[s])
           /\ TriggerOf(s).size = config.strategy.size
           /\ TriggerOf(s).side = config.strategy.side
           /\ TriggerOf(s).price \in Texts /\ TriggerOf(s).size \in Texts
           /\ config.strategy.param \in Texts
           /\ UsdcAmount(TriggerOf(s).price, TriggerOf(s).size) # NoAmount
           /\ \E a \in DOMAIN Tops : \E t \in Tops[a] :
                  /\ published[s].bid = t.bid /\ published[s].ask = t.ask
                  /\ t.bid \in Texts /\ t.ask \in Texts
<1>1. s \in fired /\ s \in DOMAIN published /\ published \in Seq(Books)
  BY DEF FiredInv
<1>2. published[s] \in Books
  BY <1>1
<1>3. PICK a \in DOMAIN Tops : \E t \in Tops[a] :
          published[s] = [asset |-> a, bid |-> t.bid, ask |-> t.ask]
  BY <1>2 DEF Books
<1>4. PICK t \in Tops[a] : published[s] = [asset |-> a, bid |-> t.bid, ask |-> t.ask]
  BY <1>3
<1>5. Tops[a] \subseteq [bid : Texts, ask : Texts]
  BY TextsAssumption DEF Texts
<1>6. t.bid \in Texts /\ t.ask \in Texts /\ published[s].bid = t.bid /\ published[s].ask = t.ask
  BY <1>4, <1>5
<1>7. PICK c \in Configs : config.strategy = c.strategy
  BY DEF FiredInv, ConfigInv
<1>8. config.strategy.size \in Texts /\ config.strategy.param \in Texts
  BY <1>7, TextsAssumption DEF Texts
<1>9. /\ TriggerOf(s).price = Price(config.strategy, published[s])
      /\ TriggerOf(s).size = config.strategy.size /\ TriggerOf(s).side = config.strategy.side
  BY DEF TriggerOf, MakeTrigger
<1>10. Price(config.strategy, published[s]) \in Texts
  BY <1>6 DEF Price
<1>11. UsdcAmount(TriggerOf(s).price, TriggerOf(s).size) # NoAmount
  BY DEF FiredInv, BuildsOrder
<1>12. TRUE \in Fires(config.strategy, published[s])
  BY <1>1 DEF FiredInv
<1> QED BY <1>1, <1>6, <1>8, <1>9, <1>10, <1>11, <1>12

\* For texts of any length and amounts of any size, what the breaker may count for
\* a trigger is within two cents of what its order moves (safety.rs:68,
\* clob_order.rs:100).
THEOREM BreakerCountsOrder == Spec => []CountCoversOrder
<1>1. ASSUME FiredInv PROVE CountCoversOrder
  <2>1. ASSUME NEW s \in sent, NEW cents \in CentsCounted(TriggerOf(s))
        PROVE  LET usdc == UsdcAmount(TriggerOf(s).price, TriggerOf(s).size)
               IN  cents * Cent - 2 * Cent < usdc /\ usdc < cents * Cent + 2 * Cent
    <3> DEFINE t == TriggerOf(s)
    <3>1. t.price \in Texts /\ t.size \in Texts /\ UsdcAmount(t.price, t.size) # NoAmount
      BY <1>1, <2>1, OrderTexts
    <3> HIDE DEF t
    <3>2. /\ cents * Cent - 2 * Cent < UsdcAmount(t.price, t.size)
          /\ UsdcAmount(t.price, t.size) < cents * Cent + 2 * Cent
      <4>1. cents \in CentsCounted(t)
        BY <2>1 DEF t
      <4> QED BY <3>1, <4>1, CountNear
    <3> QED BY <3>2 DEF t
  <2> QED BY <2>1 DEF CountCoversOrder
<1> QED BY <1>1, FiredAlways, PTL

\* The value of a text in units of p digits, taken on to the digits of the scale.
LEMMA Rescaled ==
    ASSUME NEW t \in Texts, NEW p \in 0..Decimals, t.places <= p
    PROVE  /\ ValueAt(t, p) \in Nat /\ Ten[Decimals - p] \in Nat \ {0}
           /\ ValueAt(t, Decimals) = ValueAt(t, p) * Ten[Decimals - p]
<1>1. t.places \in Nat /\ t.units \in Nat
  BY DEF Texts
<1>2. Decimals \in 2..6
  BY ScaleFacts
<1> DEFINE a == p - t.places
           b == Decimals - p
<1>3. a \in 0..6 /\ b \in 0..6 /\ a + b <= 6 /\ a + b = Decimals - t.places /\ a + b \in 0..6
  BY <1>1, <1>2
<1>4. /\ Ten[a] \in Nat \ {0} /\ Ten[b] \in Nat \ {0} /\ Ten[a + b] = Ten[a] * Ten[b]
  BY <1>3, PowersOfTen
<1>5. ValueAt(t, p) = t.units * Ten[a]
  <2>1. 10^a = Ten[a]
    BY <1>3, Zenon DEF Ten
  <2> QED BY <2>1 DEF ValueAt
<1>6. ValueAt(t, Decimals) = t.units * Ten[a + b]
  <2>1. 10^(Decimals - t.places) = Ten[Decimals - t.places]
    <3>1. Decimals - t.places \in 0..6
      BY <1>3
    <3> QED BY <3>1, Zenon DEF Ten
  <2> QED BY <1>3, <2>1 DEF ValueAt
<1> HIDE DEF a
<1>7. t.units * (Ten[a] * Ten[b]) = (t.units * Ten[a]) * Ten[b]
  BY <1>1, <1>4
<1> QED BY <1>1, <1>4, <1>5, <1>6, <1>7

\* Texts that compare at the finer of their scales compare in base units.
LEMMA AtMostScaled ==
    ASSUME NEW t \in Texts, NEW u \in Texts, t.places <= Decimals, u.places <= Decimals, AtMost(t, u)
    PROVE  ValueAt(t, Decimals) <= ValueAt(u, Decimals)
<1> DEFINE p == Finer(t, u)
<1>1. p \in 0..Decimals /\ t.places <= p /\ u.places <= p
  BY ScaleFacts DEF Finer, Texts
<1>2. ValueAt(t, p) <= ValueAt(u, p)
  BY DEF AtMost
<1> HIDE DEF p
<1>3. /\ ValueAt(t, p) \in Nat /\ ValueAt(u, p) \in Nat /\ Ten[Decimals - p] \in Nat
      /\ ValueAt(t, Decimals) = ValueAt(t, p) * Ten[Decimals - p]
      /\ ValueAt(u, Decimals) = ValueAt(u, p) * Ten[Decimals - p]
  BY <1>1, Rescaled
<1> QED BY <1>2, <1>3

\* A spread that may be under its limit is not above it, in base units.
LEMMA SpreadScaled ==
    ASSUME NEW strategy, NEW snapshot, TRUE \in SpreadFires(strategy, snapshot),
           snapshot.bid \in Texts, snapshot.ask \in Texts, strategy.param \in Texts,
           snapshot.bid.places <= Decimals, snapshot.ask.places <= Decimals,
           strategy.param.places <= Decimals
    PROVE  ValueAt(snapshot.ask, Decimals) - ValueAt(snapshot.bid, Decimals)
               <= ValueAt(strategy.param, Decimals)
<1> DEFINE a == snapshot.ask
           b == snapshot.bid
           l == strategy.param
           p == Finer([places |-> Finer(b, a)], l)
<1>1. p \in 0..Decimals /\ a.places <= p /\ b.places <= p /\ l.places <= p
  <2>1. a.places \in Nat /\ b.places \in Nat /\ l.places \in Nat /\ Decimals \in Nat
    BY ScaleFacts DEF Texts
  <2> QED BY <2>1 DEF Finer
<1>2. ValueAt(a, p) - ValueAt(b, p) = ValueAt(l, p) \/ ValueAt(a, p) - ValueAt(b, p) < ValueAt(l, p)
  BY DEF SpreadFires
<1> HIDE DEF p
<1>3. /\ ValueAt(a, p) \in Nat /\ ValueAt(b, p) \in Nat /\ ValueAt(l, p) \in Nat
      /\ Ten[Decimals - p] \in Nat
      /\ ValueAt(a, Decimals) = ValueAt(a, p) * Ten[Decimals - p]
      /\ ValueAt(b, Decimals) = ValueAt(b, p) * Ten[Decimals - p]
      /\ ValueAt(l, Decimals) = ValueAt(l, p) * Ten[Decimals - p]
  BY <1>1, Rescaled
<1> DEFINE x == ValueAt(a, p)
           y == ValueAt(b, p)
           z == ValueAt(l, p)
           f == Ten[Decimals - p]
<1> HIDE DEF x, y, z, f, a, b, l
<1>4. x \in Nat /\ y \in Nat /\ z \in Nat /\ f \in Nat /\ x - y <= z
  BY <1>2, <1>3 DEF x, y, z, f
<1>5. x * f - y * f <= z * f
  <2>1. (x - y) * f <= z * f
    BY <1>4
  <2>2. (x - y) * f = x * f - y * f
    BY <1>4
  <2> QED BY <2>1, <2>2
<1>6. ValueAt(a, Decimals) = x * f /\ ValueAt(b, Decimals) = y * f /\ ValueAt(l, Decimals) = z * f
  BY <1>3 DEF x, y, z, f
<1> QED BY <1>5, <1>6 DEF a, b, l

\* The texts of the thresholds and of the books with two sides have no more digits
\* than the scale, so that base units can tell them apart.
ShortTexts ==
    /\ \A c \in Configs : c.strategy.param.places <= Decimals
    /\ \A a \in DOMAIN Tops : \A t \in Tops[a] :
           Parses(t.bid) /\ Parses(t.ask) =>
               t.bid.places <= Decimals /\ t.ask.places <= Decimals

\* The amounts of the order of a trigger.
LEMMA AmountsAre ==
    ASSUME NEW s
    PROVE  LET t == TriggerOf(s)
               order == OrderRequest(t, config).body.order
           IN  /\ t.side = "Buy" => /\ order.makerAmount = UsdcAmount(t.price, t.size)
                                    /\ order.takerAmount = ParseScaled(t.size)
               /\ t.side # "Buy" => /\ order.takerAmount = UsdcAmount(t.price, t.size)
                                    /\ order.makerAmount = ParseScaled(t.size)
BY DEF OrderRequest, Payload, Order, ComputeAmounts

\* With such texts, every order sent pays or asks what its snapshot and its
\* strategy allow, for all of the configured size (spread.rs:62, clob_order.rs:185).
THEOREM OrdersFollowBooks == ASSUME ShortTexts PROVE Spec => []OrdersMatchBooks
<1>1. ASSUME FiredInv, NEW s \in sent
      PROVE  LET strategy == config.strategy
                 order == OrderRequest(TriggerOf(s), config).body.order
                 at6(text) == ValueAt(text, Decimals)
                 ask == at6(published[s].ask) bid == at6(published[s].bid)
                 size == at6(strategy.size) param == at6(strategy.param)
                 price == IF strategy.side = "Buy" THEN ask ELSE bid
                 usdc == IF strategy.side = "Buy" THEN order.makerAmount ELSE order.takerAmount
                 tokens == IF strategy.side = "Buy" THEN order.takerAmount ELSE order.makerAmount
             IN  /\ tokens = size
                 /\ usdc * Unit <= price * size /\ price * size < (usdc + 1) * Unit
                 /\ IF strategy.kind = "spread" THEN ask - bid <= param
                    ELSE IF strategy.side = "Buy" THEN ask <= param ELSE bid >= param
  <2> DEFINE strategy == config.strategy
             snapshot == published[s]
             t == TriggerOf(s)
             order == OrderRequest(t, config).body.order
             ask == ValueAt(snapshot.ask, Decimals)
             bid == ValueAt(snapshot.bid, Decimals)
             size == ValueAt(strategy.size, Decimals)
             param == ValueAt(strategy.param, Decimals)
             price == IF strategy.side = "Buy" THEN ask ELSE bid
             usdc == IF strategy.side = "Buy" THEN order.makerAmount ELSE order.takerAmount
             tokens == IF strategy.side = "Buy" THEN order.takerAmount ELSE order.makerAmount
  <2>1. /\ TRUE \in Fires(strategy, snapshot) /\ t.price = Price(strategy, snapshot)
        /\ t.size = strategy.size /\ t.side = strategy.side
        /\ t.price \in Texts /\ t.size \in Texts /\ strategy.param \in Texts
        /\ UsdcAmount(t.price, t.size) # NoAmount
        /\ snapshot.bid \in Texts /\ snapshot.ask \in Texts
        /\ Parses(snapshot.bid) /\ Parses(snapshot.ask) =>
               snapshot.bid.places <= Decimals /\ snapshot.ask.places <= Decimals
    BY <1>1, OrderTexts DEF ShortTexts
  <2>2. /\ Parses(t.price) /\ t.price.places \in 0..Decimals
        /\ ParseScaled(t.price) = ValueAt(t.price, Decimals) /\ ParseScaled(t.price) \in Nat
        /\ ParseScaled(t.size) = ValueAt(t.size, Decimals) /\ ParseScaled(t.size) \in Nat
        /\ UsdcAmount(t.price, t.size) = (ParseScaled(t.price) * ParseScaled(t.size)) \div Unit
    BY <2>1, AmountFacts, ParsedFacts
  <2>3. strategy.param.places <= Decimals /\ strategy.kind \in {"threshold", "spread"}
    BY <1>1 DEF ShortTexts, FiredInv, ConfigInv, Buildable
  <2>4. usdc = UsdcAmount(t.price, t.size) /\ tokens = ParseScaled(t.size)
    <3>1. /\ t.side = "Buy" => /\ order.makerAmount = UsdcAmount(t.price, t.size)
                               /\ order.takerAmount = ParseScaled(t.size)
          /\ t.side # "Buy" => /\ order.takerAmount = UsdcAmount(t.price, t.size)
                               /\ order.makerAmount = ParseScaled(t.size)
      BY AmountsAre
    <3> HIDE DEF order, t
    <3> QED BY <2>1, <3>1
  <2>5. ParseScaled(t.price) = price /\ tokens = size /\ price \in Nat /\ size \in Nat
    BY <2>1, <2>2, <2>4 DEF Price
  <2>6. usdc * Unit <= price * size /\ price * size < (usdc + 1) * Unit
    <3>1. usdc = (price * size) \div Unit
      BY <2>1, <2>2, <2>4, <2>5
    <3>2. price * size \in Nat /\ Unit \in Nat \ {0}
      BY <2>5, ScaleFacts
    <3> HIDE DEF usdc, price, size
    <3> QED BY <3>1, <3>2, DivFacts
  <2>7. CASE strategy.kind = "spread"
    <3>1. TRUE \in SpreadFires(strategy, snapshot)
      BY <2>1, <2>7 DEF Fires
    <3>2. Parses(snapshot.bid) /\ Parses(snapshot.ask)
      BY <3>1 DEF SpreadFires
    <3>3. ask - bid <= param
      BY <2>1, <2>3, <3>1, <3>2, SpreadScaled
    <3> HIDE DEF usdc, tokens, price, size, ask, bid, param
    <3>4. IF strategy.kind = "spread" THEN ask - bid <= param
          ELSE IF strategy.side = "Buy" THEN ask <= param ELSE bid >= param
      BY <2>7, <3>3
    <3> QED BY <2>5, <2>6, <3>4 DEF usdc, tokens, price, size, ask, bid, param
  <2>8. CASE strategy.kind # "spread"
    <3>1. ThresholdFires(strategy, snapshot)
      BY <2>1, <2>3, <2>8 DEF Fires
    <3>2. CASE strategy.side = "Buy"
      <4>1. t.price = snapshot.ask /\ AtMost(snapshot.ask, strategy.param)
        BY <2>1, <3>1, <3>2 DEF Price, ThresholdFires
      <4>2. snapshot.ask.places <= Decimals
        BY <2>2, <4>1, ScaleFacts
      <4>3. ask <= param
        BY <2>1, <2>3, <4>1, <4>2, AtMostScaled
      <4> HIDE DEF usdc, tokens, price, size, ask, bid, param
      <4>4. IF strategy.kind = "spread" THEN ask - bid <= param
            ELSE IF strategy.side = "Buy" THEN ask <= param ELSE bid >= param
        BY <2>8, <3>2, <4>3
      <4> QED BY <2>5, <2>6, <4>4 DEF usdc, tokens, price, size, ask, bid, param
    <3>3. CASE strategy.side # "Buy"
      <4>1. t.price = snapshot.bid /\ AtMost(strategy.param, snapshot.bid)
        BY <2>1, <3>1, <3>3 DEF Price, ThresholdFires
      <4>2. snapshot.bid.places <= Decimals
        BY <2>2, <4>1, ScaleFacts
      <4>3. param <= bid /\ param \in Int /\ bid \in Int
        <5>1. param <= bid
          BY <2>1, <2>3, <4>1, <4>2, AtMostScaled
        <5>2. bid \in Nat /\ param \in Nat
          <6>1. Decimals \in 0..Decimals
            BY ScaleFacts
          <6> QED BY <2>1, <2>3, <4>2, <6>1, Rescaled
        <5> QED BY <5>1, <5>2
      <4> HIDE DEF usdc, tokens, price, size, ask, bid, param
      <4>4. IF strategy.kind = "spread" THEN ask - bid <= param
            ELSE IF strategy.side = "Buy" THEN ask <= param ELSE bid >= param
        BY <2>8, <3>3, <4>3
      <4> QED BY <2>5, <2>6, <4>4 DEF usdc, tokens, price, size, ask, bid, param
    <3> QED BY <3>2, <3>3
  <2> QED BY <2>7, <2>8
<1>2. FiredInv => OrdersMatchBooks
  BY <1>1 DEF OrdersMatchBooks
<1> QED BY <1>2, FiredAlways, PTL
=============================================================================
