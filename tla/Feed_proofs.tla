------------------------------ MODULE Feed_proofs ------------------------------
(***************************************************************************)
(* Proofs about Feed, for any assets and prices, any channel capacity and  *)
(* any number of breaks, moves and unasked books: BooksExact and           *)
(* OldBooksGo.                                                             *)
(*                                                                         *)
(* What an order book will be is followed along the channel: Before(ch, a, *)
(* i, j) says that message i is the last one before j that concerns a (0   *)
(* stands for what has been applied), Val is what the book is after it.    *)
(***************************************************************************)
EXTENDS Feed, SequenceTheorems, TLAPS

Before(ch, a, i, j) ==
    /\ i \in 0..(j - 1)
    /\ i > 0 => a \in Concerns(ch[i])
    /\ \A k \in (i + 1)..(j - 1) : a \notin Concerns(ch[k])

\* What a message leaves of an order book it concerns.
Left(m) == IF m.type = "reconnected" THEN NoBook ELSE m.at

Val(ch, bk, a, i) == IF i = 0 THEN bk[a] ELSE Left(ch[i])

\* Nothing is known of what has been applied to an asset hit by a lag.
Known(dt, a, i) == i > 0 \/ a \notin dt

Toggled(levels, m) ==
    IF m.present THEN levels \cup {m.level} ELSE levels \ {m.level}

\* A change applies to the order book it was made from.
Chain(ch, bk, dt) ==
    \A a \in Assets : \A j \in 1..Len(ch) : \A i \in 0..(j - 1) :
        /\ ch[j].type = "change" /\ ch[j].asset = a
        /\ Before(ch, a, i, j) /\ Known(dt, a, i)
        => /\ Val(ch, bk, a, i) # NoBook
           /\ ch[j].at = Toggled(Val(ch, bk, a, i), ch[j])

\* Once the channel is drained a's order book is v.
Tip(ch, bk, dt, a, v) ==
    \A i \in 0..Len(ch) :
        Before(ch, a, i, Len(ch) + 1) /\ Known(dt, a, i) => Val(ch, bk, a, i) = v

-----------------------------------------------------------------------------

TypeInv ==
    /\ truth \in [Assets -> SUBSET Levels]
    /\ dumped \subseteq Assets
    /\ link \in {"connecting", "up", "sleeping"}
    /\ reconnects \in Nat
    /\ firstConnect => reconnects = 0
    /\ channel \in Seq(Messages)
    /\ \A i \in 1..Len(channel) :
           channel[i].type = "book" => channel[i].at = channel[i].levels
    /\ books \in [Assets -> (SUBSET Levels) \cup {NoBook}]
    /\ seen \in [Assets -> SUBSET Levels]

ChainInv == Chain(channel, books, dirty)

\* A book that came on this connection follows the exchange.
FollowsInv ==
    link = "up" => \A a \in dumped : Tip(channel, books, dirty, a, truth[a])

\* One that did not is on its way out, once a reconnection has been announced.
LeavesInv ==
    reconnects > 0 =>
        \A a \in Assets : link # "up" \/ a \notin dumped =>
            Tip(channel, books, dirty, a, NoBook)

Inv == TypeInv /\ ChainInv /\ FollowsInv /\ LeavesInv /\ BooksExact

-----------------------------------------------------------------------------
(* Sequences of messages.                                                   *)

\* Without its first message, what came before a message is what did.
LEMMA TailBefore ==
    ASSUME NEW ch \in Seq(Messages), ch # <<>>, NEW a \in Assets,
           NEW j \in 1..Len(ch), NEW i \in 0..(j - 1), Before(Tail(ch), a, i, j)
    PROVE  /\ i > 0 => Before(ch, a, i + 1, j + 1)
           /\ i = 0 /\ a \in Concerns(ch[1]) => Before(ch, a, 1, j + 1)
           /\ i = 0 /\ a \notin Concerns(ch[1]) => Before(ch, a, 0, j + 1)
<1>1. Len(ch) \in Nat /\ \A k \in 1..(Len(ch) - 1) : Tail(ch)[k] = ch[k + 1]
  BY HeadTailProperties, LenProperties
<1>2. \A k \in (i + 2)..j : a \notin Concerns(ch[k])
  <2> SUFFICES ASSUME NEW k \in (i + 2)..j PROVE a \notin Concerns(ch[k])
    OBVIOUS
  <2>1. k - 1 \in (i + 1)..(j - 1) /\ k - 1 \in 1..(Len(ch) - 1)
    BY <1>1
  <2>2. Tail(ch)[k - 1] = ch[k]
    BY <2>1, <1>1
  <2> QED
    BY <2>1, <2>2 DEF Before
<1>3. i > 0 => a \in Concerns(ch[i + 1])
  BY <1>1 DEF Before
<1> QED
  BY <1>1, <1>2, <1>3 DEF Before

\* A further message changes nothing of what came before the others.
LEMMA AppendBefore ==
    ASSUME NEW ch \in Seq(Messages), NEW m \in Messages, NEW a \in Assets,
           NEW j \in 1..(Len(ch) + 1), NEW i \in 0..(j - 1),
           Before(Append(ch, m), a, i, j)
    PROVE  Before(ch, a, i, j)
<1>1. Len(ch) \in Nat /\ \A k \in 1..Len(ch) : Append(ch, m)[k] = ch[k]
  BY AppendProperties, LenProperties
<1> QED
  BY <1>1 DEF Before

\* The first message is applied, or dropped and its assets marked.
LEMMA TakeFirst ==
    ASSUME NEW ch \in Seq(Messages), ch # <<>>, NEW bk, NEW bk2, NEW dt, NEW dt2,
           Chain(ch, bk, dt),
           \A a \in Assets :
               IF a \in Concerns(ch[1])
               THEN a \in dt2 \/ bk2[a] = Left(ch[1])
               ELSE bk2[a] = bk[a] /\ (a \in dt => a \in dt2)
    PROVE  /\ Chain(Tail(ch), bk2, dt2)
           /\ \A a \in Assets : \A v :
                  Tip(ch, bk, dt, a, v) => Tip(Tail(ch), bk2, dt2, a, v)
<1>1. /\ Len(ch) \in Nat \ {0} /\ Len(Tail(ch)) = Len(ch) - 1
      /\ \A k \in 1..(Len(ch) - 1) : Tail(ch)[k] = ch[k + 1]
  BY HeadTailProperties, LenProperties, EmptySeq
<1>2. ASSUME NEW a \in Assets, NEW j \in 1..Len(ch), NEW i \in 0..(j - 1),
             Before(Tail(ch), a, i, j), Known(dt2, a, i)
      PROVE  \E l \in 0..j : /\ Before(ch, a, l, j + 1) /\ Known(dt, a, l)
                             /\ Val(Tail(ch), bk2, a, i) = Val(ch, bk, a, l)
  <2>1. CASE i > 0
    <3>1. Before(ch, a, i + 1, j + 1)
      BY <1>2, <2>1, TailBefore
    <3>2. Tail(ch)[i] = ch[i + 1]
      BY <1>1, <2>1
    <3>3. i + 1 \in 0..j /\ i + 1 > 0 /\ i + 1 # 0 /\ i # 0
      BY <2>1
    <3>4. Known(dt, a, i + 1)
      BY <3>3 DEF Known
    <3>5. Val(Tail(ch), bk2, a, i) = Val(ch, bk, a, i + 1)
      BY <3>2, <3>3 DEF Val
    <3> QED
      BY <3>1, <3>3, <3>4, <3>5
  <2>2. CASE i = 0 /\ a \in Concerns(ch[1])
    <3>1. Before(ch, a, 1, j + 1)
      BY <1>2, <2>2, TailBefore
    <3> QED
      BY <1>2, <2>2, <3>1 DEF Known, Val
  <2>3. CASE i = 0 /\ a \notin Concerns(ch[1])
    <3>1. Before(ch, a, 0, j + 1)
      BY <1>2, <2>3, TailBefore
    <3> QED
      BY <1>2, <2>3, <3>1 DEF Known, Val
  <2> QED
    BY <2>1, <2>2, <2>3
<1>3. Chain(Tail(ch), bk2, dt2)
  <2> SUFFICES ASSUME NEW a \in Assets, NEW j \in 1..Len(Tail(ch)), NEW i \in 0..(j - 1),
                      Tail(ch)[j].type = "change", Tail(ch)[j].asset = a,
                      Before(Tail(ch), a, i, j), Known(dt2, a, i)
               PROVE  /\ Val(Tail(ch), bk2, a, i) # NoBook
                      /\ Tail(ch)[j].at = Toggled(Val(Tail(ch), bk2, a, i), Tail(ch)[j])
    BY DEF Chain
  <2>1. /\ j \in 1..Len(ch) /\ j + 1 \in 1..Len(ch) /\ Tail(ch)[j] = ch[j + 1]
    BY <1>1
  <2>2. PICK l \in 0..j : /\ Before(ch, a, l, j + 1) /\ Known(dt, a, l)
                          /\ Val(Tail(ch), bk2, a, i) = Val(ch, bk, a, l)
    BY <1>2, <2>1
  <2>3. l \in 0..(j + 1 - 1)
    BY <2>1
  <2> QED
    BY <2>1, <2>2, <2>3 DEF Chain
<1>4. ASSUME NEW a \in Assets, NEW v, Tip(ch, bk, dt, a, v)
      PROVE  Tip(Tail(ch), bk2, dt2, a, v)
  <2> SUFFICES ASSUME NEW i \in 0..Len(Tail(ch)),
                      Before(Tail(ch), a, i, Len(Tail(ch)) + 1), Known(dt2, a, i)
               PROVE  Val(Tail(ch), bk2, a, i) = v
    BY DEF Tip
  <2>1. /\ Len(ch) \in 1..Len(ch) /\ i \in 0..(Len(ch) - 1)
        /\ Before(Tail(ch), a, i, Len(ch))
    BY <1>1
  <2>2. PICK l \in 0..Len(ch) : /\ Before(ch, a, l, Len(ch) + 1) /\ Known(dt, a, l)
                                /\ Val(Tail(ch), bk2, a, i) = Val(ch, bk, a, l)
    BY <1>2, <2>1
  <2> QED
    BY <1>4, <2>2 DEF Tip
<1> QED
  BY <1>3, <1>4

\* A message is sent; a change, from the order book its asset is about to have.
LEMMA AddLast ==
    ASSUME NEW ch \in Seq(Messages), NEW m \in Messages, NEW bk, NEW dt,
           Chain(ch, bk, dt),
           m.type = "change" =>
               \E v : /\ v # NoBook /\ m.at = Toggled(v, m)
                      /\ Tip(ch, bk, dt, m.asset, v)
    PROVE  /\ Chain(Append(ch, m), bk, dt)
           /\ \A a \in Assets :
                  IF a \in Concerns(m)
                  THEN Tip(Append(ch, m), bk, dt, a, Left(m))
                  ELSE \A v : Tip(ch, bk, dt, a, v) => Tip(Append(ch, m), bk, dt, a, v)
<1> DEFINE ch2 == Append(ch, m)
<1>1. /\ Len(ch) \in Nat /\ Len(ch2) = Len(ch) + 1 /\ ch2[Len(ch) + 1] = m
      /\ \A k \in 1..Len(ch) : ch2[k] = ch[k]
  BY AppendProperties, LenProperties
<1>2. Chain(ch2, bk, dt)
  <2> SUFFICES ASSUME NEW a \in Assets, NEW j \in 1..Len(ch2), NEW i \in 0..(j - 1),
                      ch2[j].type = "change", ch2[j].asset = a,
                      Before(ch2, a, i, j), Known(dt, a, i)
               PROVE  /\ Val(ch2, bk, a, i) # NoBook
                      /\ ch2[j].at = Toggled(Val(ch2, bk, a, i), ch2[j])
    BY DEF Chain
  <2>1. j \in 1..(Len(ch) + 1)
    BY <1>1
  <2>2. Before(ch, a, i, j)
    BY <2>1, AppendBefore
  <2>3. Val(ch2, bk, a, i) = Val(ch, bk, a, i)
    BY <1>1, <2>1 DEF Val
  <2>4. CASE j = Len(ch) + 1
    <3>1. i \in 0..Len(ch)
      BY <1>1, <2>4
    <3>2. PICK v : v # NoBook /\ m.at = Toggled(v, m) /\ Tip(ch, bk, dt, m.asset, v)
      BY <1>1, <2>4
    <3>3. Val(ch, bk, a, i) = v
      BY <1>1, <2>2, <2>4, <3>1, <3>2 DEF Tip
    <3> QED
      BY <1>1, <2>3, <2>4, <3>2, <3>3
  <2>5. CASE j \in 1..Len(ch)
    <3>1. ch2[j] = ch[j]
      BY <1>1, <2>5
    <3> QED
      BY <2>2, <2>3, <2>5, <3>1 DEF Chain
  <2> QED
    BY <1>1, <2>1, <2>4, <2>5
<1>3. ASSUME NEW a \in Assets, a \in Concerns(m)
      PROVE  Tip(ch2, bk, dt, a, Left(m))
  <2> SUFFICES ASSUME NEW i \in 0..Len(ch2), Before(ch2, a, i, Len(ch2) + 1)
               PROVE  Val(ch2, bk, a, i) = Left(m)
    BY DEF Tip
  <2>1. i = Len(ch) + 1
    BY <1>1, <1>3 DEF Before
  <2> QED
    BY <1>1, <2>1 DEF Val
<1>4. ASSUME NEW a \in Assets, a \notin Concerns(m), NEW v, Tip(ch, bk, dt, a, v)
      PROVE  Tip(ch2, bk, dt, a, v)
  <2> SUFFICES ASSUME NEW i \in 0..Len(ch2), Before(ch2, a, i, Len(ch2) + 1),
                      Known(dt, a, i)
               PROVE  Val(ch2, bk, a, i) = v
    BY DEF Tip
  <2>1. i \in 0..Len(ch)
    BY <1>1, <1>4 DEF Before
  <2>2. Before(ch2, a, i, Len(ch) + 1)
    BY <1>1, <2>1 DEF Before
  <2>3. Before(ch, a, i, Len(ch) + 1)
    <3>1. Len(ch) + 1 \in 1..(Len(ch) + 1) /\ i \in 0..(Len(ch) + 1 - 1)
      BY <1>1, <2>1
    <3> QED
      BY <2>2, <3>1, AppendBefore
  <2> QED
    BY <1>1, <1>4, <2>1, <2>3 DEF Tip, Val
<1> QED
  BY <1>2, <1>3, <1>4

-----------------------------------------------------------------------------
(* The actions.                                                             *)

\* What the operators of Feed send is a message.
LEMMA MessageTypes ==
    /\ Reconnected \in Messages
    /\ \A a \in Assets, levels \in SUBSET Levels : Book(a, levels) \in Messages
    /\ \A a \in Assets, l \in Levels, present \in BOOLEAN, levels \in SUBSET Levels :
           Change(a, l, present, levels) \in Messages
BY DEF Reconnected, Book, Change, Messages

\* A set of levels is an order book.
LEMMA LevelsAreBook == \A levels \in SUBSET Levels : levels # NoBook
BY FeedAssumption DEF Levels

\* What a broadcast does to the channel keeps what the messages say.
LEMMA Broadcasts ==
    ASSUME TypeInv, ChainInv, NEW m \in Messages, Broadcast(m),
           m.type = "book" => m.at = m.levels,
           m.type = "change" =>
               \E v : /\ v # NoBook /\ m.at = Toggled(v, m)
                      /\ Tip(channel, books, dirty, m.asset, v)
    PROVE  /\ channel' \in Seq(Messages)
           /\ \A i \in 1..Len(channel') :
                  channel'[i].type = "book" => channel'[i].at = channel'[i].levels
           /\ dirty \subseteq dirty'
           /\ Chain(channel', books, dirty')
           /\ \A a \in Assets :
                  IF a \in Concerns(m)
                  THEN Tip(channel', books, dirty', a, Left(m))
                  ELSE \A v : Tip(channel, books, dirty, a, v)
                                  => Tip(channel', books, dirty', a, v)
<1>1. CASE Len(channel) < ChannelCap
  <2>1. channel' = Append(channel, m) /\ dirty' = dirty
    BY <1>1 DEF Broadcast
  <2>2. channel \in Seq(Messages) /\ Chain(channel, books, dirty)
    BY DEF TypeInv, ChainInv
  <2>3. /\ Len(channel) \in Nat /\ Len(channel') = Len(channel) + 1
        /\ channel' \in Seq(Messages) /\ channel'[Len(channel) + 1] = m
        /\ \A k \in 1..Len(channel) : channel'[k] = channel[k]
    BY <2>1, <2>2, AppendProperties, LenProperties
  <2>4. \A i \in 1..Len(channel') :
            channel'[i].type = "book" => channel'[i].at = channel'[i].levels
    BY <2>3 DEF TypeInv
  <2> QED
    BY <2>1, <2>2, <2>3, <2>4, AddLast
<1>2. CASE ~(Len(channel) < ChannelCap)
  <2> DEFINE ch == Tail(channel)
  <2>1. /\ channel' = Append(ch, m)
        /\ dirty' = dirty \cup Concerns(Head(channel))
    BY <1>2 DEF Broadcast
  <2>2. channel \in Seq(Messages) /\ channel # <<>> /\ Chain(channel, books, dirty)
    <3>1. Len(channel) # 0
      BY <1>2, FeedAssumption
    <3> QED
      BY <3>1, EmptySeq DEF TypeInv, ChainInv
  <2>3. /\ ch \in Seq(Messages) /\ Len(ch) = Len(channel) - 1
        /\ Len(channel) \in Nat /\ Head(channel) = channel[1]
        /\ \A k \in 1..Len(ch) : ch[k] = channel[k + 1]
    BY <2>2, HeadTailProperties, LenProperties
  <2>4. /\ Chain(ch, books, dirty')
        /\ \A a \in Assets : \A v :
               Tip(channel, books, dirty, a, v) => Tip(ch, books, dirty', a, v)
    <3>1. \A a \in Assets :
              IF a \in Concerns(channel[1])
              THEN a \in dirty' \/ books[a] = Left(channel[1])
              ELSE books[a] = books[a] /\ (a \in dirty => a \in dirty')
      BY <2>1, <2>3
    <3> HIDE DEF ch
    <3>2. Chain(Tail(channel), books, dirty')
          /\ \A a \in Assets : \A v : Tip(channel, books, dirty, a, v)
                  => Tip(Tail(channel), books, dirty', a, v)
      BY <2>2, <3>1, TakeFirst
    <3> QED
      BY <3>2 DEF ch
  <2>5. m.type = "change" =>
            \E v : /\ v # NoBook /\ m.at = Toggled(v, m)
                   /\ Tip(ch, books, dirty', m.asset, v)
    <3>1. m.type = "change" => m.asset \in Assets
      BY DEF Messages, Reconnected
    <3> QED
      BY <2>4, <3>1
  <2>6. /\ Len(ch) \in Nat /\ Len(channel') = Len(ch) + 1
        /\ channel' \in Seq(Messages) /\ channel'[Len(ch) + 1] = m
        /\ \A k \in 1..Len(ch) : channel'[k] = ch[k]
    BY <2>1, <2>3, AppendProperties, LenProperties
  <2>7. \A i \in 1..Len(channel') :
            channel'[i].type = "book" => channel'[i].at = channel'[i].levels
    <3> SUFFICES ASSUME NEW i \in 1..Len(channel'), i # Len(ch) + 1
                 PROVE  channel'[i].type = "book" => channel'[i].at = channel'[i].levels
      BY <2>6
    <3>1. i \in 1..Len(ch)
      <4> HIDE DEF ch
      <4> QED
        BY <2>6
    <3>2. channel'[i] = ch[i] /\ ch[i] = channel[i + 1]
      BY <2>3, <2>6, <3>1
    <3>3. i + 1 \in 1..Len(channel)
      <4> HIDE DEF ch
      <4> QED
        BY <2>3, <3>1
    <3> QED
      BY <3>2, <3>3 DEF TypeInv
  <2>8. /\ Chain(channel', books, dirty')
        /\ \A a \in Assets :
               IF a \in Concerns(m)
               THEN Tip(channel', books, dirty', a, Left(m))
               ELSE \A v : Tip(ch, books, dirty', a, v)
                               => Tip(channel', books, dirty', a, v)
    <3> HIDE DEF ch
    <3> QED
      BY <2>1, <2>3, <2>4, <2>5, AddLast
  <2> QED
    BY <2>1, <2>4, <2>6, <2>7, <2>8
<1> QED
  BY <1>1, <1>2

\* Nothing has been sent and no asset has an order book.
LEMMA InitInv == Init => Inv
<1> SUFFICES ASSUME Init PROVE Inv
  OBVIOUS
<1>1. Len(channel) = 0 /\ channel \in Seq(Messages)
  BY EmptySeq DEF Init
<1>2. TypeInv
  <2>1. \A i \in 1..Len(channel) : channel[i].type = "book" => channel[i].at = channel[i].levels
    BY <1>1
  <2>2. books \in [Assets -> (SUBSET Levels) \cup {NoBook}] /\ seen \in [Assets -> SUBSET Levels]
    BY DEF Init
  <2> QED
    BY <1>1, <2>1, <2>2 DEF Init, TypeInv
<1>3. ChainInv
  BY <1>1 DEF Init, ChainInv, Chain
<1> QED
  BY <1>2, <1>3 DEF Init, Inv, FollowsInv, LeavesInv, BooksExact

\* A book, whatever came before it, leaves the order book of the exchange.
LEMMA SendBookStep ==
    ASSUME Inv, NEW a \in Assets, SendBook(a) PROVE Inv'
<1> DEFINE m == Book(a, truth[a])
<1>1. /\ m \in Messages /\ m.type = "book" /\ m.at = m.levels
      /\ Left(m) = truth[a] /\ Concerns(m) = {a}
  BY MessageTypes DEF Book, Left, Concerns, Inv, TypeInv
<1>2. /\ channel' \in Seq(Messages)
      /\ \A i \in 1..Len(channel') :
             channel'[i].type = "book" => channel'[i].at = channel'[i].levels
      /\ dirty \subseteq dirty'
      /\ Chain(channel', books, dirty')
      /\ \A b \in Assets :
             IF b = a
             THEN Tip(channel', books, dirty', b, truth[a])
             ELSE \A v : Tip(channel, books, dirty, b, v)
                             => Tip(channel', books, dirty', b, v)
  <2> HIDE DEF m
  <2>1. Broadcast(m)
    BY DEF m, SendBook
  <2> QED
    BY <1>1, <2>1, Broadcasts DEF Inv
<1>3. /\ link = "up" /\ dumped' = dumped \cup {a}
      /\ UNCHANGED <<truth, link, firstConnect, reconnects, books, seen>>
  BY DEF SendBook, client, stores
<1>4. TypeInv' /\ ChainInv' /\ BooksExact'
  BY <1>2, <1>3 DEF Inv, TypeInv, ChainInv, BooksExact
<1>5. FollowsInv'
  BY <1>2, <1>3 DEF Inv, FollowsInv, TypeInv
<1>6. LeavesInv'
  BY <1>2, <1>3 DEF Inv, LeavesInv
<1> QED
  BY <1>4, <1>5, <1>6 DEF Inv

\* A change is sent for an asset whose book went before it on this connection.
LEMMA MoveStep ==
    ASSUME Inv, NEW a \in Assets, NEW l \in Levels, Move(a, l) PROVE Inv'
<1> DEFINE m == Change(a, l, l \in truth'[a], truth'[a])
<1>1. /\ truth[a] \subseteq Levels /\ truth'[a] = SymDiff(truth[a], {l})
      /\ truth' \in [Assets -> SUBSET Levels]
      /\ \A b \in Assets \ {a} : truth'[b] = truth[b]
      /\ UNCHANGED <<dumped, link, firstConnect, reconnects, books, seen>>
  BY DEF Inv, TypeInv, Move, client, stores, SymDiff
<1>2. CASE link = "up" /\ a \in dumped
  <2>1. /\ m \in Messages /\ m.type = "change" /\ m.asset = a
        /\ Left(m) = truth'[a] /\ Concerns(m) = {a}
    <3>1. truth'[a] \in SUBSET Levels /\ (l \in truth'[a]) \in BOOLEAN
      BY <1>1
    <3>2. m \in Messages
      BY <3>1, MessageTypes
    <3> QED
      BY <3>2 DEF Change, Left, Concerns
  <2>2. m.at = Toggled(truth[a], m)
    BY <1>1 DEF Change, Toggled, SymDiff
  <2>3. truth[a] # NoBook /\ Tip(channel, books, dirty, a, truth[a])
    BY <1>1, <1>2, LevelsAreBook DEF Inv, FollowsInv
  <2>4. /\ channel' \in Seq(Messages)
        /\ \A i \in 1..Len(channel') :
               channel'[i].type = "book" => channel'[i].at = channel'[i].levels
        /\ dirty \subseteq dirty'
        /\ Chain(channel', books, dirty')
        /\ \A b \in Assets :
               IF b = a
               THEN Tip(channel', books, dirty', b, truth'[a])
               ELSE \A v : Tip(channel, books, dirty, b, v)
                               => Tip(channel', books, dirty', b, v)
    <3> HIDE DEF m
    <3>1. Broadcast(m)
      BY <1>2 DEF m, Move
    <3> QED
      BY <2>1, <2>2, <2>3, <3>1, Broadcasts DEF Inv
  <2>5. TypeInv' /\ ChainInv' /\ BooksExact'
    BY <1>1, <2>4 DEF Inv, TypeInv, ChainInv, BooksExact
  <2>6. FollowsInv'
    BY <1>1, <1>2, <2>4 DEF Inv, FollowsInv, TypeInv
  <2>7. LeavesInv'
    BY <1>1, <1>2, <2>4 DEF Inv, LeavesInv
  <2> QED
    BY <2>5, <2>6, <2>7 DEF Inv
<1>3. CASE ~(link = "up" /\ a \in dumped)
  <2>1. UNCHANGED <<channel, dirty>>
    BY <1>3 DEF Move
  <2>2. TypeInv' /\ ChainInv' /\ BooksExact'
    BY <1>1, <2>1 DEF Inv, TypeInv, ChainInv, BooksExact
  <2>3. FollowsInv'
    BY <1>1, <1>3, <2>1 DEF Inv, FollowsInv, TypeInv
  <2>4. LeavesInv'
    BY <1>1, <2>1 DEF Inv, LeavesInv
  <2> QED
    BY <2>2, <2>3, <2>4 DEF Inv
<1> QED
  BY <1>2, <1>3

\* A connection begins without a book sent, the client sleeps or the receiver meets
\* the gap: nothing is sent or applied.
LEMMA ConnectStep == ASSUME Inv, Connect PROVE Inv'
BY DEF Inv, Connect, stores, TypeInv, ChainInv, FollowsInv, LeavesInv, BooksExact

LEMMA WakeStep == ASSUME Inv, Wake PROVE Inv'
BY DEF Inv, Wake, exchange, stores, TypeInv, ChainInv, FollowsInv, LeavesInv, BooksExact

LEMMA LaggedStep == ASSUME Inv, Lagged PROVE Inv'
BY DEF Inv, Lagged, exchange, client, stores, TypeInv, ChainInv, FollowsInv,
       LeavesInv, BooksExact

\* Before the first announced reconnection nothing is promised of old books.
LEMMA FirstReturnStep == ASSUME Inv, NEW clean, FirstReturn(clean) PROVE Inv'
BY DEF Inv, FirstReturn, exchange, stores, TypeInv, ChainInv, FollowsInv, LeavesInv,
       BooksExact

\* An announced reconnection concerns every asset.
LEMMA LaterReturnStep == ASSUME Inv, NEW clean, LaterReturn(clean) PROVE Inv'
<1>1. /\ Reconnected \in Messages /\ Reconnected.type = "reconnected"
      /\ Left(Reconnected) = NoBook /\ Concerns(Reconnected) = Assets
  BY MessageTypes DEF Reconnected, Left, Concerns
<1>2. /\ channel' \in Seq(Messages)
      /\ \A i \in 1..Len(channel') :
             channel'[i].type = "book" => channel'[i].at = channel'[i].levels
      /\ dirty \subseteq dirty'
      /\ Chain(channel', books, dirty')
      /\ \A a \in Assets : Tip(channel', books, dirty', a, NoBook)
  <2>1. Broadcast(Reconnected)
    BY DEF LaterReturn
  <2> QED
    BY <1>1, <2>1, Broadcasts DEF Inv
<1>3. /\ link' = "sleeping" /\ reconnects' = reconnects + 1 /\ ~firstConnect
      /\ UNCHANGED <<truth, dumped, firstConnect, books, seen>>
  BY DEF LaterReturn, exchange, stores
<1>4. TypeInv' /\ ChainInv' /\ BooksExact'
  BY <1>2, <1>3 DEF Inv, TypeInv, ChainInv, BooksExact
<1> QED
  BY <1>2, <1>3, <1>4 DEF Inv, FollowsInv, LeavesInv

\* The order book a change is applied to is the one it was made from, unless the
\* asset was hit by a lag.
LEMMA ProcessStep == ASSUME Inv, Process PROVE Inv'
<1> DEFINE m == Head(channel)
<1>1. /\ channel \in Seq(Messages) /\ channel # <<>>
      /\ m = channel[1] /\ m \in Messages
      /\ channel' = Tail(channel) /\ channel' \in Seq(Messages)
      /\ Len(channel) \in Nat \ {0} /\ Len(channel') = Len(channel) - 1
      /\ \A k \in 1..Len(channel') : channel'[k] = channel[k + 1]
  <2>1. channel \in Seq(Messages) /\ channel # <<>> /\ channel' = Tail(channel)
    BY DEF Inv, TypeInv, Process
  <2> QED
    BY <2>1, HeadTailProperties, LenProperties, EmptySeq
<1>2. UNCHANGED <<truth, dumped, link, firstConnect, reconnects>>
  BY DEF Process, exchange, client
<1>3. \A i \in 1..Len(channel') :
          channel'[i].type = "book" => channel'[i].at = channel'[i].levels
  <2> SUFFICES ASSUME NEW i \in 1..Len(channel')
               PROVE  channel'[i].type = "book" => channel'[i].at = channel'[i].levels
    OBVIOUS
  <2>1. channel'[i] = channel[i + 1] /\ i + 1 \in 1..Len(channel)
    BY <1>1
  <2> QED
    BY <2>1 DEF Inv, TypeInv
<1>4. /\ m.type \in {"book", "change", "reconnected"}
      /\ m.type # "reconnected" =>
             m.asset \in Assets /\ m.at \in SUBSET Levels /\ Concerns(m) = {m.asset}
      /\ m.type = "reconnected" => Concerns(m) = Assets
      /\ m.type = "book" => m.at = m.levels
      /\ m.type = "change" => m.level \in Levels
  BY <1>1 DEF Messages, Reconnected, Concerns, Inv, TypeInv
<1>5. m.type = "change" /\ m.asset \notin dirty =>
          ApplyDelta(m) = m.at /\ ApplyDelta(m) \in SUBSET Levels
  <2> SUFFICES ASSUME m.type = "change", m.asset \notin dirty
               PROVE  ApplyDelta(m) = m.at
    BY <1>4
  <2>1. Before(channel, m.asset, 0, 1) /\ Known(dirty, m.asset, 0)
    BY DEF Before, Known
  <2>2. 1 \in 1..Len(channel) /\ 0 \in 0..(1 - 1)
    BY <1>1
  <2>3. /\ Val(channel, books, m.asset, 0) # NoBook
        /\ channel[1].at = Toggled(Val(channel, books, m.asset, 0), channel[1])
    <3> HIDE DEF m
    <3>1. channel[1].type = "change" /\ channel[1].asset = m.asset /\ m.asset \in Assets
      BY <1>1, <1>4
    <3> QED
      BY <2>1, <2>2, <3>1 DEF Inv, ChainInv, Chain
  <2>4. Val(channel, books, m.asset, 0) = books[m.asset]
    BY DEF Val
  <2> QED
    BY <1>1, <2>3, <2>4 DEF ApplyDelta, BookFor, Toggled
<1>6. /\ books' \in [Assets -> (SUBSET Levels) \cup {NoBook}]
      /\ seen' \in [Assets -> SUBSET Levels]
      /\ \A a \in Assets :
             IF a \in Concerns(m)
             THEN a \in dirty' \/ books'[a] = Left(m)
             ELSE books'[a] = books[a] /\ (a \in dirty => a \in dirty')
      /\ \A a \in Assets \ dirty' : books'[a] \in {NoBook, seen'[a]}
  <2> USE DEF Inv, TypeInv, BooksExact, Left
  <2>1. CASE m.type = "book"
    <3>1. /\ books' = [books EXCEPT ![m.asset] = m.levels]
          /\ seen' = [seen EXCEPT ![m.asset] = m.at]
          /\ dirty' = dirty \ {m.asset}
      BY <2>1 DEF Process, Apply, ApplySnapshot
    <3> HIDE DEF m
    <3> QED
      BY <1>4, <2>1, <3>1
  <2>2. CASE m.type = "change"
    <3>1. /\ books' = [books EXCEPT ![m.asset] = ApplyDelta(m)]
          /\ seen' = [seen EXCEPT ![m.asset] = m.at]
          /\ dirty' = dirty
      BY <2>2 DEF Process, Apply
    <3>2. ApplyDelta(m) \in SUBSET Levels
      <4> HIDE DEF m
      <4>1. BookFor(m.asset) \in SUBSET Levels
        BY <1>4, <2>2 DEF BookFor
      <4> QED
        BY <1>4, <2>2, <4>1 DEF ApplyDelta
    <3> HIDE DEF m
    <3> QED
      BY <1>4, <1>5, <2>2, <3>1, <3>2
  <2>3. CASE m.type = "reconnected"
    <3>1. books' = ClearAll /\ seen' = seen /\ dirty' = dirty
      BY <2>3 DEF Process
    <3>2. \A a \in Assets : books'[a] = NoBook
      BY <3>1 DEF ClearAll
    <3>3. books' \in [Assets -> (SUBSET Levels) \cup {NoBook}]
      BY <3>1 DEF ClearAll
    <3> HIDE DEF m
    <3> QED
      BY <1>4, <2>3, <3>1, <3>2, <3>3
  <2> QED
    BY <1>4, <2>1, <2>2, <2>3
<1>7. /\ Chain(channel', books', dirty')
      /\ \A a \in Assets : \A v : Tip(channel, books, dirty, a, v)
                                      => Tip(channel', books', dirty', a, v)
  <2>1. Chain(channel, books, dirty)
    BY DEF Inv, ChainInv
  <2> QED
    BY <1>1, <1>6, <2>1, TakeFirst
<1>8. TypeInv' /\ ChainInv' /\ BooksExact'
  BY <1>1, <1>2, <1>3, <1>6, <1>7 DEF Inv, TypeInv, ChainInv, BooksExact
<1>9. FollowsInv' /\ LeavesInv'
  BY <1>2, <1>7 DEF Inv, FollowsInv, LeavesInv, TypeInv
<1> QED
  BY <1>8, <1>9 DEF Inv

\* Every step keeps the invariant.
LEMMA NextInv == Inv /\ [Next]_vars => Inv'
<1> SUFFICES ASSUME Inv, [Next]_vars PROVE Inv'
  OBVIOUS
<1>1. CASE \E a \in Assets : SendBook(a)
  BY <1>1, SendBookStep
<1>2. CASE \E a \in Assets, l \in Levels : Move(a, l)
  BY <1>2, MoveStep
<1>3. CASE Connect
  BY <1>3, ConnectStep
<1>4. CASE Return
  BY <1>4, FirstReturnStep, LaterReturnStep DEF Return
<1>5. CASE Wake
  BY <1>5, WakeStep
<1>6. CASE Process
  BY <1>6, ProcessStep
<1>7. CASE Lagged
  BY <1>7, LaggedStep
<1>8. CASE UNCHANGED vars
  BY <1>8 DEF vars, exchange, client, stores, Inv, TypeInv, ChainInv, FollowsInv,
              LeavesInv, BooksExact
<1> QED
  BY <1>1, <1>2, <1>3, <1>4, <1>5, <1>6, <1>7, <1>8 DEF Next

\* The invariant holds in every state reached.
LEMMA Invariance == Spec => []Inv
BY InitInv, NextInv, PTL DEF Spec

-----------------------------------------------------------------------------

\* An order book the processor keeps is one the exchange had, whatever was
\* reconnected and whichever messages the channel dropped, but for the assets of
\* a dropped message until their next book (feed.rs:273, orderbook.rs:35).
THEOREM Exact == Spec => []BooksExact
<1>1. Inv => BooksExact
  BY DEF Inv
<1> QED
  BY <1>1, Invariance, PTL

\* After an announced reconnection a drained channel leaves no order book from
\* before it (the Reconnected message of ws.rs and clear_all).
THEOREM OldGo == Spec => []OldBooksGo
<1>1. Inv => OldBooksGo
  <2> SUFFICES ASSUME Inv, reconnects > 0, link = "up", channel = <<>>,
                      NEW a \in Assets \ dirty, books[a] # NoBook, a \notin dumped
               PROVE  FALSE
    BY DEF OldBooksGo
  <2>1. Tip(channel, books, dirty, a, NoBook)
    BY DEF Inv, LeavesInv
  <2>2. Len(channel) = 0
    BY EmptySeq
  <2>3. Before(channel, a, 0, Len(channel) + 1) /\ Known(dirty, a, 0)
    BY <2>2 DEF Before, Known
  <2>4. Val(channel, books, a, 0) = NoBook
    BY <2>1, <2>2, <2>3 DEF Tip
  <2> QED
    BY <2>4 DEF Val
<1> QED
  BY <1>1, Invariance, PTL

=============================================================================
