----------------------------- MODULE Quotes_proofs -----------------------------
(***************************************************************************)
(* Proofs about Quotes, for any ids, offers, wishes and timeouts, any       *)
(* number of lost and rejected commands and of fills, and an exchange that  *)
(* may hold several orders for one quote: OneOrderPerQuote and              *)
(* NoForgottenOrder, when the exchange has all commands before it is asked  *)
(* (~LateReports); FillsCountOnce always.  Then about the throttle that the *)
(* quotes' commands pass, and the limiter like it.                          *)
(***************************************************************************)
EXTENDS Quotes, RateLimiter, FiniteSetTheorems, SequenceTheorems, WellFoundedInduction, TLAPS

MaybeOffers == Offers \cup {NoOffer}

CommandSet ==
    [op : {"Place"}, id : Ids, offer : Offers]
    \cup [op : {"Cancel", "CancelAll"}, id : Ids \cup {0}, offer : {NoOffer}]

WorkingQuotes == [state : States, offer : MaybeOffers, age : Nat]

PlacesFor(cmds, q, i) == cmds[i].op = "Place" /\ cmds[i].id = q
CancelsFor(cmds, q, i) == cmds[i].op = "Cancel" /\ cmds[i].id = q

\* A quote the planner knows may have an order.
MayRest(w) == IsCancelable(w) \/ BlocksConvergence(w)

-----------------------------------------------------------------------------

TypeInv ==
    /\ desired \in [Ids -> MaybeOffers]
    /\ working \in [Ids -> WorkingQuotes]
    /\ wire \in Seq(CommandSet)
    /\ live \in [Ids -> Seq(Offers)]
    /\ closed \in [Ids -> {"None", "Canceled", "Rejected"}]

\* The commands on the way place one order for a quote at most, and only where
\* none rests or its cancellation goes ahead.
PlacedInv ==
    \A q \in Ids : \A i \in 1..Len(wire) : PlacesFor(wire, q, i) =>
        /\ working[q].state = "PendingSubmit"
        /\ \A j \in 1..Len(wire) : PlacesFor(wire, q, j) => j = i
        /\ live[q] = <<>> \/ \E j \in 1..(i - 1) : CancelsFor(wire, q, j)

Inv == TypeInv /\ PlacedInv /\ OneOrderPerQuote /\ NoForgottenOrder

-----------------------------------------------------------------------------
(* Sums: the fold of MapThenSumSet over a finite set has a value, and any   *)
(* element can be taken out of it.                                          *)

\* The sum of f over a set, as the models write it.
Total(f, S) == MapThenSumSet(LAMBDA x : f[x], S)

\* The element the fold takes first, the fold's equation, and a function that
\* satisfies it on the subsets of T.
First(s) == CHOOSE x \in s : TRUE
FoldStep(f, g, s) == IF s = {} THEN 0 ELSE f[First(s)] + g[s \ {First(s)}]
Folded(f, g, T) == g = [s \in SUBSET T |-> FoldStep(f, g, s)]

\* Induction on finite sets: a set of subsets that holds each one all of whose
\* smaller subsets it holds, holds them all.
LEMMA Smallest ==
    ASSUME NEW S, IsFiniteSet(S), NEW G \in SUBSET SUBSET S,
           \A T \in SUBSET S : (\A U \in SUBSET T : U # T => U \in G) => T \in G
    PROVE  \A T \in SUBSET S : T \in G
<1> DEFINE R == StrictSubsetOrdering(S)
           Bad == (SUBSET S) \ G
<1>1. IsWellFoundedOn(R, SUBSET S)
  BY FS_StrictSubsetOrderingWellFounded, FS_FiniteSubsetsOfFinite
<1>2. SUFFICES ASSUME Bad # {} PROVE FALSE
  OBVIOUS
<1>3. PICK T \in Bad : \A U \in Bad : ~(<<U, T>> \in R)
  <2> HIDE DEF R, Bad
  <2>1. Bad \subseteq SUBSET S
    BY DEF Bad
  <2> QED BY <1>1, <1>2, <2>1, WFMin
<1>4. PICK U \in SUBSET T : U # T /\ U \notin G
  OBVIOUS
<1>5. <<U, T>> \in R
  BY <1>4 DEF StrictSubsetOrdering
<1> QED BY <1>3, <1>4, <1>5

\* The element taken first is one of them.
LEMMA FirstIn == ASSUME NEW s, s # {} PROVE First(s) \in s
BY DEF First

\* Two folds of f agree where both are defined.
LEMMA FoldsAgree ==
    ASSUME NEW f, NEW g, NEW h, NEW U, NEW V, NEW S, IsFiniteSet(S), S \subseteq U, S \subseteq V,
           Folded(f, g, U), Folded(f, h, V)
    PROVE  g[S] = h[S]
<1> DEFINE G == {T \in SUBSET S : g[T] = h[T]}
<1>1. ASSUME NEW T \in SUBSET S, \A W \in SUBSET T : W # T => W \in G
      PROVE  T \in G
  <2>1. g[T] = FoldStep(f, g, T) /\ h[T] = FoldStep(f, h, T)
    <3>1. T \in SUBSET U /\ T \in SUBSET V
      OBVIOUS
    <3> QED BY <3>1 DEF Folded
  <2>2. CASE T = {}
    BY <2>1, <2>2 DEF FoldStep
  <2>3. CASE T # {}
    <3> DEFINE W == T \ {First(T)}
    <3>1. W \in SUBSET T /\ W # T
      BY <2>3, FirstIn
    <3>2. g[W] = h[W]
      BY <1>1, <3>1
    <3> QED BY <2>1, <2>3, <3>2 DEF FoldStep
  <2> QED BY <2>2, <2>3
<1>2. \A T \in SUBSET S : T \in G
  <2>1. G \in SUBSET SUBSET S
    OBVIOUS
  <2> HIDE DEF G
  <2> QED BY <1>1, <2>1, Smallest
<1> QED BY <1>2

\* The fold over a finite set exists.
LEMMA FoldExists ==
    ASSUME NEW f, NEW S, IsFiniteSet(S)
    PROVE  \E g : Folded(f, g, S)
<1> DEFINE G == {T \in SUBSET S : \E g : Folded(f, g, T)}
           At(s) == CHOOSE g : Folded(f, g, s)
<1>1. ASSUME NEW T \in SUBSET S, \A U \in SUBSET T : U # T => U \in G
      PROVE  T \in G
  <2>1. \A U \in SUBSET T : U # T => Folded(f, At(U), U)
    BY <1>1
  <2> DEFINE h == [s \in SUBSET T |->
                      IF s = {} THEN 0
                      ELSE f[First(s)] + At(s \ {First(s)})[s \ {First(s)}]]
  <2>2. ASSUME NEW s \in SUBSET T, s # T PROVE At(s)[s] = h[s]
    <3>1. Folded(f, At(s), s)
      BY <2>1, <2>2
    <3>2. At(s)[s] = FoldStep(f, At(s), s)
      BY <3>1 DEF Folded
    <3>3. CASE s = {}
      BY <3>2, <3>3 DEF FoldStep
    <3>4. CASE s # {}
      <4> DEFINE u == s \ {First(s)}
      <4>1. u \subseteq s /\ u \in SUBSET T /\ u # T /\ IsFiniteSet(u)
        BY <2>2, <3>4, FirstIn, FS_Subset
      <4>2. Folded(f, At(u), u)
        BY <2>1, <4>1
      <4>3. At(s)[u] = At(u)[u]
        <5> HIDE DEF u, At
        <5> QED BY <3>1, <4>1, <4>2, FoldsAgree
      <4> QED BY <3>2, <3>4, <4>3 DEF FoldStep
    <3> QED BY <3>3, <3>4
  <2>3. ASSUME NEW s \in SUBSET T PROVE h[s] = FoldStep(f, h, s)
    <3>1. CASE s = {}
      BY <3>1 DEF FoldStep
    <3>2. CASE s # {}
      <4> DEFINE u == s \ {First(s)}
      <4>1. u \in SUBSET T /\ u # T
        BY <3>2, FirstIn
      <4>2. At(u)[u] = h[u]
        BY <2>2, <4>1
      <4>3. h[s] = f[First(s)] + At(u)[u]
        BY <3>2
      <4> HIDE DEF h
      <4> QED BY <3>2, <4>2, <4>3 DEF FoldStep
    <3> QED BY <3>1, <3>2
  <2>4. h = [s \in SUBSET T |-> FoldStep(f, h, s)]
    <3>1. h = [s \in SUBSET T |-> h[s]]
      OBVIOUS
    <3> HIDE DEF h
    <3> QED BY <2>3, <3>1
  <2> HIDE DEF h
  <2> QED BY <2>4 DEF Folded
<1>2. S \in G
  <2>1. G \in SUBSET SUBSET S
    OBVIOUS
  <2> HIDE DEF G
  <2>2. \A T \in SUBSET S : T \in G
    BY <1>1, <2>1, Smallest
  <2> QED BY ONLY <2>2
<1> QED BY <1>2

\* The sum is the value of such a fold.
LEMMA TotalIsFold ==
    ASSUME NEW f, NEW S, IsFiniteSet(S)
    PROVE  \E g : Folded(f, g, S) /\ Total(f, S) = g[S]
<1> DEFINE g == CHOOSE h : Folded(f, h, S)
<1>1. Folded(f, g, S)
  BY FoldExists
<1>2. Total(f, S) = g[S]
  BY DEF Total, MapThenSumSet, MapThenFoldSet, Folded, FoldStep, First
<1> QED BY <1>1, <1>2

\* The sum over the empty set.
LEMMA TotalEmpty == ASSUME NEW f PROVE Total(f, {}) = 0
<1>1. IsFiniteSet({})
  BY FS_EmptySet
<1>2. PICK g : Folded(f, g, {}) /\ Total(f, {}) = g[{}]
  BY ONLY <1>1, TotalIsFold
<1>3. {} \in SUBSET {}
  OBVIOUS
<1>4. g[{}] = FoldStep(f, g, {})
  BY ONLY <1>2, <1>3 DEF Folded
<1> QED BY ONLY <1>2, <1>4 DEF FoldStep

\* The sum with the first element taken out.
LEMMA TotalFirst ==
    ASSUME NEW f, NEW S, IsFiniteSet(S), S # {}
    PROVE  Total(f, S) = f[First(S)] + Total(f, S \ {First(S)})
<1> DEFINE T == S \ {First(S)}
<1>1. T \subseteq S /\ IsFiniteSet(T)
  BY FS_Subset
<1>2. PICK g : Folded(f, g, S) /\ Total(f, S) = g[S]
  BY TotalIsFold
<1>3. PICK h : Folded(f, h, T) /\ Total(f, T) = h[T]
  <2> HIDE DEF T
  <2> QED BY <1>1, TotalIsFold
<1>4. g[T] = h[T]
  <2> HIDE DEF T
  <2> QED BY <1>1, <1>2, <1>3, FoldsAgree
<1>5. g[S] = f[First(S)] + g[T]
  BY <1>2 DEF Folded, FoldStep
<1> QED BY <1>2, <1>3, <1>4, <1>5

\* A sum of integers; any element can be taken out of it.
LEMMA TotalTake ==
    ASSUME NEW f, NEW S, IsFiniteSet(S), \A x \in S : f[x] \in Int
    PROVE  /\ Total(f, S) \in Int
           /\ \A x \in S : Total(f, S) = f[x] + Total(f, S \ {x})
<1> DEFINE P(T) == /\ Total(f, T) \in Int
                   /\ \A x \in T : Total(f, T) = f[x] + Total(f, T \ {x})
           G == {T \in SUBSET S : P(T)}
<1>1. ASSUME NEW T \in SUBSET S, \A U \in SUBSET T : U # T => U \in G
      PROVE  T \in G
  <2>1. CASE T = {}
    BY <2>1, TotalEmpty
  <2>2. CASE T # {}
    <3> DEFINE a == First(T)
               A == T \ {a}
    <3>0. a \in T /\ A \in SUBSET T /\ A # T /\ f[a] \in Int
      BY <2>2, FirstIn
    <3>1. Total(f, T) = f[a] + Total(f, A)
      BY <2>2, TotalFirst, FS_Subset
    <3>2. P(A)
      BY <1>1, <3>0
    <3>3. ASSUME NEW x \in T PROVE Total(f, T) = f[x] + Total(f, T \ {x})
      <4>1. CASE x = a
        BY <3>1, <4>1
      <4>2. CASE x # a
        <5> DEFINE B == T \ {x}
        <5>1. P(B)
          BY <1>1
        <5>2. A \ {x} = B \ {a}
          OBVIOUS
        <5>3. Total(f, A) = f[x] + Total(f, A \ {x})
          BY <3>2, <4>2
        <5>4. Total(f, B) = f[a] + Total(f, B \ {a})
          BY <3>0, <4>2, <5>1
        <5>5. P(B \ {a})
          <6>1. B \ {a} \in SUBSET T /\ B \ {a} # T
            BY <3>0
          <6> QED BY <1>1, <6>1
        <5>6. f[x] \in Int
          OBVIOUS
        <5>7. Total(f, B \ {a}) \in Int
          BY <5>5
        <5> DEFINE r == Total(f, B \ {a})
                   fa == f[a]
                   fx == f[x]
        <5>8. Total(f, A) = fx + r /\ Total(f, B) = fa + r /\ Total(f, T) = fa + Total(f, A)
          BY <3>1, <5>2, <5>3, <5>4
        <5>9. r \in Int /\ fa \in Int /\ fx \in Int
          BY <3>0, <5>6, <5>7
        <5> HIDE DEF A, B, a, r, fa, fx
        <5>10. Total(f, T) = fx + Total(f, B)
          BY ONLY <5>8, <5>9
        <5> QED BY ONLY <5>10 DEF fx, B
      <4> QED BY <4>1, <4>2
    <3>4. Total(f, T) \in Int
      BY ONLY <3>0, <3>1, <3>2
    <3> HIDE DEF a, A
    <3> QED BY <3>3, <3>4
  <2> QED BY <2>1, <2>2
<1>2. S \in G
  <2>1. G \in SUBSET SUBSET S
    OBVIOUS
  <2> HIDE DEF G
  <2>2. \A T \in SUBSET S : T \in G
    BY <1>1, <2>1, Smallest
  <2> QED BY ONLY <2>2
<1> QED BY <1>2

\* Equal terms, equal sums.
LEMMA TotalSame ==
    ASSUME NEW f, NEW g, NEW S, IsFiniteSet(S), \A x \in S : f[x] = g[x]
    PROVE  Total(f, S) = Total(g, S)
<1> DEFINE G == {T \in SUBSET S : Total(f, T) = Total(g, T)}
<1>1. ASSUME NEW T \in SUBSET S, \A U \in SUBSET T : U # T => U \in G
      PROVE  T \in G
  <2>1. CASE T = {}
    BY <2>1, TotalEmpty
  <2>2. CASE T # {}
    <3> DEFINE U == T \ {First(T)}
    <3>1. First(T) \in T /\ U \in SUBSET T /\ U # T /\ IsFiniteSet(T)
      BY <2>2, FirstIn, FS_Subset
    <3>2. Total(f, U) = Total(g, U)
      BY <1>1, <3>1
    <3>3. /\ Total(f, T) = f[First(T)] + Total(f, U)
          /\ Total(g, T) = g[First(T)] + Total(g, U)
      BY <2>2, <3>1, TotalFirst
    <3> QED BY <3>1, <3>2, <3>3
  <2> QED BY <2>1, <2>2
<1>2. S \in G
  <2>1. G \in SUBSET SUBSET S
    OBVIOUS
  <2> HIDE DEF G
  <2>2. \A T \in SUBSET S : T \in G
    BY <1>1, <2>1, Smallest
  <2> QED BY ONLY <2>2
<1> QED BY <1>2

\* The sum over two sets without a common element.
LEMMA TotalUnion ==
    ASSUME NEW f, NEW A, NEW B, IsFiniteSet(A), IsFiniteSet(B), A \cap B = {},
           \A x \in A \cup B : f[x] \in Int
    PROVE  Total(f, A \cup B) = Total(f, A) + Total(f, B)
<1> DEFINE G == {T \in SUBSET B : Total(f, A \cup T) = Total(f, A) + Total(f, T)}
<1>1. ASSUME NEW T \in SUBSET B, \A U \in SUBSET T : U # T => U \in G
      PROVE  T \in G
  <2>1. CASE T = {}
    <3>1. A \cup T = A /\ Total(f, T) = 0 /\ Total(f, A) \in Int
      BY <2>1, TotalEmpty, TotalTake
    <3> QED BY <3>1
  <2>2. CASE T # {}
    <3>1. PICK x \in T : TRUE
      BY <2>2
    <3> DEFINE U == T \ {x}
               a == Total(f, A)
               u == Total(f, U)
               au == Total(f, A \cup U)
               fx == f[x]
    <3>2. au = a + u
      BY <1>1
    <3>3. IsFiniteSet(T) /\ IsFiniteSet(U) /\ IsFiniteSet(A \cup T)
      BY FS_Subset, FS_Union
    <3>4. Total(f, T) = fx + u /\ u \in Int /\ fx \in Int /\ a \in Int
      BY <3>3, TotalTake
    <3>5. (A \cup T) \ {x} = A \cup U
      OBVIOUS
    <3>6. Total(f, A \cup T) = fx + au
      BY <3>3, <3>5, TotalTake
    <3> HIDE DEF U, a, u, au, fx
    <3>7. Total(f, A \cup T) = a + Total(f, T)
      BY ONLY <3>2, <3>4, <3>6
    <3> QED BY <3>7 DEF a
  <2> QED BY <2>1, <2>2
<1>2. B \in G
  <2>1. G \in SUBSET SUBSET B
    OBVIOUS
  <2> HIDE DEF G
  <2>2. \A T \in SUBSET B : T \in G
    BY <1>1, <2>1, Smallest
  <2> QED BY ONLY <2>2
<1> QED BY <1>2

-----------------------------------------------------------------------------
(* The planner.                                                             *)

\* A sequence of some of the ids names each of them once.
LEMMA Ordered ==
    ASSUME NEW ids \in SUBSET Ids, NEW s \in InOrder(ids)
    PROVE  /\ Len(s) \in Nat /\ DOMAIN s = 1..Len(s)
           /\ \A i \in 1..Len(s) : s[i] \in ids
           /\ \A i, j \in 1..Len(s) : s[i] = s[j] => i = j
           /\ \A q \in ids : \E i \in 1..Len(s) : s[i] = q
<1>1. Cardinality(ids) \in Nat
  BY QuotesAssumption, FS_Subset, FS_CardinalityType
<1>2. s \in [1..Cardinality(ids) -> ids]
  BY DEF InOrder
<1>3. Len(s) = Cardinality(ids) /\ DOMAIN s = 1..Len(s)
  BY <1>1, <1>2
<1>4. \A i, j \in 1..Len(s) : s[i] = s[j] => i = j
  <2> SUFFICES ASSUME NEW i \in 1..Len(s), NEW j \in 1..Len(s), s[i] = s[j], i # j
               PROVE  FALSE
    OBVIOUS
  <2>1. s[i] \in Nat /\ s[j] \in Nat
    BY <1>2, <1>3, QuotesAssumption
  <2>2. i < j \/ j < i
    BY <1>1, <1>3
  <2>3. s[i] < s[j] \/ s[j] < s[i]
    BY <1>3, <2>2 DEF InOrder
  <2> QED
    BY <2>1, <2>3
<1>5. \A q \in ids : \E i \in 1..Len(s) : s[i] = q
  BY <1>3 DEF InOrder, ToSet
<1> QED
  BY <1>1, <1>2, <1>3, <1>4, <1>5

\* The commands of one reconciliation: no order is placed while a quote is in
\* doubt, one for a quote at most, and after the cancellation of the quote's order.
LEMMA CommandList ==
    ASSUME NEW w \in [Ids -> WorkingQuotes], NEW d \in [Ids -> MaybeOffers],
           NEW cmds \in Commands(w, d)
    PROVE  /\ cmds \in Seq(CommandSet)
           /\ \A q \in Ids : \A i \in 1..Len(cmds) : PlacesFor(cmds, q, i) =>
                  /\ ~Blocked(w)
                  /\ \A j \in 1..Len(cmds) : PlacesFor(cmds, q, j) => j = i
                  /\ IsCancelable(w[q]) => \E j \in 1..(i - 1) : CancelsFor(cmds, q, j)
<1>1. CASE cmds = <<>>
  BY <1>1, EmptySeq
<1>2. CASE cmds = <<Command("CancelAll", 0, NoOffer)>>
  BY <1>2 DEF Command, CommandSet, PlacesFor
<1>3. CASE ~Blocked(w) /\ \E c \in InOrder(ToCancel(w, d)), p \in InOrder(ToPlace(w, d)) :
               cmds = Cancels(c) \o Places(p, d)
  <2>1. PICK c \in InOrder(ToCancel(w, d)), p \in InOrder(ToPlace(w, d)) :
            cmds = Cancels(c) \o Places(p, d)
    BY <1>3
  <2>2. /\ Len(c) \in Nat /\ DOMAIN c = 1..Len(c)
        /\ \A i \in 1..Len(c) : c[i] \in Ids
        /\ \A q \in ToCancel(w, d) : \E i \in 1..Len(c) : c[i] = q
    <3>1. ToCancel(w, d) \in SUBSET Ids
      BY DEF ToCancel
    <3> QED
      BY <3>1, Ordered
  <2>3. /\ Len(p) \in Nat /\ DOMAIN p = 1..Len(p)
        /\ \A i \in 1..Len(p) : p[i] \in ToPlace(w, d) /\ p[i] \in Ids
        /\ \A i, j \in 1..Len(p) : p[i] = p[j] => i = j
    <3>1. ToPlace(w, d) \in SUBSET Ids
      BY DEF ToPlace
    <3> QED
      BY <3>1, Ordered
  <2>4. /\ Cancels(c) \in Seq(CommandSet) /\ Len(Cancels(c)) = Len(c)
        /\ \A i \in 1..Len(c) : /\ Cancels(c)[i].op = "Cancel"
                                /\ Cancels(c)[i].id = c[i]
    BY <2>2 DEF Cancels, Command, CommandSet
  <2>5. /\ Places(p, d) \in Seq(CommandSet) /\ Len(Places(p, d)) = Len(p)
        /\ \A i \in 1..Len(p) : /\ Places(p, d)[i].op = "Place"
                                /\ Places(p, d)[i].id = p[i]
    <3>1. \A i \in 1..Len(p) : d[p[i]] \in Offers
      BY <2>3 DEF ToPlace, MaybeOffers
    <3> QED
      BY <2>3, <3>1 DEF Places, Command, CommandSet
  <2>6. /\ cmds \in Seq(CommandSet)
        /\ Len(cmds) = Len(c) + Len(p)
        /\ \A i \in 1..Len(c) : cmds[i].op = "Cancel" /\ cmds[i].id = c[i]
        /\ \A i \in (Len(c) + 1)..Len(cmds) :
               cmds[i].op = "Place" /\ cmds[i].id = p[i - Len(c)]
    <3>1. /\ cmds \in Seq(CommandSet)
          /\ Len(cmds) = Len(c) + Len(p)
          /\ \A i \in 1..(Len(c) + Len(p)) :
                 cmds[i] = IF i <= Len(c) THEN Cancels(c)[i] ELSE Places(p, d)[i - Len(c)]
      <4>1. Cancels(c) \in Seq(CommandSet) /\ Places(p, d) \in Seq(CommandSet)
        BY <2>4, <2>5
      <4>2. Len(Cancels(c)) = Len(c) /\ Len(Places(p, d)) = Len(p)
        BY <2>4, <2>5
      <4>3. /\ Cancels(c) \o Places(p, d) \in Seq(CommandSet)
            /\ Len(Cancels(c) \o Places(p, d)) = Len(Cancels(c)) + Len(Places(p, d))
            /\ \A i \in 1..(Len(Cancels(c)) + Len(Places(p, d))) :
                   (Cancels(c) \o Places(p, d))[i] =
                       IF i <= Len(Cancels(c)) THEN Cancels(c)[i]
                       ELSE Places(p, d)[i - Len(Cancels(c))]
        BY ONLY <4>1, ConcatProperties
      <4> QED
        BY ONLY <2>1, <4>2, <4>3
    <3>2. \A i \in 1..Len(c) : i \in 1..(Len(c) + Len(p)) /\ i <= Len(c)
      BY <2>2, <2>3
    <3>3. \A i \in (Len(c) + 1)..Len(cmds) :
              /\ i \in 1..(Len(c) + Len(p)) /\ ~(i <= Len(c))
              /\ i - Len(c) \in 1..Len(p)
      BY <2>2, <2>3, <3>1
    <3>4. ASSUME NEW i \in 1..Len(c)
          PROVE  cmds[i].op = "Cancel" /\ cmds[i].id = c[i]
      <4>1. cmds[i] = Cancels(c)[i]
        BY ONLY <3>1, <3>2, <3>4
      <4> QED
        BY ONLY <2>4, <3>4, <4>1
    <3>5. ASSUME NEW i \in (Len(c) + 1)..Len(cmds)
          PROVE  cmds[i].op = "Place" /\ cmds[i].id = p[i - Len(c)]
      <4>1. cmds[i] = Places(p, d)[i - Len(c)]
        BY ONLY <3>1, <3>3, <3>5
      <4>2. i - Len(c) \in 1..Len(p)
        BY ONLY <3>3, <3>5
      <4> QED
        BY ONLY <2>5, <4>1, <4>2
    <3> QED
      BY ONLY <3>1, <3>4, <3>5
  <2>7. ASSUME NEW q \in Ids, NEW i \in 1..Len(cmds), PlacesFor(cmds, q, i)
        PROVE  /\ \A j \in 1..Len(cmds) : PlacesFor(cmds, q, j) => j = i
               /\ IsCancelable(w[q]) => \E j \in 1..(i - 1) : CancelsFor(cmds, q, j)
    <3>1. i \in (Len(c) + 1)..Len(cmds) /\ i - Len(c) \in 1..Len(p)
          /\ p[i - Len(c)] = q
      BY <2>2, <2>3, <2>6, <2>7 DEF PlacesFor
    <3>2. ASSUME NEW j \in 1..Len(cmds), PlacesFor(cmds, q, j) PROVE j = i
      <4>1. j - Len(c) \in 1..Len(p) /\ p[j - Len(c)] = q
        BY <2>2, <2>3, <2>6, <3>2 DEF PlacesFor
      <4>2. j - Len(c) = i - Len(c)
        BY <2>3, <3>1, <4>1
      <4> QED
        BY <2>2, <2>3, <2>6, <4>2
    <3>3. ASSUME IsCancelable(w[q]) PROVE \E j \in 1..(i - 1) : CancelsFor(cmds, q, j)
      <4>1. q \in ToPlace(w, d)
        BY <2>3, <3>1
      <4>2. q \in ToCancel(w, d)
        BY <3>3, <4>1 DEF ToPlace, ToCancel
      <4>3. PICK j \in 1..Len(c) : c[j] = q
        BY <2>2, <4>2
      <4>4. j \in 1..(i - 1)
        BY <2>2, <2>3, <2>6, <3>1
      <4> QED
        BY <2>6, <4>3, <4>4 DEF CancelsFor
    <3> QED
      BY <3>2, <3>3
  <2> QED
    BY <1>3, <2>6, <2>7
<1> QED
  BY <1>1, <1>2, <1>3 DEF Commands

\* What a synchronised quote is, and that a report does not make the planner forget
\* an order that rests.
LEMMA Synced ==
    ASSUME TypeInv, NEW snap \in Snapshots, NEW q \in Ids
    PROVE  /\ Synchronized(working[q], q, snap) \in WorkingQuotes
           /\ live[q] # <<>> /\ MayRest(working[q]) =>
                  MayRest(Synchronized(working[q], q, snap))
<1> DEFINE w == working[q]
           known == live[q] # <<>> /\ MayRest(w)
           timed == MarkUnknownIfTimedOut(w)
<1>1. w \in WorkingQuotes
  BY DEF TypeInv
<1>2. ASSUME NEW x \in WorkingQuotes, NEW s \in States
      PROVE  Moved(x, s) \in WorkingQuotes /\ Moved(x, s).state = s
  BY DEF Moved, WorkingQuotes
<1>3. Answer(q) \in {"Working", "PendingCancel"} \/ Answer(q) = closed[q]
  <2>1. CASE live[q] # <<>>
    BY <2>1 DEF Answer
  <2>2. CASE live[q] = <<>> /\ q \in canceling
    BY <2>2 DEF Answer
  <2>3. CASE live[q] = <<>> /\ q \notin canceling
    BY <2>3 DEF Answer
  <2> QED
    BY <2>1, <2>2, <2>3
<1>4. /\ q \in DOMAIN snap.quotes => snap.quotes[q] = Answer(q)
      /\ snap.authoritative /\ q \notin DOMAIN snap.quotes => q \notin Known
  <2>1. CASE \E ids \in {{}, Known}, f \in {{}, DOMAIN fills} :
                 snap = [authoritative |-> ids = Known, resync_pending |-> FALSE,
                         fills |-> f, quotes |-> [i \in ids |-> Answer(i)]]
    <3>1. PICK ids \in {{}, Known}, f \in {{}, DOMAIN fills} :
              snap = [authoritative |-> ids = Known, resync_pending |-> FALSE,
                      fills |-> f, quotes |-> [i \in ids |-> Answer(i)]]
      BY <2>1
    <3>2. /\ snap.quotes = [i \in ids |-> Answer(i)]
          /\ snap.authoritative = (ids = Known)
      BY <3>1
    <3> QED
      BY <3>2
  <2>2. CASE \E r \in BOOLEAN :
                 snap = [authoritative |-> FALSE, resync_pending |-> r,
                         fills |-> {}, quotes |-> <<>>]
    BY <2>2
  <2> QED
    BY <2>1, <2>2 DEF Snapshots
<1>5. live[q] # <<>> => q \in Known /\ Answer(q) = "Working"
  BY DEF Answer, Known
<1>6. Answer(q) \in States
  BY <1>3 DEF TypeInv, States
<1>7. timed \in WorkingQuotes /\ (known => MayRest(timed))
  <2> HIDE DEF w
  <2>1. timed = w \/ timed = Moved(w, "UnknownOrStale")
    BY DEF MarkUnknownIfTimedOut
  <2>2. "UnknownOrStale" \in States
    BY DEF States
  <2>3. MayRest(Moved(w, "UnknownOrStale"))
    BY <1>1, <1>2, <2>2 DEF MayRest, BlocksConvergence
  <2>4. CASE timed = w
    BY <1>1, <1>5, <2>4
  <2>5. CASE timed = Moved(w, "UnknownOrStale")
    <3>1. Moved(w, "UnknownOrStale") \in WorkingQuotes
      BY <1>1, <1>2, <2>2
    <3> QED
      BY <2>3, <2>5, <3>1
  <2> HIDE DEF timed
  <2> QED
    BY <2>1, <2>4, <2>5
<1> HIDE DEF timed, w
<1>8. CASE snap.resync_pending /\ IsCancelable(w)
  <2>1. Synchronized(w, q, snap) = Moved(w, "UnknownOrStale")
    BY <1>8 DEF Synchronized
  <2> QED
    BY <1>1, <1>2, <2>1 DEF w, MayRest, BlocksConvergence, States
<1>9. CASE ~(snap.resync_pending /\ IsCancelable(w))
           /\ ~(w.state # "None" /\ ~snap.resync_pending)
  <2>1. Synchronized(w, q, snap) = w
    BY <1>9 DEF Synchronized
  <2> QED
    BY <1>1, <1>5, <2>1 DEF w
<1>10. CASE w.state # "None" /\ ~snap.resync_pending /\ q \in DOMAIN snap.quotes
  <2>1. Synchronized(w, q, snap) = ApplyExchangeObservation(timed, Answer(q))
    BY <1>4, <1>10 DEF Synchronized, timed
  <2> QED
    BY <1>2, <1>5, <1>6, <1>7, <2>1
       DEF w, ApplyExchangeObservation, MayRest, IsCancelable
<1>11. CASE /\ w.state # "None" /\ ~snap.resync_pending
            /\ q \notin DOMAIN snap.quotes /\ snap.authoritative
  <2>1. Synchronized(w, q, snap) = ApplyAuthoritativeAbsence(timed)
    BY <1>11 DEF Synchronized, timed
  <2>2. live[q] = <<>>
    BY <1>4, <1>5, <1>11
  <2>3. ApplyAuthoritativeAbsence(timed)
            \in {timed, Moved(timed, "Canceled"), Moved(timed, "UnknownOrStale")}
    BY DEF ApplyAuthoritativeAbsence
  <2> QED
    BY <1>2, <1>7, <2>1, <2>2, <2>3 DEF w, States
<1>12. CASE /\ w.state # "None" /\ ~snap.resync_pending
            /\ q \notin DOMAIN snap.quotes /\ ~snap.authoritative
  <2>1. Synchronized(w, q, snap) = timed
    BY <1>12 DEF Synchronized, timed
  <2> QED
    BY <1>7, <2>1 DEF w
<1> QED
  BY <1>8, <1>9, <1>10, <1>11, <1>12

\* A command keeps what a quote is, and that it may have an order.
LEMMA CommandedQuote ==
    ASSUME TypeInv, NEW w \in WorkingQuotes, NEW q \in Ids, NEW cmds \in Seq(CommandSet)
    PROVE  /\ Commanded(w, q, cmds) \in WorkingQuotes
           /\ MayRest(w) => MayRest(Commanded(w, q, cmds))
           /\ \A i \in 1..Len(cmds) : PlacesFor(cmds, q, i) =>
                  Commanded(w, q, cmds).state = "PendingSubmit"
<1>1. /\ PendingSubmit(desired[q]) \in WorkingQuotes
      /\ PendingSubmit(desired[q]).state = "PendingSubmit"
  BY DEF PendingSubmit, WorkingQuotes, States, TypeInv
<1>2. /\ MarkPendingCancel(w) \in WorkingQuotes
      /\ MarkPendingCancel(w).state = "PendingCancel"
  BY DEF MarkPendingCancel, WorkingQuotes, States
<1>3. Commanded(w, q, cmds) \in {PendingSubmit(desired[q]), MarkPendingCancel(w), w}
  BY DEF Commanded
<1>4. ASSUME NEW i \in 1..Len(cmds), PlacesFor(cmds, q, i)
      PROVE  Commanded(w, q, cmds) = PendingSubmit(desired[q])
  <2>1. cmds[i] \in ToSet(cmds) /\ cmds[i].op = "Place" /\ cmds[i].id = q
    BY <1>4, LenProperties DEF ToSet, PlacesFor
  <2>2. {c \in ToSet(cmds) : c.op = "Place" /\ c.id = q} # {}
    BY <2>1
  <2> QED
    BY <2>2 DEF Commanded
<1> QED
  BY <1>1, <1>2, <1>3, <1>4 DEF MayRest, IsCancelable

-----------------------------------------------------------------------------
(* The actions.                                                             *)

\* Nothing is quoted, sent or resting.
LEMMA InitInv == Init => Inv
<1> SUFFICES ASSUME Init PROVE Inv
  OBVIOUS
<1>1. TypeInv
  <2>1. wire \in Seq(CommandSet) /\ <<>> \in Seq(Offers)
    BY EmptySeq DEF Init
  <2>2. working \in [Ids -> WorkingQuotes]
    BY DEF Init, WorkingQuotes, States, MaybeOffers
  <2> QED
    BY <2>1, <2>2 DEF Init, TypeInv, MaybeOffers
<1>2. Len(wire) = 0 /\ \A q \in Ids : live[q] = <<>> /\ Len(live[q]) = 0
  BY EmptySeq DEF Init
<1> QED
  BY <1>1, <1>2 DEF Inv, PlacedInv, OneOrderPerQuote, NoForgottenOrder

\* The states of the quotes, the commands and the orders are all that matters.
LEMMA Unmoved ==
    ASSUME Inv, TypeInv', UNCHANGED <<wire, live>>,
           \A q \in Ids : working'[q].state = working[q].state
    PROVE  Inv'
BY DEF Inv, PlacedInv, OneOrderPerQuote, NoForgottenOrder, IsCancelable, BlocksConvergence

\* The strategy wants something else.
LEMMA DesireStep == ASSUME Inv, NEW d \in Wanted, Desire(d) PROVE Inv'
<1>1. TypeInv'
  BY QuotesAssumption DEF Inv, TypeInv, Desire, local, exchange, MaybeOffers
<1> QED
  BY <1>1, Unmoved DEF Desire, local, exchange

\* Quotes grow older.
LEMMA TickStep == ASSUME Inv, Tick PROVE Inv'
<1>1. \A q \in Ids : /\ working'[q] \in WorkingQuotes
                     /\ working'[q].state = working[q].state
  <2> SUFFICES ASSUME NEW q \in Ids
               PROVE  working'[q] \in WorkingQuotes /\ working'[q].state = working[q].state
    OBVIOUS
  <2>1. working[q] \in WorkingQuotes
    BY DEF Inv, TypeInv
  <2>2. working'[q] = [working[q] EXCEPT !.age =
                           IF @ < MaxAge /\ working[q].state # "None" THEN @ + 1 ELSE @]
    BY DEF Tick
  <2> QED
    BY <2>1, <2>2 DEF WorkingQuotes
<1>2. TypeInv'
  <2>1. working' \in [Ids -> WorkingQuotes]
    BY <1>1 DEF Tick
  <2> QED
    BY <2>1 DEF Inv, TypeInv, Tick, exchange
<1> QED
  BY <1>1, <1>2, Unmoved DEF Tick, exchange

\* A reconciliation replaces what has reached the exchange.
LEMMA CycleStep ==
    ASSUME ~LateReports, Inv, NEW snap \in Snapshots, Cycle(snap) PROVE Inv'
<1> DEFINE synced == [q \in Ids |-> Synchronized(working[q], q, snap)]
<1>1. wire = <<>> /\ UNCHANGED <<desired, live, closed>>
  BY DEF Cycle, Asked, exchange
<1>2. synced \in [Ids -> WorkingQuotes]
      /\ \A q \in Ids : live[q] # <<>> => MayRest(synced[q])
  BY Synced DEF Inv, NoForgottenOrder, MayRest
<1>3. PICK cmds \in IF snap.resync_pending THEN {<<>>} ELSE Commands(synced, desired) :
          /\ working' = [q \in Ids |-> Commanded(synced[q], q, cmds)]
          /\ wire' = wire \o cmds
  BY DEF Cycle, Reconcile
<1> HIDE DEF synced
<1>4. /\ cmds \in Seq(CommandSet)
      /\ \A q \in Ids : \A i \in 1..Len(cmds) : PlacesFor(cmds, q, i) =>
             /\ ~Blocked(synced)
             /\ \A j \in 1..Len(cmds) : PlacesFor(cmds, q, j) => j = i
             /\ IsCancelable(synced[q]) => \E j \in 1..(i - 1) : CancelsFor(cmds, q, j)
  <2>1. CASE snap.resync_pending
    BY <1>3, <2>1, EmptySeq
  <2>2. CASE ~snap.resync_pending
    <3>1. cmds \in Commands(synced, desired) /\ desired \in [Ids -> MaybeOffers]
      BY <1>3, <2>2 DEF Inv, TypeInv
    <3> QED
      BY <1>2, <3>1, CommandList
  <2> QED
    BY <2>1, <2>2
<1>5. wire' = cmds
  BY <1>1, <1>3, <1>4, ConcatEmptySeq
<1>6. \A q \in Ids :
          /\ working'[q] \in WorkingQuotes
          /\ live[q] # <<>> => MayRest(working'[q])
          /\ \A i \in 1..Len(cmds) : PlacesFor(cmds, q, i) =>
                 working'[q].state = "PendingSubmit"
  <2> SUFFICES ASSUME NEW q \in Ids
               PROVE  /\ working'[q] \in WorkingQuotes
                      /\ live[q] # <<>> => MayRest(working'[q])
                      /\ \A i \in 1..Len(cmds) : PlacesFor(cmds, q, i) =>
                             working'[q].state = "PendingSubmit"
    OBVIOUS
  <2>1. synced[q] \in WorkingQuotes
    BY <1>2
  <2>2. working'[q] = Commanded(synced[q], q, cmds)
    BY <1>3
  <2> QED
    BY <1>2, <1>4, <2>1, <2>2, CommandedQuote DEF Inv
<1>7. TypeInv'
  <2>1. working' \in [Ids -> WorkingQuotes]
    BY <1>3, <1>6
  <2> QED
    BY <1>1, <1>4, <1>5, <2>1 DEF Inv, TypeInv
<1>8. PlacedInv'
  <2> SUFFICES ASSUME NEW q \in Ids, NEW i \in 1..Len(cmds), PlacesFor(cmds, q, i)
               PROVE  /\ working'[q].state = "PendingSubmit"
                      /\ \A j \in 1..Len(cmds) : PlacesFor(cmds, q, j) => j = i
                      /\ live'[q] = <<>> \/ \E j \in 1..(i - 1) : CancelsFor(cmds, q, j)
    BY <1>5 DEF PlacedInv, PlacesFor, CancelsFor
  <2>1. ~BlocksConvergence(synced[q])
    BY <1>4 DEF Blocked
  <2>2. live[q] # <<>> => IsCancelable(synced[q])
    BY <1>2, <2>1 DEF MayRest
  <2> QED
    BY <1>1, <1>4, <1>6, <2>2
<1>9. OneOrderPerQuote' /\ NoForgottenOrder'
  BY <1>1, <1>6 DEF Inv, OneOrderPerQuote, NoForgottenOrder, MayRest, IsCancelable,
                    BlocksConvergence
<1> QED
  BY <1>7, <1>8, <1>9 DEF Inv

\* The first command leaves the wire.
LEMMA WireTail ==
    ASSUME TypeInv, wire # <<>>
    PROVE  /\ wire[1] = Head(wire) /\ Head(wire) \in CommandSet
           /\ Tail(wire) \in Seq(CommandSet)
           /\ Len(wire) \in Nat \ {0} /\ Len(Tail(wire)) = Len(wire) - 1
           /\ \A i \in 1..Len(Tail(wire)) : Tail(wire)[i] = wire[i + 1]
           /\ \A i \in 1..Len(Tail(wire)) : i + 1 \in 1..Len(wire)
<1>1. wire \in Seq(CommandSet)
  BY DEF TypeInv
<1> QED
  BY <1>1, HeadTailProperties, LenProperties, EmptySeq

\* What PlacedInv says of the commands that stay, when no quote they place for gets
\* an order.
LEMMA PlacedTail ==
    ASSUME Inv, wire # <<>>, wire' = Tail(wire), UNCHANGED working,
           \A q \in Ids : live[q] = <<>> /\ live'[q] # <<>> => PlacesFor(wire, q, 1),
           \A q \in Ids : CancelsFor(wire, q, 1) => live'[q] = <<>>
    PROVE  PlacedInv'
<1> SUFFICES ASSUME NEW q \in Ids, NEW i \in 1..Len(Tail(wire)),
                    PlacesFor(Tail(wire), q, i)
             PROVE  /\ working[q].state = "PendingSubmit"
                    /\ \A j \in 1..Len(Tail(wire)) : PlacesFor(Tail(wire), q, j) => j = i
                    /\ live'[q] = <<>> \/ \E j \in 1..(i - 1) : CancelsFor(Tail(wire), q, j)
  BY DEF PlacedInv, PlacesFor, CancelsFor
<1>1. i + 1 \in 1..Len(wire) /\ PlacesFor(wire, q, i + 1)
  BY WireTail DEF PlacesFor
<1>2. /\ working[q].state = "PendingSubmit"
      /\ \A j \in 1..Len(wire) : PlacesFor(wire, q, j) => j = i + 1
      /\ live[q] = <<>> \/ \E j \in 1..(i + 1 - 1) : CancelsFor(wire, q, j)
  BY <1>1 DEF Inv, PlacedInv
<1>3. \A j \in 1..Len(Tail(wire)) : PlacesFor(Tail(wire), q, j) => j = i
  <2> SUFFICES ASSUME NEW j \in 1..Len(Tail(wire)), PlacesFor(Tail(wire), q, j)
               PROVE  j = i
    OBVIOUS
  <2>1. j + 1 \in 1..Len(wire) /\ PlacesFor(wire, q, j + 1)
    BY WireTail DEF PlacesFor
  <2>2. j + 1 = i + 1
    BY <1>2, <2>1
  <2> QED
    BY <2>2
<1>4. CASE live[q] = <<>>
  <2>1. ~PlacesFor(wire, q, 1)
    BY <1>2, WireTail
  <2> QED
    BY <1>2, <1>3, <1>4, <2>1
<1>5. CASE live[q] # <<>>
  <2>1. PICK j \in 1..i : CancelsFor(wire, q, j)
    BY <1>2, <1>5
  <2>2. CASE j = 1
    BY <1>2, <1>3, <2>1, <2>2
  <2>3. CASE j # 1
    <3>1. j - 1 \in 1..(i - 1) /\ j - 1 \in 1..Len(Tail(wire)) /\ (j - 1) + 1 = j
      BY <2>3, WireTail
    <3>2. CancelsFor(Tail(wire), q, j - 1)
      BY <2>1, <3>1, WireTail DEF CancelsFor
    <3> QED
      BY <1>2, <1>3, <3>1, <3>2
  <2> QED
    BY <2>2, <2>3
<1> QED
  BY <1>4, <1>5

\* The exchange takes a command: an order only where none rests.
LEMMA AcceptStep == ASSUME Inv, Accept PROVE Inv'
<1> DEFINE c == Head(wire)
<1>1. /\ wire # <<>> /\ wire' = Tail(wire)
      /\ UNCHANGED <<desired, working, closed>>
  BY DEF Accept, local
<1>2. c = wire[1] /\ c \in CommandSet /\ 1 \in 1..Len(wire)
  BY <1>1, WireTail DEF Inv
<1>3. live \in [Ids -> Seq(Offers)]
  BY DEF Inv, TypeInv
<1>4. CASE c.op = "Place"
  <2>1. c.id \in Ids /\ c.offer \in Offers
    BY <1>2, <1>4 DEF CommandSet
  <2>2. live' = [live EXCEPT ![c.id] = Append(@, c.offer)]
    BY <1>4 DEF Accept
  <2>3. PlacesFor(wire, c.id, 1)
    BY <1>2, <1>4 DEF PlacesFor
  <2>4. working[c.id].state = "PendingSubmit" /\ live[c.id] = <<>>
    BY <1>2, <2>1, <2>3 DEF Inv, PlacedInv
  <2>5. live'[c.id] \in Seq(Offers) /\ Len(live'[c.id]) = 1
    BY <1>3, <2>1, <2>2, <2>4, AppendProperties, EmptySeq
  <2>6. \A q \in Ids \ {c.id} : live'[q] = live[q]
    BY <1>3, <2>1, <2>2
  <2>7. live' \in [Ids -> Seq(Offers)]
    BY <1>3, <2>1, <2>2, <2>5
  <2>8. TypeInv'
    BY <1>1, <2>7, WireTail DEF Inv, TypeInv
  <2>9. \A q \in Ids : CancelsFor(wire, q, 1) => live'[q] = <<>>
    BY <1>2, <1>4 DEF CancelsFor
  <2>10. PlacedInv'
    <3>1. \A q \in Ids : live[q] = <<>> /\ live'[q] # <<>> => PlacesFor(wire, q, 1)
      <4> SUFFICES ASSUME NEW q \in Ids, live[q] = <<>>, live'[q] # <<>>
                   PROVE  PlacesFor(wire, q, 1)
        OBVIOUS
      <4>1. q = c.id
        BY <2>6
      <4> QED
        BY <2>3, <4>1
    <3> QED
      BY <1>1, <2>9, <3>1, PlacedTail
  <2>11. OneOrderPerQuote'
    <3> SUFFICES ASSUME NEW q \in Ids PROVE Len(live'[q]) <= 1
      BY DEF OneOrderPerQuote
    <3>1. CASE q = c.id
      <4>1. Len(live'[q]) = 1
        BY <2>5, <3>1
      <4> QED
        BY <4>1
    <3>2. CASE q # c.id
      <4>1. live'[q] = live[q]
        BY <2>6, <3>2
      <4> QED
        BY <4>1 DEF Inv, OneOrderPerQuote
    <3> QED
      BY <3>1, <3>2
  <2>12. NoForgottenOrder'
    BY <1>1, <2>4, <2>6 DEF Inv, NoForgottenOrder, IsCancelable, BlocksConvergence
  <2> QED
    BY <2>8, <2>10, <2>11, <2>12 DEF Inv
<1>5. CASE c.op # "Place"
  <2> DEFINE hit == {q \in Ids : live[q] # <<>> /\ (c.op = "CancelAll" \/ c.id = q)}
  <2>1. live' = [q \in Ids |-> IF q \in hit THEN <<>> ELSE live[q]]
    BY <1>5 DEF Accept
  <2>2. \A q \in Ids : live'[q] = <<>> \/ live'[q] = live[q]
    BY <2>1
  <2>3. live' \in [Ids -> Seq(Offers)]
    BY <1>3, <2>1, EmptySeq
  <2>4. TypeInv'
    BY <1>1, <2>3, WireTail DEF Inv, TypeInv
  <2>5. \A q \in Ids : CancelsFor(wire, q, 1) => live'[q] = <<>>
    BY <1>2, <2>1 DEF CancelsFor
  <2>6. PlacedInv'
    BY <1>1, <2>2, <2>5, PlacedTail
  <2>7. OneOrderPerQuote' /\ NoForgottenOrder'
    BY <1>1, <2>2, EmptySeq DEF Inv, OneOrderPerQuote, NoForgottenOrder, IsCancelable,
                                BlocksConvergence
  <2> QED
    BY <2>4, <2>6, <2>7 DEF Inv
<1> QED
  BY <1>4, <1>5

\* A rejected command leaves no order.
LEMMA RejectStep == ASSUME Inv, Reject PROVE Inv'
<1>1. /\ wire # <<>> /\ wire' = Tail(wire) /\ Head(wire).op = "Place"
      /\ UNCHANGED <<desired, working, live>>
      /\ closed' = [closed EXCEPT ![Head(wire).id] = "Rejected"]
  BY DEF Reject, local
<1>2. TypeInv'
  BY <1>1, WireTail DEF Inv, TypeInv
<1>3. \A q \in Ids : CancelsFor(wire, q, 1) => live'[q] = <<>>
  BY <1>1, WireTail DEF CancelsFor
<1>4. PlacedInv'
  BY <1>1, <1>3, PlacedTail
<1> QED
  BY <1>1, <1>2, <1>4 DEF Inv, OneOrderPerQuote, NoForgottenOrder, IsCancelable,
                          BlocksConvergence

\* A cancellation ends.
LEMMA CancelEndsStep == ASSUME Inv, NEW q \in Ids, CancelEnds(q) PROVE Inv'
<1>1. TypeInv'
  BY DEF Inv, TypeInv, CancelEnds, local
<1> QED
  BY <1>1, Unmoved DEF CancelEnds, local

\* A fill takes an order away or leaves it.
LEMMA FillStep == ASSUME Inv, NEW q \in Ids, NEW whole, Fill(q, whole) PROVE Inv'
<1>1. live[q] # <<>> /\ UNCHANGED <<desired, wire, working>>
  BY DEF Fill, local
<1>2. live[q] \in Seq(Offers) /\ Len(live[q]) = 1
  <2>1. live[q] \in Seq(Offers) /\ Len(live[q]) <= 1
    BY DEF Inv, TypeInv, OneOrderPerQuote
  <2> DEFINE n == Len(live[q])
  <2>2. n \in Nat /\ n # 0 /\ n <= 1
    BY <1>1, <2>1, EmptySeq
  <2> HIDE DEF n
  <2>3. n = 1
    BY <2>2
  <2> QED
    BY <2>1, <2>3 DEF n
<1>3. Tail(live[q]) \in Seq(Offers) /\ Len(Tail(live[q])) = 0
  BY <1>1, <1>2, HeadTailProperties
<1>4. \A p \in Ids : live'[p] = live[p] \/ live'[p] = <<>>
  BY <1>3, EmptySeq DEF Fill, Inv, TypeInv
<1>5. TypeInv'
  BY <1>1, <1>3 DEF Fill, Inv, TypeInv
<1>6. PlacedInv'
  BY <1>1, <1>4 DEF Inv, PlacedInv, PlacesFor, CancelsFor
<1> QED
  BY <1>1, <1>4, <1>5, <1>6, EmptySeq
     DEF Inv, OneOrderPerQuote, NoForgottenOrder, IsCancelable, BlocksConvergence

\* The connection breaks.
LEMMA LoseStep == ASSUME Inv, Lose PROVE Inv'
<1>1. wire' = <<>> /\ Len(wire') = 0 /\ wire' \in Seq(CommandSet)
      /\ UNCHANGED <<desired, working, live, closed>>
  BY EmptySeq DEF Lose, local, exchange
<1> QED
  BY <1>1 DEF Inv, TypeInv, PlacedInv, OneOrderPerQuote, NoForgottenOrder,
              IsCancelable, BlocksConvergence

\* Every step keeps the invariant.
LEMMA NextInv == ~LateReports /\ Inv /\ [Next]_vars => Inv'
<1> SUFFICES ASSUME ~LateReports, Inv, [Next]_vars PROVE Inv'
  OBVIOUS
<1>1. CASE \E d \in Wanted : Desire(d)
  BY <1>1, DesireStep
<1>2. CASE Tick
  BY <1>2, TickStep
<1>3. CASE \E snap \in Snapshots : Cycle(snap)
  BY <1>3, CycleStep
<1>4. CASE ExchangeStep
  BY <1>4, AcceptStep, RejectStep, LoseStep, CancelEndsStep, FillStep DEF ExchangeStep
<1>5. CASE UNCHANGED vars
  <2>1. TypeInv' /\ UNCHANGED <<wire, live, working>>
    BY <1>5 DEF vars, local, exchange, Inv, TypeInv
  <2> QED
    BY <2>1, Unmoved
<1> QED
  BY <1>1, <1>2, <1>3, <1>4, <1>5 DEF Next

\* The invariant holds in every state reached.
LEMMA Invariance == ASSUME ~LateReports PROVE Spec => []Inv
<1>1. Inv /\ [Next]_vars => Inv'
  BY NextInv
<1> QED
  BY <1>1, InitInv, PTL DEF Spec

-----------------------------------------------------------------------------
(* The fills.                                                               *)

\* What the fills of a report come from, whatever is asked when.
FillsInv == TypeInv /\ fills \in Seq(Offers) /\ seen \subseteq DOMAIN fills

\* The types hold though the exchange be asked before it has all commands.
LEMMA CycleTypes == ASSUME TypeInv, NEW snap \in Snapshots, Cycle(snap) PROVE TypeInv'
<1> DEFINE synced == [q \in Ids |-> Synchronized(working[q], q, snap)]
<1>1. synced \in [Ids -> WorkingQuotes]
  BY Synced
<1>2. PICK cmds \in IF snap.resync_pending THEN {<<>>} ELSE Commands(synced, desired) :
          /\ working' = [q \in Ids |-> Commanded(synced[q], q, cmds)]
          /\ wire' = wire \o cmds
  BY DEF Cycle, Reconcile
<1> HIDE DEF synced
<1>3. cmds \in Seq(CommandSet)
  <2>1. CASE snap.resync_pending
    BY <1>2, <2>1, EmptySeq
  <2>2. CASE ~snap.resync_pending
    <3>1. cmds \in Commands(synced, desired) /\ desired \in [Ids -> MaybeOffers]
      BY <1>2, <2>2 DEF TypeInv
    <3> QED
      BY <1>1, <3>1, CommandList
  <2> QED
    BY <2>1, <2>2
<1>4. wire' \in Seq(CommandSet)
  <2>1. wire \in Seq(CommandSet)
    BY DEF TypeInv
  <2> QED
    BY <1>2, <1>3, <2>1, ConcatProperties
<1>5. working' \in [Ids -> WorkingQuotes]
  <2>1. \A q \in Ids : Commanded(synced[q], q, cmds) \in WorkingQuotes
    BY <1>1, <1>3, CommandedQuote
  <2> QED
    BY <1>2, <2>1
<1> QED
  BY <1>4, <1>5 DEF Cycle, TypeInv, exchange

\* The same when the exchange takes a command.
LEMMA AcceptTypes == ASSUME TypeInv, Accept PROVE TypeInv'
<1> DEFINE c == Head(wire)
<1>1. /\ wire # <<>> /\ wire' = Tail(wire)
      /\ UNCHANGED <<desired, working, closed>>
  BY DEF Accept, local
<1>2. live' \in [Ids -> Seq(Offers)]
  <2>0. live \in [Ids -> Seq(Offers)]
    BY DEF TypeInv
  <2>1. CASE c.op = "Place"
    <3>1. c.id \in Ids /\ c.offer \in Offers
      BY <1>1, <2>1, WireTail DEF CommandSet
    <3>2. Append(live[c.id], c.offer) \in Seq(Offers)
      BY <2>0, <3>1, AppendProperties
    <3>3. live' = [live EXCEPT ![c.id] = Append(live[c.id], c.offer)]
      BY <2>1 DEF Accept
    <3> HIDE DEF c
    <3> QED
      BY ONLY <2>0, <3>1, <3>2, <3>3
  <2>2. CASE c.op # "Place"
    <3>1. \A q \in Ids : live'[q] = <<>> \/ live'[q] = live[q]
      BY <2>2 DEF Accept
    <3>2. live' = [q \in Ids |-> live'[q]]
      BY <2>2 DEF Accept
    <3> QED
      BY <2>0, <3>1, <3>2, EmptySeq
  <2> QED
    BY <2>1, <2>2
<1> QED
  BY <1>1, <1>2, WireTail DEF TypeInv

\* The same when it fills an order.
LEMMA FillTypes ==
    ASSUME FillsInv, NEW q \in Ids, NEW whole, Fill(q, whole)
    PROVE  TypeInv' /\ Head(live[q]) \in Offers /\ fills' = Append(fills, Head(live[q]))
<1>1. live[q] \in Seq(Offers) /\ live[q] # <<>>
  BY DEF FillsInv, TypeInv, Fill
<1>2. Tail(live[q]) \in Seq(Offers) /\ Head(live[q]) \in Offers
  BY <1>1, HeadTailProperties
<1> QED
  BY <1>1, <1>2 DEF Fill, FillsInv, TypeInv, local

\* Only the exchange fills, and only a reconciliation takes fills from a report.
LEMMA FillsStep ==
    ASSUME FillsInv, [Next]_vars
    PROVE  /\ FillsInv'
           /\ \A f \in seen : f \in DOMAIN fills' /\ fills'[f] = fills[f]
           /\ UNCHANGED <<seen, inventory>>
              \/ \E snap \in Snapshots :
                    /\ Cycle(snap) /\ fills' = fills /\ snap.fills \subseteq DOMAIN fills
<1>1. CASE \E d \in Wanted : Desire(d)
  BY <1>1, QuotesAssumption DEF FillsInv, TypeInv, Desire, local, exchange, MaybeOffers
<1>2. CASE Tick
  <2>1. \A q \in Ids : working'[q] \in WorkingQuotes
    <3> SUFFICES ASSUME NEW q \in Ids PROVE working'[q] \in WorkingQuotes
      OBVIOUS
    <3>1. working[q] \in WorkingQuotes
      BY DEF FillsInv, TypeInv
    <3>2. working'[q] = [working[q] EXCEPT !.age =
                             IF @ < MaxAge /\ working[q].state # "None" THEN @ + 1 ELSE @]
      BY <1>2 DEF Tick
    <3> QED
      BY <3>1, <3>2 DEF WorkingQuotes
  <2>2. working' \in [Ids -> WorkingQuotes]
    BY <1>2, <2>1 DEF Tick
  <2> QED
    BY <1>2, <2>2 DEF FillsInv, TypeInv, Tick, exchange
<1>3. ASSUME NEW snap \in Snapshots, Cycle(snap)
      PROVE  /\ FillsInv' /\ fills' = fills
             /\ snap.fills \subseteq DOMAIN fills
  <2>1. snap.fills \subseteq DOMAIN fills
    BY DEF Snapshots
  <2>2. fills' = fills /\ seen' = seen \cup snap.fills
    BY <1>3 DEF Cycle, Reconcile, exchange
  <2>3. TypeInv'
    BY <1>3, CycleTypes DEF FillsInv
  <2> QED
    BY <2>1, <2>2, <2>3 DEF FillsInv
<1>4. CASE Accept
  BY <1>4, AcceptTypes DEF FillsInv, Accept, local
<1>5. CASE Reject
  <2>1. TypeInv'
    BY <1>5, WireTail DEF FillsInv, TypeInv, Reject, local
  <2> QED
    BY <1>5, <2>1 DEF FillsInv, Reject, local
<1>6. CASE Lose
  BY <1>6, EmptySeq DEF FillsInv, TypeInv, Lose, local, exchange
<1>7. ASSUME NEW q \in Ids, CancelEnds(q)
      PROVE  FillsInv' /\ UNCHANGED <<fills, seen, inventory>>
  BY <1>7 DEF FillsInv, TypeInv, CancelEnds, local
<1>8. ASSUME NEW q \in Ids, NEW whole \in BOOLEAN, Fill(q, whole)
      PROVE  /\ FillsInv' /\ UNCHANGED <<seen, inventory>>
             /\ \A f \in seen : f \in DOMAIN fills' /\ fills'[f] = fills[f]
  <2>1. UNCHANGED <<seen, inventory>>
    BY <1>8 DEF Fill, local
  <2>2. fills \in Seq(Offers) /\ seen \subseteq 1..Len(fills)
    BY DEF FillsInv
  <2>3. /\ fills' \in Seq(Offers) /\ Len(fills') = Len(fills) + 1
        /\ \A f \in 1..Len(fills) : fills'[f] = fills[f]
    BY <1>8, <2>2, FillTypes, AppendProperties
  <2>4. \A f \in 1..Len(fills) : f \in 1..Len(fills')
    BY <2>2, <2>3, LenProperties
  <2>5. DOMAIN fills' = 1..Len(fills')
    BY <2>3
  <2>6. TypeInv'
    BY <1>8, FillTypes
  <2> QED
    BY <2>1, <2>2, <2>3, <2>4, <2>5, <2>6 DEF FillsInv
<1>9. CASE UNCHANGED vars
  BY <1>9 DEF FillsInv, TypeInv, vars, local, exchange
<1> QED
  <2>1. CASE \E snap \in Snapshots : Cycle(snap)
    BY <1>3, <2>1 DEF FillsInv
  <2>2. CASE \E q \in Ids : CancelEnds(q)
    BY <1>7, <2>2 DEF FillsInv
  <2>3. CASE \E q \in Ids : \E whole \in BOOLEAN : Fill(q, whole)
    BY <1>8, <2>3
  <2>4. \A f \in seen : f \in DOMAIN fills
    BY DEF FillsInv
  <2>5. CASE Accept \/ Reject \/ Lose
    BY <1>4, <1>5, <1>6, <2>4, <2>5 DEF Accept, Reject, Lose, local, exchange
  <2>6. CASE (\E d \in Wanted : Desire(d)) \/ Tick \/ UNCHANGED vars
    BY <1>1, <1>2, <1>9, <2>4, <2>6 DEF Desire, Tick, vars, local, exchange
  <2> QED
    BY <2>1, <2>2, <2>3, <2>5, <2>6 DEF Next, ExchangeStep

-----------------------------------------------------------------------------

\* Two orders never rest for one quote: a replacement goes behind the cancellation
\* of its predecessor, and nothing is placed for a quote in doubt (reconcile of
\* order_manager.rs).
THEOREM OneOrder == ASSUME ~LateReports PROVE Spec => []OneOrderPerQuote
<1>1. Inv => OneOrderPerQuote
  BY DEF Inv
<1> QED
  BY <1>1, Invariance, PTL

\* No report, absence, timeout, rejection or lost command makes the planner take
\* an order that rests for gone (the moves of order_state.rs).
THEOREM NoneForgotten == ASSUME ~LateReports PROVE Spec => []NoForgottenOrder
<1>1. Inv => NoForgottenOrder
  BY DEF Inv
<1> QED
  BY <1>1, Invariance, PTL

\* What the fills of a set come to, for each kind of offer.
Sizes(fl) == [f \in DOMAIN fl |-> ParseUnits(fl[f].size)]
Notionals(fl) == [f \in DOMAIN fl |-> Notional(fl[f])]
Mine(fl, S, k) == {f \in S : fl[f].kind = k}
Counted(fl, S) ==
    [k \in Kinds |-> [filled_size |-> Total(Sizes(fl), Mine(fl, S, k)),
                      net_notional |-> Total(Notionals(fl), Mine(fl, S, k))]]

\* The sums of Positions are those of two functions on the fills.
LEMMA SumOfSizes ==
    ASSUME NEW fl, NEW S, IsFiniteSet(S), S \subseteq DOMAIN fl
    PROVE  MapThenSumSet(LAMBDA f : ParseUnits(fl[f].size), S) = Total(Sizes(fl), S)
<1> DEFINE Fold(g) == g = [s \in SUBSET S |->
                              IF s = {} THEN 0
                              ELSE ParseUnits(fl[First(s)].size) + g[s \ {First(s)}]]
           h == CHOOSE g : Fold(g)
<1>1. \A s \in SUBSET S : s # {} =>
          Sizes(fl)[First(s)] = ParseUnits(fl[First(s)].size)
  <2> SUFFICES ASSUME NEW s \in SUBSET S, s # {}
               PROVE  Sizes(fl)[First(s)] = ParseUnits(fl[First(s)].size)
    OBVIOUS
  <2>1. First(s) \in DOMAIN fl
    BY FirstIn
  <2> QED BY <2>1 DEF Sizes
<1>2. \A g : Fold(g) <=> Folded(Sizes(fl), g, S)
  BY <1>1 DEF Folded, FoldStep
<1>3. Folded(Sizes(fl), h, S)
  <2>1. \E g : Fold(g)
    BY <1>2, FoldExists
  <2> HIDE DEF Fold
  <2> QED BY <1>2, <2>1
<1>4. MapThenSumSet(LAMBDA f : ParseUnits(fl[f].size), S) = h[S]
  BY DEF MapThenSumSet, MapThenFoldSet, First
<1> HIDE DEF h, Fold
<1>5. PICK g : Folded(Sizes(fl), g, S) /\ Total(Sizes(fl), S) = g[S]
  BY TotalIsFold
<1>6. g[S] = h[S]
  BY <1>3, <1>5, FoldsAgree
<1> QED BY <1>4, <1>5, <1>6

\* The same of the notionals.
LEMMA SumOfNotionals ==
    ASSUME NEW fl, NEW S, IsFiniteSet(S), S \subseteq DOMAIN fl
    PROVE  MapThenSumSet(LAMBDA f : Notional(fl[f]), S) = Total(Notionals(fl), S)
<1> DEFINE Fold(g) == g = [s \in SUBSET S |->
                              IF s = {} THEN 0
                              ELSE Notional(fl[First(s)]) + g[s \ {First(s)}]]
           h == CHOOSE g : Fold(g)
<1>1. \A s \in SUBSET S : s # {} =>
          Notionals(fl)[First(s)] = Notional(fl[First(s)])
  <2> SUFFICES ASSUME NEW s \in SUBSET S, s # {}
               PROVE  Notionals(fl)[First(s)] = Notional(fl[First(s)])
    OBVIOUS
  <2>1. First(s) \in DOMAIN fl
    BY FirstIn
  <2> QED BY <2>1 DEF Notionals
<1>2. \A g : Fold(g) <=> Folded(Notionals(fl), g, S)
  BY <1>1 DEF Folded, FoldStep
<1>3. Folded(Notionals(fl), h, S)
  <2>1. \E g : Fold(g)
    BY <1>2, FoldExists
  <2> HIDE DEF Fold
  <2> QED BY <1>2, <2>1
<1>4. MapThenSumSet(LAMBDA f : Notional(fl[f]), S) = h[S]
  BY DEF MapThenSumSet, MapThenFoldSet, First
<1> HIDE DEF h, Fold
<1>5. PICK g : Folded(Notionals(fl), g, S) /\ Total(Notionals(fl), S) = g[S]
  BY TotalIsFold
<1>6. g[S] = h[S]
  BY <1>3, <1>5, FoldsAgree
<1> QED BY <1>4, <1>5, <1>6

\* What the fills of an offer's kind come to is a sum of integers.
LEMMA MineFacts ==
    ASSUME NEW fl \in Seq(Offers), NEW S \in SUBSET DOMAIN fl, NEW k
    PROVE  /\ IsFiniteSet(Mine(fl, S, k)) /\ Mine(fl, S, k) \subseteq DOMAIN fl
           /\ \A f \in DOMAIN fl : Sizes(fl)[f] \in Int /\ Notionals(fl)[f] \in Int
           /\ Total(Sizes(fl), Mine(fl, S, k)) \in Int
           /\ Total(Notionals(fl), Mine(fl, S, k)) \in Int
<1>1. DOMAIN fl = 1..Len(fl) /\ Len(fl) \in Nat /\ \A f \in DOMAIN fl : fl[f] \in Offers
  OBVIOUS
<1>2. Mine(fl, S, k) \subseteq DOMAIN fl
  BY DEF Mine
<1>3. IsFiniteSet(Mine(fl, S, k))
  <2>1. 1 \in Int /\ Len(fl) \in Int
    BY <1>1
  <2>2. IsFiniteSet(1..Len(fl))
    BY ONLY <2>1, FS_Interval
  <2> QED
    BY ONLY <1>1, <1>2, <2>2, FS_Subset
<1>4. \A f \in DOMAIN fl : Sizes(fl)[f] \in Int /\ Notionals(fl)[f] \in Int
  BY <1>1, OffersAssumption DEF Sizes, Notionals
<1>5. \A f \in Mine(fl, S, k) : Sizes(fl)[f] \in Int /\ Notionals(fl)[f] \in Int
  BY <1>2, <1>4
<1> QED BY <1>2, <1>3, <1>4, <1>5, TotalTake

\* Counting more fills on top of some is counting them all.
LEMMA PositionsMore ==
    ASSUME FillsInv, NEW A \in SUBSET DOMAIN fills, NEW B \in SUBSET DOMAIN fills,
           A \cap B = {}
    PROVE  Positions(Counted(fills, A), B) = Counted(fills, A \cup B)
<1>1. fills \in Seq(Offers)
  BY DEF FillsInv
<1>2. ASSUME NEW k \in Kinds
      PROVE  Positions(Counted(fills, A), B)[k] = Counted(fills, A \cup B)[k]
  <2> DEFINE a == Mine(fills, A, k)
             b == Mine(fills, B, k)
             sz == Sizes(fills)
             nt == Notionals(fills)
  <2>1. Mine(fills, A \cup B, k) = a \cup b /\ a \cap b = {}
    BY DEF Mine
  <2>2. IsFiniteSet(a) /\ IsFiniteSet(b) /\ a \subseteq DOMAIN fills /\ b \subseteq DOMAIN fills
    BY <1>1, MineFacts
  <2>3. \A f \in a \cup b : sz[f] \in Int /\ nt[f] \in Int
    BY <1>1, <2>2, MineFacts
  <2>4. Positions(Counted(fills, A), B)[k] =
            [filled_size |-> Total(sz, a) + MapThenSumSet(LAMBDA f : ParseUnits(fills[f].size), b),
             net_notional |-> Total(nt, a) + MapThenSumSet(LAMBDA f : Notional(fills[f]), b)]
    BY DEF Positions, Counted, Mine
  <2> HIDE DEF a, b, sz, nt
  <2>5. /\ MapThenSumSet(LAMBDA f : ParseUnits(fills[f].size), b) = Total(sz, b)
        /\ MapThenSumSet(LAMBDA f : Notional(fills[f]), b) = Total(nt, b)
    BY <2>2, SumOfSizes, SumOfNotionals DEF sz, nt
  <2>6. Total(sz, a \cup b) = Total(sz, a) + Total(sz, b)
    BY <2>1, <2>2, <2>3, TotalUnion
  <2>7. Total(nt, a \cup b) = Total(nt, a) + Total(nt, b)
    BY <2>1, <2>2, <2>3, TotalUnion
  <2>8. Counted(fills, A \cup B)[k] =
            [filled_size |-> Total(sz, a \cup b), net_notional |-> Total(nt, a \cup b)]
    BY <2>1 DEF Counted, sz, nt
  <2> QED BY <2>4, <2>5, <2>6, <2>7, <2>8
<1> QED BY <1>2 DEF Positions, Counted

\* Nothing filled is nothing counted.
LEMMA NoneCounted == ASSUME NEW fl PROVE Counted(fl, {}) = NoInventory
<1>1. \A k : Mine(fl, {}, k) = {}
  BY DEF Mine
<1> QED BY <1>1, TotalEmpty DEF Counted, NoInventory

\* Fills that stay what they are count the same.
LEMMA CountedSame ==
    ASSUME NEW fl \in Seq(Offers), NEW gl \in Seq(Offers), NEW S \in SUBSET DOMAIN fl,
           \A f \in S : f \in DOMAIN gl /\ gl[f] = fl[f]
    PROVE  Counted(gl, S) = Counted(fl, S)
<1>1. ASSUME NEW k \in Kinds PROVE Counted(gl, S)[k] = Counted(fl, S)[k]
  <2> DEFINE m == Mine(fl, S, k)
  <2>1. Mine(gl, S, k) = m
    BY DEF Mine
  <2>2. IsFiniteSet(m)
    BY MineFacts
  <2>3. \A f \in m : f \in S /\ f \in DOMAIN fl /\ f \in DOMAIN gl /\ gl[f] = fl[f]
    BY DEF Mine
  <2> HIDE DEF m
  <2>4. \A f \in m : Sizes(gl)[f] = Sizes(fl)[f] /\ Notionals(gl)[f] = Notionals(fl)[f]
    BY <2>3 DEF Sizes, Notionals
  <2>5. Total(Sizes(gl), m) = Total(Sizes(fl), m) /\ Total(Notionals(gl), m) = Total(Notionals(fl), m)
    BY <2>2, <2>4, TotalSame
  <2> QED BY <2>1, <2>5 DEF Counted, m
<1> QED BY <1>1 DEF Counted

\* The inventory is what the fills in earlier reports come to.
CountInv == FillsInv /\ inventory = Counted(fills, seen)

\* Nothing is filled at first.
LEMMA CountInit == Init => CountInv
<1> SUFFICES ASSUME Init PROVE CountInv
  OBVIOUS
<1>1. TypeInv
  BY InitInv DEF Inv
<1>2. fills \in Seq(Offers) /\ seen = {} /\ inventory = NoInventory
  BY EmptySeq DEF Init
<1> QED BY <1>1, <1>2, NoneCounted DEF CountInv, FillsInv

\* Every step keeps it.
LEMMA CountStep == CountInv /\ [Next]_vars => CountInv'
<1> SUFFICES ASSUME CountInv, [Next]_vars PROVE CountInv'
  OBVIOUS
<1>1. FillsInv /\ FillsInv'
  BY FillsStep DEF CountInv
<1>2. CASE UNCHANGED <<seen, inventory>>
  <2>1. /\ fills \in Seq(Offers) /\ fills' \in Seq(Offers) /\ seen \in SUBSET DOMAIN fills
        /\ \A f \in seen : f \in DOMAIN fills' /\ fills'[f] = fills[f]
    BY <1>1, FillsStep DEF FillsInv
  <2>2. Counted(fills', seen) = Counted(fills, seen)
    BY <2>1, CountedSame
  <2> QED BY <1>1, <1>2, <2>2 DEF CountInv
<1>3. ASSUME NEW snap \in Snapshots, Cycle(snap), fills' = fills, snap.fills \subseteq DOMAIN fills
      PROVE  CountInv'
  <2> DEFINE new == snap.fills \ seen
  <2>1. inventory' = Positions(inventory, new) /\ seen' = seen \cup new
    BY <1>3 DEF Cycle, Reconcile, NewFills
  <2>2. seen \in SUBSET DOMAIN fills /\ new \in SUBSET DOMAIN fills /\ seen \cap new = {}
    BY <1>1, <1>3 DEF FillsInv
  <2>3. inventory = Counted(fills, seen)
    BY DEF CountInv
  <2> HIDE DEF new
  <2>4. inventory' = Counted(fills, seen')
    BY <1>1, <2>1, <2>2, <2>3, PositionsMore
  <2> QED BY <1>1, <1>3, <2>4 DEF CountInv
<1> QED BY <1>1, <1>2, <1>3, FillsStep

\* A fill counts once, however often reports repeat it and whatever else they say
\* (apply_inventory_delta and seen_fill_ids of order_manager.rs).
THEOREM FillsOnce == Spec => []FillsCountOnce
<1>1. CountInv => FillsCountOnce
  <2> SUFFICES ASSUME CountInv PROVE FillsCountOnce
    OBVIOUS
  <2>1. FillsInv /\ seen \in SUBSET DOMAIN fills /\ inventory = Counted(fills, seen)
    BY DEF CountInv, FillsInv
  <2>2. Positions(Counted(fills, {}), seen) = Counted(fills, {} \cup seen)
    BY <2>1, PositionsMore
  <2>3. {} \cup seen = seen
    OBVIOUS
  <2> QED BY <2>1, <2>2, <2>3, NoneCounted DEF FillsCountOnce
<1> QED
  BY <1>1, CountInit, CountStep, PTL DEF Spec

-----------------------------------------------------------------------------
(* The throttle the quotes' commands pass, and the limiter before the       *)
(* execution loop: RateLimiter, for any limit, window, retries and clock.   *)

PerWindow == IF MaxPerSecond = 0 THEN 1 ELSE MaxPerSecond
Cap(n) == IF n < PerWindow THEN n ELSE PerWindow

\* Calls let through in the second that starts at tick t.
Passing(t) == Total(passed, SecondFrom(t))

\* Nothing is let through ahead of time, or before the first window.
LimiterTypes ==
    /\ windowStart \in Int /\ count \in Nat
    /\ real \in 0..Horizon /\ wall \in Nat /\ wall >= Window
    /\ passed \in [0..Horizon -> Nat]
    /\ \A t \in 0..Horizon : t > real \/ windowStart = -1 => passed[t] = 0

\* The window opened at tick w of real time, and at least as much of it has gone by
\* as the clock tells.  A second that begins in the window has seen what the window
\* counts at most; one that begins in the Window ticks before, a window's worth more.
OpenedAt(w) ==
    /\ w <= real
    /\ windowStart # -1 => real - w >= wall - windowStart
    /\ \A t \in 0..Horizon :
         /\ t > w => Passing(t) <= Cap(count)
         /\ t > w - Window => Passing(t) <= PerWindow + Cap(count)
         /\ Passing(t) <= 2 * PerWindow

WindowInv == LimiterTypes /\ \E w \in Int : OpenedAt(w)

\* What the sums are: integers, nothing where nothing passed, and one more in the
\* seconds of the present tick when a call is let through.
LEMMA PassingFacts ==
    ASSUME LimiterTypes, NEW t \in 0..Horizon
    PROVE  /\ Passing(t) \in Int
           /\ (\A i \in 0..Horizon : i >= t => passed[i] = 0) => Passing(t) = 0
           /\ passed' = [passed EXCEPT ![real] = @ + 1] =>
                  Total(passed', SecondFrom(t)) =
                      Passing(t) + (IF t <= real /\ real < t + Window THEN 1 ELSE 0)
<1> DEFINE S == SecondFrom(t)
           more == [passed EXCEPT ![real] = passed[real] + 1]
<1>1. Horizon \in Nat /\ Window \in Nat
  BY LimiterAssumption
<1>2. S \subseteq 0..Horizon /\ \A i \in S : i >= t
  BY DEF SecondFrom
<1>3. real \in S <=> t <= real /\ real < t + Window
  BY DEF SecondFrom, LimiterTypes
<1>4. IsFiniteSet(S)
  <2>1. IsFiniteSet(0..Horizon)
    BY <1>1, FS_Interval
  <2> HIDE DEF S
  <2> QED BY <1>2, <2>1, FS_Subset
<1>5. /\ passed \in [0..Horizon -> Nat] /\ real \in 0..Horizon
  BY DEF LimiterTypes
<1> HIDE DEF S
<1>6. \A i \in S : passed[i] \in Int /\ more[i] \in Int
  BY <1>2, <1>5
<1>7. Total(passed, S) \in Int /\ \A i \in S : Total(passed, S) = passed[i] + Total(passed, S \ {i})
  BY <1>4, <1>6, TotalTake
<1>8. ASSUME \A i \in 0..Horizon : i >= t => passed[i] = 0 PROVE Total(passed, S) = 0
  <2>1. \A i \in S : passed[i] = 0
    BY <1>2, <1>8
  <2> DEFINE G == {T \in SUBSET S : Total(passed, T) = 0}
  <2>2. ASSUME NEW T \in SUBSET S, \A U \in SUBSET T : U # T => U \in G
        PROVE  T \in G
    <3>1. CASE T = {}
      BY <3>1, TotalEmpty
    <3>2. CASE T # {}
      <4>1. First(T) \in T /\ IsFiniteSet(T)
        BY <1>4, <3>2, FirstIn, FS_Subset
      <4>2. Total(passed, T \ {First(T)}) = 0
        BY <2>2, <4>1
      <4>3. Total(passed, T) = passed[First(T)] + Total(passed, T \ {First(T)})
        BY <3>2, <4>1, TotalFirst
      <4>4. Total(passed, T) = 0
        BY ONLY <2>1, <4>1, <4>2, <4>3
      <4> QED BY <4>4
    <3> QED BY <3>1, <3>2
  <2>3. G \in SUBSET SUBSET S
    OBVIOUS
  <2> HIDE DEF G
  <2>4. S \in G
    BY <1>4, <2>2, <2>3, Smallest
  <2> QED BY <2>4 DEF G
<1>9. Total(more, S) = Total(passed, S) + (IF real \in S THEN 1 ELSE 0)
  <2>1. \A i \in S \ {real} : more[i] = passed[i]
    BY <1>2, <1>5
  <2>2. IsFiniteSet(S \ {real})
    BY <1>4, FS_Subset
  <2>3. Total(more, S \ {real}) = Total(passed, S \ {real})
    <3> HIDE DEF more
    <3> QED BY <2>1, <2>2, TotalSame
  <2>4. CASE real \in S
    <3> DEFINE a == Total(more, S \ {real})
               b == Total(passed, S)
    <3>1. more[real] = passed[real] + 1 /\ passed[real] \in Nat
      BY <1>5
    <3> HIDE DEF more
    <3>2. Total(more, S) = more[real] + a
      BY <1>4, <1>6, <2>4, TotalTake
    <3>3. a \in Int
      BY <1>6, <2>2, TotalTake
    <3>4. b = passed[real] + a
      BY <1>7, <2>3, <2>4
    <3> HIDE DEF a, b
    <3>5. Total(more, S) = b + 1
      BY ONLY <3>1, <3>2, <3>3, <3>4
    <3> QED BY <2>4, <3>5 DEF b
  <2>5. CASE real \notin S
    <3>1. S \ {real} = S
      BY <2>5
    <3> QED BY <1>7, <2>3, <2>5, <3>1
  <2> QED BY <2>4, <2>5
<1> HIDE DEF more
<1> QED BY <1>3, <1>7, <1>8, <1>9 DEF Passing, S, more

\* A call is let through now or not at all.
LEMMA PassedTypes ==
    ASSUME LimiterTypes, passed' = passed \/ passed' = [passed EXCEPT ![real] = @ + 1]
    PROVE  /\ passed' \in [0..Horizon -> Nat]
           /\ \A t \in 0..Horizon : t > real => passed'[t] = 0
<1>1. /\ passed \in [0..Horizon -> Nat] /\ real \in 0..Horizon
      /\ \A t \in 0..Horizon : t > real => passed[t] = 0
  BY DEF LimiterTypes
<1>2. CASE passed' = passed
  BY <1>1, <1>2
<1>3. CASE passed' = [passed EXCEPT ![real] = passed[real] + 1]
  <2>1. passed' \in [0..Horizon -> Nat]
    BY <1>1, <1>3
  <2>2. \A t \in 0..Horizon : t # real => passed'[t] = passed[t]
    BY <1>1, <1>3
  <2>3. \A t \in 0..Horizon : t > real => t # real
    BY <1>1
  <2> QED BY <1>1, <2>1, <2>2, <2>3
<1> QED BY <1>2, <1>3

\* A window opens: no second of real time holds calls of three windows.
LEMMA WindowOpens ==
    ASSUME WindowInv, UNCHANGED <<real, wall>>,
           windowStart' = wall, count' \in Nat,
           windowStart = -1 \/ wall - windowStart >= Window,
           \/ passed' = passed
           \/ passed' = [passed EXCEPT ![real] = @ + 1] /\ count' >= 1
    PROVE  WindowInv'
<1>1. /\ MaxPerSecond \in Nat /\ Window \in Nat \ {0} /\ Horizon \in Nat
      /\ PerWindow \in Nat \ {0} /\ Cap(count') \in Nat /\ Cap(count') <= PerWindow
      /\ count' >= 1 => Cap(count') >= 1
  BY LimiterAssumption DEF PerWindow, Cap
<1>2. LimiterTypes
  BY DEF WindowInv
<1>3. PICK w \in Int : OpenedAt(w)
  BY DEF WindowInv
<1>4. LimiterTypes'
  <2>1. windowStart' \in Int /\ windowStart' # -1
    BY <1>1, <1>2 DEF LimiterTypes
  <2> QED BY <1>1, <1>2, <2>1, PassedTypes DEF LimiterTypes
<1>5. real \in Int /\ count \in Nat /\ Cap(count) <= PerWindow /\ Cap(count) \in Int
  BY <1>1, <1>2 DEF LimiterTypes, Cap
<1>6. OpenedAt(real)'
  <2>1. ASSUME NEW t \in 0..Horizon
        PROVE  /\ t > real => Passing(t)' <= Cap(count')
               /\ t > real - Window => Passing(t)' <= PerWindow + Cap(count')
               /\ Passing(t)' <= 2 * PerWindow
    <3> DEFINE p == Passing(t)
               q == Passing(t)'
               now == t <= real /\ real < t + Window
    <3>1. p \in Int /\ (t > real \/ windowStart = -1 => p = 0)
      <4>1. t > real \/ windowStart = -1 => \A i \in 0..Horizon : i >= t => passed[i] = 0
        BY <1>1, <1>2 DEF LimiterTypes
      <4> QED BY <1>2, <4>1, PassingFacts
    <3>2. \/ q = p
          \/ q = p + (IF now THEN 1 ELSE 0) /\ count' >= 1
      BY <1>2, PassingFacts DEF Passing, SecondFrom
    <3>3. p <= 2 * PerWindow /\ (t > w => p <= Cap(count))
      BY <1>3 DEF OpenedAt
    <3>4. windowStart = -1 \/ w <= real - Window
      BY <1>1, <1>2, <1>3 DEF OpenedAt, LimiterTypes
    <3> HIDE DEF p, q
    <3>5. t \in Int
      OBVIOUS
    <3>6. CASE t > real
      BY ONLY <1>1, <1>5, <3>1, <3>2, <3>5, <3>6 DEF q
    <3>7. CASE t <= real /\ t > real - Window
      <4>1. p <= PerWindow
        BY ONLY <1>1, <1>5, <3>1, <3>3, <3>4, <3>5, <3>7
      <4> QED BY ONLY <1>1, <1>5, <3>1, <3>2, <3>5, <3>7, <4>1 DEF q
    <3>8. CASE t <= real - Window
      BY ONLY <1>1, <1>5, <3>1, <3>2, <3>3, <3>5, <3>8 DEF q
    <3>9. t > real \/ (t <= real /\ t > real - Window) \/ t <= real - Window
      BY ONLY <1>1, <1>5, <3>5
    <3> QED BY ONLY <3>6, <3>7, <3>8, <3>9
  <2>2. real' = real /\ windowStart' = wall' /\ wall' \in Int /\ real' \in Int
    BY <1>2 DEF LimiterTypes
  <2>3. real' <= real' /\ real' - real' >= wall' - windowStart'
    <3>1. \A a, b \in Int : a <= a /\ a - a >= b - b
      OBVIOUS
    <3>2. real' <= real' /\ real' - real' >= wall' - wall'
      BY ONLY <2>2, <3>1
    <3> QED BY ONLY <2>2, <3>2
  <2>4. Cap(count)' = Cap(count')
    BY DEF Cap, PerWindow
  <2>5. \A t \in 0..Horizon :
            /\ t > real' => Passing(t)' <= Cap(count)'
            /\ t > real' - Window => Passing(t)' <= PerWindow + Cap(count)'
            /\ Passing(t)' <= 2 * PerWindow
    BY ONLY <2>1, <2>2, <2>4
  <2> QED BY ONLY <2>3, <2>5 DEF OpenedAt
<1> QED BY <1>4, <1>5, <1>6 DEF WindowInv

\* In a window: one more call is counted, and let through while there is room.
LEMMA WindowGoesOn ==
    ASSUME WindowInv, UNCHANGED <<real, wall, windowStart>>,
           windowStart # -1,
           \/ passed' = passed /\ count' \in {count, count + 1}
           \/ /\ passed' = [passed EXCEPT ![real] = @ + 1]
              /\ count' = count + 1 /\ count' <= MaxPerSecond
    PROVE  WindowInv'
<1>1. /\ MaxPerSecond \in Nat /\ Window \in Nat \ {0} /\ Horizon \in Nat
      /\ PerWindow \in Nat \ {0}
  BY LimiterAssumption DEF PerWindow
<1>2. LimiterTypes
  BY DEF WindowInv
<1>3. PICK w \in Int : OpenedAt(w)
  BY DEF WindowInv
<1>4. LimiterTypes'
  <2>1. windowStart' \in Int /\ windowStart' # -1
    BY <1>1, <1>2 DEF LimiterTypes
  <2>2. passed' \in [0..Horizon -> Nat] /\ \A u \in 0..Horizon : u > real => passed'[u] = 0
    <3>1. passed' = passed \/ passed' = [passed EXCEPT ![real] = @ + 1]
      OBVIOUS
    <3> QED BY <1>2, <3>1, PassedTypes
  <2>3. count' \in Nat /\ real' = real /\ wall' = wall
    BY <1>2 DEF LimiterTypes
  <2> QED BY <1>2, <2>1, <2>2, <2>3 DEF LimiterTypes
<1>5. /\ real \in Int /\ w <= real
      /\ Cap(count) \in Int /\ Cap(count') \in Int /\ Cap(count) <= Cap(count')
      /\ Cap(count') <= PerWindow
      /\ passed' # passed => Cap(count') = Cap(count) + 1
  <2>1. real \in Int /\ w <= real /\ count \in Nat
    BY <1>2, <1>3 DEF LimiterTypes, OpenedAt
  <2>2. count' \in {count, count + 1}
        /\ (passed' # passed => count' = count + 1 /\ count' <= MaxPerSecond)
    OBVIOUS
  <2>3. MaxPerSecond \in Nat /\ PerWindow \in Nat /\ PerWindow >= MaxPerSecond
    BY <1>1 DEF PerWindow
  <2> QED BY ONLY <2>1, <2>2, <2>3 DEF Cap
<1>6. OpenedAt(w)'
  <2>1. ASSUME NEW t \in 0..Horizon
        PROVE  /\ t > w => Passing(t)' <= Cap(count')
               /\ t > w - Window => Passing(t)' <= PerWindow + Cap(count')
               /\ Passing(t)' <= 2 * PerWindow
    <3> DEFINE p == Passing(t)
               q == Passing(t)'
               now == t <= real /\ real < t + Window
    <3>1. p \in Int /\ t \in Int
      BY <1>2, PassingFacts
    <3>2. \/ q = p
          \/ q = p + (IF now THEN 1 ELSE 0) /\ Cap(count') = Cap(count) + 1
      <4>1. CASE passed' = passed
        BY <4>1 DEF Passing, SecondFrom
      <4>2. CASE passed' # passed
        BY <1>2, <1>5, <4>2, PassingFacts DEF Passing, SecondFrom
      <4> QED BY <4>1, <4>2
    <3>3. /\ t > w => p <= Cap(count)
          /\ t > w - Window => p <= PerWindow + Cap(count)
          /\ p <= 2 * PerWindow
      BY <1>3 DEF OpenedAt
    <3> HIDE DEF p, q
    <3>4. CASE t > w - Window
      BY ONLY <1>1, <1>5, <3>1, <3>2, <3>3, <3>4 DEF q
    <3>5. CASE t <= w - Window
      BY ONLY <1>1, <1>5, <3>1, <3>2, <3>3, <3>5 DEF q
    <3> QED BY <1>1, <1>5, <3>1, <3>4, <3>5
  <2> QED BY <1>3, <2>1 DEF OpenedAt
<1> QED BY <1>4, <1>6 DEF WindowInv

\* Time goes on, and the clock is set back.
LEMMA TimePasses ==
    ASSUME WindowInv, UNCHANGED <<windowStart, count, passed>>,
           \/ real < Horizon /\ real' = real + 1 /\ wall' = wall + 1
           \/ \E d \in Nat : real' = real /\ wall' = wall - d /\ wall >= Window + d
    PROVE  WindowInv'
<1>1. Window \in Nat \ {0} /\ Horizon \in Nat
  BY LimiterAssumption
<1>2. LimiterTypes
  BY DEF WindowInv
<1>3. PICK w \in Int : OpenedAt(w)
  BY DEF WindowInv
<1>4. LimiterTypes'
  <2>1. real' \in 0..Horizon /\ real' >= real /\ wall' \in Nat /\ wall' >= Window
    BY <1>1, <1>2 DEF LimiterTypes
  <2> QED BY <1>1, <1>2, <2>1 DEF LimiterTypes
<1>5. OpenedAt(w)'
  <2>1. w <= real' /\ (windowStart # -1 => real' - w >= wall' - windowStart)
    BY <1>1, <1>2, <1>3 DEF OpenedAt, LimiterTypes
  <2>2. \A t \in 0..Horizon : Passing(t)' = Passing(t)
    BY DEF Passing, SecondFrom
  <2> QED BY <1>3, <2>1, <2>2 DEF OpenedAt
<1> QED BY <1>4, <1>5 DEF WindowInv

\* The clock has not been read yet.
LEMMA WindowInit == LimiterInit => WindowInv
<1> SUFFICES ASSUME LimiterInit PROVE WindowInv
  OBVIOUS
<1>1. MaxPerSecond \in Nat /\ Window \in Nat \ {0} /\ Horizon \in Nat /\ PerWindow \in Nat \ {0}
  BY LimiterAssumption DEF PerWindow
<1>2. LimiterTypes
  BY <1>1 DEF LimiterInit, LimiterTypes
<1>3. Cap(count) = 0
  BY <1>1 DEF LimiterInit, Cap
<1>4. \A t \in 0..Horizon : Passing(t) = 0
  <2> SUFFICES ASSUME NEW t \in 0..Horizon PROVE Passing(t) = 0
    OBVIOUS
  <2>1. \A i \in 0..Horizon : i >= t => passed[i] = 0
    BY DEF LimiterInit
  <2> QED
    BY <1>2, <2>1, PassingFacts
<1>5. OpenedAt(-(2 * Window))
  BY <1>1, <1>3, <1>4 DEF OpenedAt, LimiterInit
<1> QED BY <1>1, <1>2, <1>5 DEF WindowInv

\* Every step of the limiter or the throttle keeps it.
LEMMA WindowStep ==
    WindowInv /\ [LimiterNext]_limiterVars => WindowInv'
<1> SUFFICES ASSUME WindowInv, [LimiterNext]_limiterVars PROVE WindowInv'
  OBVIOUS
<1>1. /\ MaxPerSecond \in Nat /\ Window \in Nat \ {0} /\ Setbacks \subseteq Nat
      /\ windowStart \in Int /\ count \in Nat /\ wall \in Nat /\ wall >= Window
      /\ real \in Int
  BY LimiterAssumption DEF WindowInv, LimiterTypes
<1>2. ASSUME NEW s \in Int
      PROVE  SaturatingSub(wall, s) >= Window <=> wall - s >= Window
  BY <1>1 DEF SaturatingSub
<1>3. CASE OpenWindow
  <2>1. wall - windowStart >= Window
    BY <1>1, <1>2, <1>3 DEF OpenWindow, WindowOver
  <2> QED BY <1>3, <2>1, WindowOpens DEF OpenWindow, LetThrough
<1>4. CASE CountCall
  <2>1. windowStart # -1
    <3>1. wall - windowStart < Window
      BY <1>1, <1>2, <1>4 DEF CountCall, WindowOver
    <3> QED BY <1>1, <3>1
  <2>2. \/ passed' = passed /\ count' = count + 1
        \/ /\ passed' = [passed EXCEPT ![real] = @ + 1]
           /\ count' = count + 1 /\ count' <= MaxPerSecond
    BY <1>1, <1>4 DEF CountCall, LetThrough
  <2> QED BY <1>4, <2>1, <2>2, WindowGoesOn DEF CountCall
<1>5. ASSUME NEW c \in QuoteCommands, Submit(c) PROVE WindowInv'
  <2> DEFINE start == IF Renewed THEN wall ELSE Started
             inWindow == IF Renewed THEN 0 ELSE count
  <2>1. /\ windowStart' = start /\ UNCHANGED <<real, wall>>
        /\ \/ /\ inWindow < MaxPerSecond /\ count' = inWindow + 1
              /\ passed' = [passed EXCEPT ![real] = @ + 1]
           \/ count' = inWindow /\ passed' = passed
    BY <1>5 DEF Submit, LetThrough
  <2>2. CASE Renewed
    <3>1. start = wall /\ inWindow = 0
      BY <2>2
    <3>2. windowStart # -1 => wall - windowStart >= Window
      BY <1>1, <1>2, <2>2 DEF Renewed, Started
    <3> HIDE DEF start, inWindow
    <3>3. count' \in Nat /\ (count' = inWindow + 1 => count' >= 1)
      BY <2>1, <3>1
    <3> QED BY <2>1, <3>1, <3>2, <3>3, WindowOpens
  <2>3. CASE ~Renewed /\ windowStart = -1
    <3>1. start = wall /\ inWindow = count
      BY <2>3 DEF Started
    <3> HIDE DEF start, inWindow
    <3>2. count' \in Nat /\ (count' = inWindow + 1 => count' >= 1)
      BY <1>1, <2>1, <3>1
    <3> QED BY <2>1, <2>3, <3>1, <3>2, WindowOpens
  <2>4. CASE ~Renewed /\ windowStart # -1
    <3>1. start = windowStart /\ inWindow = count
      BY <2>4 DEF Started
    <3> HIDE DEF start, inWindow
    <3>2. \/ passed' = passed /\ count' = count
          \/ /\ passed' = [passed EXCEPT ![real] = @ + 1]
             /\ count' = count + 1 /\ count' <= MaxPerSecond
      BY <1>1, <2>1, <3>1
    <3> QED BY <2>1, <2>4, <3>1, <3>2, WindowGoesOn
  <2> QED BY <2>2, <2>3, <2>4
<1>6. CASE LimiterTick
  BY <1>6, TimePasses DEF LimiterTick
<1>7. ASSUME NEW d \in Setbacks, SetBack(d) PROVE WindowInv'
  <2>1. d \in Nat /\ real' = real /\ wall' = wall - d /\ wall >= Window + d
    BY <1>1, <1>7 DEF SetBack
  <2> QED BY <1>7, <2>1, TimePasses DEF SetBack
<1>8. CASE UNCHANGED limiterVars
  <2>1. UNCHANGED <<windowStart, count, real, wall, passed>>
    BY <1>8 DEF limiterVars
  <2> QED BY <2>1 DEF WindowInv, LimiterTypes, OpenedAt, Passing, SecondFrom, Cap, PerWindow
<1> QED BY <1>3, <1>4, <1>5, <1>6, <1>7, <1>8 DEF LimiterNext, TryAcquire

\* No second of real time sees calls of more than two windows let through, though
\* windows are told by a clock that may be set back (try_acquire of RateLimiter,
\* safety.rs, and QuoteCommandThrottle, execution.rs).
THEOREM TwoWindows == LimiterSpec => []TwoWindowsAtMost
<1>1. WindowInv => TwoWindowsAtMost
  <2> SUFFICES ASSUME WindowInv, NEW t \in 0..Horizon
               PROVE  PassedIn(SecondFrom(t)) <= 2 * PerWindow
    BY DEF TwoWindowsAtMost, PerWindow
  <2>1. Passing(t) <= 2 * PerWindow
    BY DEF WindowInv, OpenedAt
  <2>2. PassedIn(SecondFrom(t)) = Passing(t)
    BY DEF PassedIn, Passing, Total, MapThenSumSet, MapThenFoldSet
  <2> QED BY <2>1, <2>2
<1>2. WindowInv /\ [LimiterNext]_limiterVars => WindowInv'
  BY WindowStep
<1> QED
  BY <1>1, <1>2, WindowInit, PTL DEF LimiterSpec

\* The back-off before the n-th retry, the exponent stopping at 16.
BackOff(n) ==
    LET delay == InitialBackoff * 2^(IF n - 1 < 16 THEN n - 1 ELSE 16)
    IN  IF delay < MaxBackoff THEN delay ELSE MaxBackoff

\* A command that was sent waits for its back-off: that much real time has passed,
\* or the clock has at least the rest of it to go before the command is due.
Waits(c) ==
    LET left == BackOff(c.sends) - (real - c.sentAt)
    IN  left <= 0 \/ c.due - wall >= left

CommandTypes == [state : {"ready", "done", "given_up"}, attempt : Nat, due : Int,
                 sends : Nat, sentAt : Int]

RetryInv ==
    /\ real \in Int /\ wall \in Int /\ windowStart \in Int
    /\ kind \in {"limiter", "throttle"}
    /\ kind = "limiter" => DOMAIN commands = {}
    /\ kind = "throttle" =>
         /\ commands \in [QuoteCommands -> CommandTypes]
         /\ \A c \in QuoteCommands : commands[c].state = "ready" =>
                /\ commands[c].sends = commands[c].attempt /\ commands[c].attempt <= MaxRetries
                /\ commands[c].sends > 0 => Waits(commands[c])

\* A back-off is a whole number of ticks, and the one that doubles with each retry up
\* to the longest, as long as the exponent has not stopped below it.
LEMMA BackOffFacts ==
    ASSUME NEW n \in Nat, n > 0
    PROVE  /\ BackOff(n) \in Int
           /\ n <= 17 \/ MaxBackoff <= InitialBackoff * 2^16 =>
                  BackOff(n) = MaxBackoff \/ BackOff(n) = InitialBackoff * 2^(n - 1)
<1> DEFINE k == IF n - 1 < 16 THEN n - 1 ELSE 16
           delay == InitialBackoff * 2^k
<1>1. InitialBackoff \in Nat /\ MaxBackoff \in Nat
  BY LimiterAssumption
<1>2. k \in Nat /\ (n <= 17 => k = n - 1) /\ (~(n <= 17) => k = 16)
  OBVIOUS
<1> HIDE DEF k
<1>3. delay \in Int
  BY <1>1, <1>2
<1>4. BackOff(n) = IF delay < MaxBackoff THEN delay ELSE MaxBackoff
  BY DEF BackOff, k
<1>5. n <= 17 => delay = InitialBackoff * 2^(n - 1)
  BY <1>2
<1>6. ~(n <= 17) => delay = InitialBackoff * 2^16
  BY <1>2
<1> HIDE DEF delay
<1>7. CASE n <= 17
  BY <1>1, <1>3, <1>4, <1>5, <1>7
<1>8. CASE ~(n <= 17)
  BY <1>1, <1>3, <1>4, <1>6, <1>8
<1> QED BY <1>7, <1>8

\* A command that is due has waited for its back-off.
LEMMA DueWaited ==
    ASSUME RetryInv, kind = "throttle", NEW c \in QuoteCommands,
           commands[c].state = "ready", commands[c].due <= wall, commands[c].sends > 0
    PROVE  real - commands[c].sentAt >= BackOff(commands[c].sends)
<1>1. /\ commands[c].due \in Int /\ commands[c].sends \in Nat /\ commands[c].sentAt \in Int
      /\ real \in Int /\ wall \in Int
  BY DEF RetryInv, CommandTypes
<1>2. BackOff(commands[c].sends) \in Int
  BY <1>1, BackOffFacts
<1>3. Waits(commands[c])
  BY DEF RetryInv
<1> QED BY <1>1, <1>2, <1>3 DEF Waits

\* A command that is sent is a command.
LEMMA SentCommand ==
    ASSUME NEW c \in CommandTypes, NEW s,
           s = [c EXCEPT !.sends = c.sends + 1, !.sentAt = real], real \in Int
    PROVE  s \in CommandTypes /\ s.sends = c.sends + 1 /\ s.attempt = c.attempt /\ s.sentAt = real
<1> DEFINE r == [c EXCEPT !.sends = c.sends + 1]
<1>1. r \in CommandTypes /\ r.sends = c.sends + 1 /\ r.attempt = c.attempt
  BY DEF CommandTypes
<1>2. s = [r EXCEPT !.sentAt = real]
  BY DEF CommandTypes
<1> HIDE DEF r
<1> QED BY <1>1, <1>2 DEF CommandTypes

\* What a command becomes that is submitted when due.
LEMMA SubmitRetries ==
    ASSUME RetryInv, NEW c \in QuoteCommands, Submit(c)
    PROVE  RetryInv'
<1>1. /\ kind = "throttle" /\ UNCHANGED <<kind, real, wall>>
      /\ commands[c].state = "ready" /\ commands[c].due <= wall
  BY DEF Submit
<1>2. /\ commands \in [QuoteCommands -> CommandTypes] /\ commands[c] \in CommandTypes
      /\ real \in Int /\ wall \in Int /\ windowStart \in Int
      /\ commands[c].sends = commands[c].attempt /\ commands[c].attempt <= MaxRetries
  BY <1>1 DEF RetryInv
<1>3. Window \in Nat /\ MaxRetries \in Nat
  BY LimiterAssumption
<1> DEFINE start == IF Renewed THEN wall ELSE Started
           sent == [commands[c] EXCEPT !.sends = commands[c].sends + 1, !.sentAt = real]
<1>4. start \in Int /\ windowStart' = start
  BY <1>2 DEF Started, Submit
<1>12. /\ sent \in CommandTypes /\ sent.sends = sent.attempt + 1 /\ sent.sentAt = real
      /\ sent.attempt \in Nat /\ sent.attempt <= MaxRetries
  <2>1. sent \in CommandTypes /\ sent.sends = commands[c].sends + 1
        /\ sent.attempt = commands[c].attempt /\ sent.sentAt = real
    BY ONLY <1>2, SentCommand DEF sent
  <2>2. commands[c].attempt \in Nat
    BY <1>2 DEF CommandTypes
  <2> HIDE DEF sent
  <2> QED BY <1>2, <2>1, <2>2
<1> HIDE DEF sent
<1> HIDE DEF start
<1>5. \E x \in CommandTypes :
          /\ commands' = [commands EXCEPT ![c] = x]
          /\ x.state = "ready" =>
                /\ x.sends = x.attempt /\ x.attempt <= MaxRetries
                /\ x.sends > 0 => Waits(x)
  <2>1. CASE commands' = [commands EXCEPT ![c] = [sent EXCEPT !.state = "done"]]
    <3>1. [sent EXCEPT !.state = "done"] \in CommandTypes
      BY <1>12 DEF CommandTypes
    <3>2. [sent EXCEPT !.state = "done"].state # "ready"
      BY <1>12 DEF CommandTypes
    <3> QED BY <2>1, <3>1, <3>2
  <2>2. CASE \E failure \in {"Transient", "Permanent"} :
                 commands' = [commands EXCEPT ![c] = RetryDecision(sent, failure)]
    <3>1. PICK failure \in {"Transient", "Permanent"} :
              commands' = [commands EXCEPT ![c] = RetryDecision(sent, failure)]
      BY <2>2
    <3>3. CASE failure = "Permanent" \/ sent.attempt >= MaxRetries
      <4>1. RetryDecision(sent, failure) = [sent EXCEPT !.state = "given_up"]
        BY <3>3 DEF RetryDecision
      <4>2. /\ [sent EXCEPT !.state = "given_up"] \in CommandTypes
            /\ [sent EXCEPT !.state = "given_up"].state # "ready"
        BY <1>12 DEF CommandTypes
      <4> QED BY <3>1, <4>1, <4>2
    <3>4. CASE ~(failure = "Permanent" \/ sent.attempt >= MaxRetries)
      <4> DEFINE n == sent.attempt + 1
                 x == [sent EXCEPT !.attempt = n, !.due = wall + BackOff(n)]
      <4>1. sent.attempt = n - 1 /\ n \in Nat /\ n > 0 /\ n <= MaxRetries
        BY <1>3, <1>12, <3>4
      <4>2. RetryDecision(sent, failure) = x
        <5>1. RetryDecision(sent, failure) = RetryAfter(sent)
          BY <3>4 DEF RetryDecision
        <5>2. sent.attempt = n - 1
          BY <4>1
        <5> HIDE DEF n
        <5>3. n = sent.attempt + 1
          BY DEF n
        <5> QED BY <5>1, <5>2, <5>3 DEF RetryAfter, BackOff
      <4>3. BackOff(n) \in Int
        BY <4>1, BackOffFacts
      <4>4. /\ x \in CommandTypes /\ x.sends = n /\ x.attempt = n
            /\ x.due = wall + BackOff(n) /\ x.sentAt = real
        <5> HIDE DEF n
        <5>1. sent.sends = n
          BY <1>12 DEF n
        <5>2. wall + BackOff(n) \in Int
          BY <1>2, <4>3
        <5> HIDE DEF sent
        <5> DEFINE t == wall + BackOff(n)
        <5>3. x = [sent EXCEPT !.attempt = n, !.due = t]
          OBVIOUS
        <5> HIDE DEF x, t
        <5>4. sent \in CommandTypes /\ n \in Nat /\ t \in Int
          BY <1>12, <4>1, <5>2 DEF t
        <5>5. /\ x \in CommandTypes /\ x.attempt = n /\ x.due = t
              /\ x.sends = sent.sends /\ x.sentAt = sent.sentAt
          <6> DEFINE r == [sent EXCEPT !.attempt = n]
          <6>1. /\ r \in CommandTypes /\ r.attempt = n
                /\ r.sends = sent.sends /\ r.sentAt = sent.sentAt
            BY ONLY <5>4 DEF CommandTypes
          <6>2. x = [r EXCEPT !.due = t]
            BY ONLY <5>3, <5>4 DEF CommandTypes
          <6> HIDE DEF r
          <6> QED BY ONLY <5>4, <6>1, <6>2 DEF CommandTypes
        <5> QED BY <1>12, <5>1, <5>5 DEF t
      <4> HIDE DEF x, n
      <4>5. Waits(x)
        BY <1>2, <4>3, <4>4 DEF Waits
      <4> QED BY <3>1, <4>1, <4>2, <4>4, <4>5
    <3> QED BY <3>3, <3>4
  <2>3. CASE commands' = [commands EXCEPT ![c].due = start + Window]
    <3> DEFINE x == [commands[c] EXCEPT !.due = start + Window]
    <3>1. commands' = [commands EXCEPT ![c] = x]
      BY <2>3
    <3>2. /\ x \in CommandTypes /\ x.sends = commands[c].sends
          /\ x.attempt = commands[c].attempt /\ x.sentAt = commands[c].sentAt
      BY <1>2, <1>3, <1>4 DEF CommandTypes
    <3> HIDE DEF x
    <3>3. x.sends > 0 => Waits(x)
      <4> SUFFICES ASSUME x.sends > 0 PROVE Waits(x)
        OBVIOUS
      <4>1. real - x.sentAt >= BackOff(x.sends)
        BY <1>1, <3>2, DueWaited
      <4>2. BackOff(x.sends) \in Int /\ x.sentAt \in Int
        BY <3>2, BackOffFacts DEF CommandTypes
      <4> QED BY <1>2, <4>1, <4>2 DEF Waits
    <3> QED BY <1>2, <3>1, <3>2, <3>3
  <2> QED BY <2>1, <2>2, <2>3 DEF Submit, start, sent
<1>6. PICK x \in CommandTypes :
          /\ commands' = [commands EXCEPT ![c] = x]
          /\ x.state = "ready" =>
                /\ x.sends = x.attempt /\ x.attempt <= MaxRetries
                /\ x.sends > 0 => Waits(x)
  BY <1>5
<1>7. commands' \in [QuoteCommands -> CommandTypes]
  BY <1>2, <1>6
<1>8. \A y \in CommandTypes : Waits(y)' <=> Waits(y)
  BY <1>1 DEF Waits, BackOff
<1>9. \A b \in QuoteCommands : commands'[b].state = "ready" =>
          /\ commands'[b].sends = commands'[b].attempt /\ commands'[b].attempt <= MaxRetries
          /\ commands'[b].sends > 0 => Waits(commands'[b])
  <2> SUFFICES ASSUME NEW b \in QuoteCommands, commands'[b].state = "ready"
               PROVE  /\ commands'[b].sends = commands'[b].attempt
                      /\ commands'[b].attempt <= MaxRetries
                      /\ commands'[b].sends > 0 => Waits(commands'[b])
    OBVIOUS
  <2>1. CASE b = c
    BY <1>2, <1>6, <2>1
  <2>2. CASE b # c
    <3>1. commands'[b] = commands[b]
      BY <1>2, <1>6, <2>2
    <3> QED BY <1>1, <3>1 DEF RetryInv
  <2> QED BY <2>1, <2>2
<1> QED
  BY <1>1, <1>2, <1>4, <1>7, <1>8, <1>9 DEF RetryInv, Waits

\* Every step of the throttle keeps the back-offs.
LEMMA RetryStep ==
    RetryInv /\ [LimiterNext]_limiterVars => RetryInv'
<1> SUFFICES ASSUME RetryInv, [LimiterNext]_limiterVars PROVE RetryInv'
  OBVIOUS
<1>1. ASSUME NEW c \in QuoteCommands, Submit(c) PROVE RetryInv'
  BY <1>1, SubmitRetries
<1>2. ASSUME UNCHANGED <<kind, commands>>, windowStart' \in Int,
             \/ real' = real + 1 /\ wall' = wall + 1
             \/ \E d \in Nat : real' = real /\ wall' = wall - d
      PROVE  RetryInv'
  <2>1. real \in Int /\ wall \in Int /\ real' \in Int /\ wall' \in Int
    BY <1>2 DEF RetryInv
  <2>2. ASSUME NEW y \in CommandTypes, y.sends > 0, Waits(y) PROVE Waits(y)'
    <3>1. y.due \in Int /\ y.sentAt \in Int /\ y.sends \in Nat
      BY DEF CommandTypes
    <3> DEFINE b == BackOff(y.sends)
    <3>2. b \in Int
      BY <2>2, <3>1, BackOffFacts
    <3>3. b - (real - y.sentAt) <= 0 \/ y.due - wall >= b - (real - y.sentAt)
      BY <2>2 DEF Waits
    <3>4. Waits(y)' <=> (b - (real' - y.sentAt) <= 0 \/ y.due - wall' >= b - (real' - y.sentAt))
      BY DEF Waits, BackOff
    <3> HIDE DEF b
    <3>5. b - (real' - y.sentAt) <= 0 \/ y.due - wall' >= b - (real' - y.sentAt)
      BY ONLY <1>2, <2>1, <3>1, <3>2, <3>3
    <3> QED BY ONLY <3>4, <3>5
  <2>3. kind = "throttle" => \A c \in QuoteCommands : commands[c] \in CommandTypes
    BY DEF RetryInv
  <2> QED BY <1>2, <2>1, <2>2, <2>3 DEF RetryInv
<1>3. real \in Int /\ wall \in Int /\ windowStart \in Int /\ wall = wall - 0 /\ 0 \in Nat
  BY DEF RetryInv
<1>4. CASE OpenWindow
  BY <1>2, <1>3, <1>4 DEF OpenWindow
<1>5. CASE CountCall
  BY <1>2, <1>3, <1>5 DEF CountCall
<1>6. CASE LimiterTick
  BY <1>2, <1>3, <1>6 DEF LimiterTick
<1>7. ASSUME NEW d \in Setbacks, SetBack(d) PROVE RetryInv'
  <2>1. d \in Nat
    BY LimiterAssumption
  <2> QED BY <1>2, <1>3, <1>7, <2>1 DEF SetBack
<1>8. CASE UNCHANGED limiterVars
  BY <1>2, <1>3, <1>8 DEF limiterVars
<1> QED BY <1>1, <1>4, <1>5, <1>6, <1>7, <1>8 DEF LimiterNext, TryAcquire

\* Nothing was sent at first.
LEMMA RetryInit == LimiterInit => RetryInv
<1> SUFFICES ASSUME LimiterInit PROVE RetryInv
  OBVIOUS
<1>1. Window \in Nat /\ MaxRetries \in Nat
  BY LimiterAssumption
<1>2. kind = "limiter" => DOMAIN commands = {}
  BY DEF LimiterInit
<1>3. ASSUME kind = "throttle"
      PROVE  /\ commands \in [QuoteCommands -> CommandTypes]
             /\ \A c \in QuoteCommands : commands[c].sends = 0 /\ commands[c].attempt = 0
  BY <1>3 DEF LimiterInit, CommandTypes
<1> QED BY <1>1, <1>2, <1>3 DEF LimiterInit, RetryInv

\* A command is sent again no more than max_retries times, and never before the
\* back-off of that retry has passed in real time, whatever the throttle and the
\* clock do in between (retry_decision of execution.rs); provided the back-off is
\* capped no higher than where its exponent stops, or there are few retries.
THEOREM BackOffKept ==
    ASSUME MaxRetries <= 17 \/ MaxBackoff <= InitialBackoff * 2^16
    PROVE  LimiterSpec => RetriesBackOff
<1> DEFINE A(c) == LET n == commands[c].sends
                   IN  /\ n <= MaxRetries
                       /\ n > 0 => \/ real - commands[c].sentAt >= MaxBackoff
                                   \/ real - commands[c].sentAt >= InitialBackoff * 2^(n - 1)
           B == \A c \in DOMAIN commands : commands'[c].sends > commands[c].sends => A(c)
<1>1. RetryInv /\ [LimiterNext]_limiterVars => [B]_limiterVars
  <2> SUFFICES ASSUME RetryInv, LimiterNext,
                      NEW c \in DOMAIN commands, commands'[c].sends > commands[c].sends
               PROVE  A(c)
    BY DEF limiterVars
  <2>1. kind = "throttle" /\ commands \in [QuoteCommands -> CommandTypes] /\ c \in QuoteCommands
    BY DEF RetryInv
  <2>2. commands[c].sends \in Nat
    BY <2>1 DEF CommandTypes
  <2>3. commands' # commands
    BY <2>2
  <2>4. PICK b \in QuoteCommands : Submit(b)
    BY <2>3 DEF LimiterNext, TryAcquire, OpenWindow, CountCall, LimiterTick, SetBack
  <2>5. b = c
    <3> SUFFICES ASSUME b # c PROVE FALSE
      OBVIOUS
    <3>1. commands'[c] = commands[c]
      BY <2>1, <2>4 DEF Submit
    <3> QED BY <2>2, <3>1
  <2>6. commands[c].state = "ready" /\ commands[c].due <= wall
    BY <2>4, <2>5 DEF Submit
  <2>7. commands[c].sends <= MaxRetries
    BY <2>1, <2>6 DEF RetryInv
  <2>8. ASSUME commands[c].sends > 0
        PROVE  \/ real - commands[c].sentAt >= MaxBackoff
               \/ real - commands[c].sentAt >= InitialBackoff * 2^(commands[c].sends - 1)
    <3> DEFINE n == commands[c].sends
    <3>1. real - commands[c].sentAt >= BackOff(n)
      BY <2>1, <2>6, <2>8, DueWaited
    <3>2. MaxRetries \in Nat
      BY LimiterAssumption
    <3>3. n \in Nat /\ n > 0 /\ n <= MaxRetries
      BY <2>2, <2>7, <2>8
    <3> HIDE DEF n
    <3>4. n <= 17 \/ MaxBackoff <= InitialBackoff * 2^16
      BY <3>2, <3>3
    <3>5. BackOff(n) = MaxBackoff \/ BackOff(n) = InitialBackoff * 2^(n - 1)
      BY <3>3, <3>4, BackOffFacts
    <3>6. CASE BackOff(n) = MaxBackoff
      BY <3>1, <3>6
    <3>7. CASE BackOff(n) = InitialBackoff * 2^(n - 1)
      BY <3>1, <3>7 DEF n
    <3> QED BY <3>5, <3>6, <3>7
  <2> QED BY <2>7, <2>8
<1>2. RetryInv /\ [LimiterNext]_limiterVars => RetryInv'
  BY RetryStep
<1>3. LimiterInit => RetryInv
  BY RetryInit
<1> QED
  BY <1>1, <1>2, <1>3, PTL DEF LimiterSpec, RetriesBackOff

=============================================================================
