----------------------- MODULE AggregatorQueue_proofs -----------------------
(* What the queues of the aggregator promise for any submissions, any filter *)
(* and any number of retries: a quality that shuts out worse ones was        *)
(* forwarded, the handler's best qualities are of submissions it has, and    *)
(* what it sends is the best it has of an account for a block.               *)
EXTENDS AggregatorQueue, SequencesExt, TLAPS

-----------------------------------------------------------------------------
(* The set of a sequence's elements. *)

\* Append adds one element.
LEMMA ElementsOfAppend ==
  ASSUME NEW S, NEW s \in Seq(S), NEW e \in S
  PROVE  ToSet(Append(s, e)) = ToSet(s) \cup {e}
<1>1. /\ DOMAIN Append(s, e) = 1 .. Len(s) + 1 /\ DOMAIN s = 1 .. Len(s) /\ Len(s) \in Nat
      /\ \A i \in 1 .. Len(s) : Append(s, e)[i] = s[i]
      /\ Append(s, e)[Len(s) + 1] = e
  OBVIOUS
<1> QED
  BY <1>1 DEF ToSet

\* The elements are the head and those of the tail.
LEMMA ElementsOfTail ==
  ASSUME NEW S, NEW s \in Seq(S), s # <<>>
  PROVE  ToSet(s) = {Head(s)} \cup ToSet(Tail(s))
<1>1. /\ Len(s) \in Nat \ {0} /\ DOMAIN s = 1 .. Len(s) /\ Head(s) = s[1]
      /\ DOMAIN Tail(s) = 1 .. Len(s) - 1
      /\ \A i \in 1 .. Len(s) - 1 : Tail(s)[i] = s[i + 1]
  OBVIOUS
<1>2. ASSUME NEW x \in ToSet(s) PROVE x \in {Head(s)} \cup ToSet(Tail(s))
  <2>1. PICK i \in 1 .. Len(s) : x = s[i]
    BY <1>1 DEF ToSet
  <2>2. CASE i = 1
    BY <1>1, <2>1, <2>2
  <2>3. CASE i # 1
    <3>1. i - 1 \in 1 .. Len(s) - 1 /\ s[i] = Tail(s)[i - 1]
      BY <1>1, <2>1, <2>3
    <3> QED
      BY <1>1, <2>1, <3>1 DEF ToSet
  <2> QED
    BY <2>2, <2>3
<1>3. ASSUME NEW x \in {Head(s)} \cup ToSet(Tail(s)) PROVE x \in ToSet(s)
  <2>1. CASE x = Head(s)
    BY <1>1, <2>1 DEF ToSet
  <2>2. CASE x \in ToSet(Tail(s))
    <3>1. PICK i \in 1 .. Len(s) - 1 : x = Tail(s)[i]
      BY <1>1, <2>2 DEF ToSet
    <3>2. i + 1 \in 1 .. Len(s) /\ x = s[i + 1]
      BY <1>1, <3>1
    <3> QED
      BY <1>1, <3>2 DEF ToSet
  <2> QED
    BY <1>3, <2>1, <2>2
<1> QED
  BY <1>2, <1>3

\* The elements are of the set the sequence is over.
LEMMA ElementsInside ==
  ASSUME NEW S, NEW s \in Seq(S)
  PROVE  ToSet(s) \subseteq S
BY DEF ToSet

\* The empty sequence has no elements.
LEMMA ElementsOfEmpty == ToSet(<<>>) = {}
BY DEF ToSet

Items == [sub : Offers, retries : 0 .. MaxRetries, aged : BOOLEAN]

\* The submissions of a sequence of items, and all the handler has.
Subs(items) == {it.sub : it \in ToSet(items)}
HeldSubs == Subs(pending) \cup (IF hand = NoItem THEN {} ELSE {hand.sub})

\* Submissions that are on their way, answered or given up.
Accounted == ToSet(channel) \cup HeldSubs \cup settled \cup givenUp

\* A filter knows the blocks of its list, each once, and their best qualities.
FilterOK(f) ==
    /\ f \in [blocks : Seq(Blocks), best : {f.best}]
    /\ DOMAIN f.best = ToSet(f.blocks)
    /\ \A b \in DOMAIN f.best : f.best[b] \in Nat
    /\ Len(f.blocks) <= MaxTracked
    /\ IsInjective(f.blocks)

Types ==
    /\ mode \in Modes /\ pc \in {"top", "wait"}
    /\ offers \subseteq Offers
    /\ DOMAIN filter = Keys
    /\ \A k \in Keys : FilterOK(filter[k])
    /\ channel \in Seq(Offers)
    /\ pending \in Seq(Items)
    /\ hand \in {NoItem} \cup Items
    /\ DOMAIN inQueue \subseteq Accounts \X Blocks
    /\ \A k \in DOMAIN inQueue : inQueue[k] \in Nat
    /\ settled \subseteq Offers /\ givenUp \subseteq Offers

\* In wallet mode the handler keeps no queue.
WalletKeepsNone == mode = "wallet" => pending = <<>> /\ DOMAIN inQueue = {}

\* InQueueBacked and BestHeld, of submissions.
QueueBacked == \A k \in DOMAIN inQueue : \E x \in HeldSubs : KeyOf(x) = k /\ x.quality = inQueue[k]

QualityHeld ==
    \A k \in Keys : \A b \in DOMAIN filter[k].best :
        \E x \in Accounted : FilterOf(x) = k /\ x.block = b /\ x.quality <= filter[k].best[b]

IInv == Types /\ WalletKeepsNone /\ QueueBacked /\ QualityHeld

-----------------------------------------------------------------------------
(* Sequences as sets. *)

LEMMA ElementsOfCons ==
  ASSUME NEW S, NEW s \in Seq(S), NEW e \in S
  PROVE  <<e>> \o s \in Seq(S) /\ ToSet(<<e>> \o s) = {e} \cup ToSet(s)
<1> DEFINE t == <<e>> \o s
<1>1. t \in Seq(S) /\ t # <<>> /\ Head(t) = e
  OBVIOUS
<1>2. Tail(t) = s
  OBVIOUS
<1> HIDE DEF t
<1>3. ToSet(t) = {e} \cup ToSet(s)
  BY <1>1, <1>2, ElementsOfTail
<1> QED
  BY <1>1, <1>3 DEF t

-----------------------------------------------------------------------------
(* Items of the handler's queue. *)

LEMMA ItemOf ==
  ASSUME NEW x \in Offers
  PROVE  Item(x) \in Items /\ Item(x).sub = x /\ Item(x) # NoItem
<1>1. Item(x) \in Items
  BY MaxRetriesAssumption DEF Item, Items
<1>2. Item(x).sub = x /\ Item(x).retries = 0 /\ NoItem.retries = -1
  BY DEF Item, NoItem
<1> QED
  BY <1>1, <1>2

LEMMA ItemIsNotNone ==
  ASSUME NEW it \in Items
  PROVE  it # NoItem /\ it.sub \in Offers
<1>1. it.retries \in 0 .. MaxRetries /\ NoItem.retries = -1
  BY DEF Items, NoItem
<1>2. it.retries # -1
  BY <1>1, MaxRetriesAssumption
<1> QED
  BY <1>1, <1>2 DEF Items

LEMMA SubsOfAppend ==
  ASSUME NEW s \in Seq(Items), NEW it \in Items
  PROVE  Append(s, it) \in Seq(Items) /\ Subs(Append(s, it)) = Subs(s) \cup {it.sub}
BY ElementsOfAppend DEF Subs

LEMMA SubsOfTail ==
  ASSUME NEW s \in Seq(Items), s # <<>>
  PROVE  /\ Head(s) \in Items /\ Tail(s) \in Seq(Items)
         /\ Subs(s) = {Head(s).sub} \cup Subs(Tail(s))
<1>1. Head(s) \in Items /\ Tail(s) \in Seq(Items)
  OBVIOUS
<1>2. ToSet(s) = {Head(s)} \cup ToSet(Tail(s))
  BY ElementsOfTail
<1> QED
  BY <1>1, <1>2 DEF Subs

LEMMA SubsOfCons ==
  ASSUME NEW s \in Seq(Items), NEW it \in Items
  PROVE  <<it>> \o s \in Seq(Items) /\ Subs(<<it>> \o s) = {it.sub} \cup Subs(s)
<1>1. <<it>> \o s \in Seq(Items) /\ ToSet(<<it>> \o s) = {it} \cup ToSet(s)
  BY ElementsOfCons
<1> QED
  BY <1>1 DEF Subs

LEMMA SubsOfAge ==
  ASSUME NEW s \in Seq(Items)
  PROVE  Age(s) \in Seq(Items) /\ Subs(Age(s)) = Subs(s)
<1>1. /\ DOMAIN s = 1 .. Len(s) /\ Len(s) \in Nat /\ \A i \in 1 .. Len(s) : s[i] \in Items
  OBVIOUS
<1>2. Age(s) = [i \in 1 .. Len(s) |-> [s[i] EXCEPT !.aged = MayAge]]
  BY <1>1 DEF Age
<1>3. \A i \in 1 .. Len(s) : [s[i] EXCEPT !.aged = MayAge] \in Items /\ [s[i] EXCEPT !.aged = MayAge].sub = s[i].sub
  BY <1>1, MayAgeAssumption DEF Items
<1>4. Age(s) \in [1 .. Len(s) -> Items]
  BY <1>2, <1>3
<1>5. Age(s) \in Seq(Items)
  BY <1>1, <1>4
<1>6. DOMAIN Age(s) = DOMAIN s /\ \A i \in DOMAIN s : Age(s)[i].sub = s[i].sub
  BY <1>1, <1>2, <1>3
<1>7. Subs(Age(s)) = {Age(s)[i].sub : i \in DOMAIN s} /\ Subs(s) = {s[i].sub : i \in DOMAIN s}
  BY <1>6 DEF Subs, ToSet
<1> QED
  BY <1>5, <1>6, <1>7

LEMMA SubsInside ==
  ASSUME NEW s \in Seq(Items)
  PROVE  Subs(s) \subseteq Offers
BY ElementsInside DEF Subs, Items

\* What the handler has, as the properties name it.
LEMMA SubsOfHeld ==
  ASSUME Types
  PROVE  HeldSubs = {it.sub : it \in ToSet(Held)} /\ ToSet(Held) \subseteq Items
<1>1. pending \in Seq(Items)
  BY DEF Types
<1>2. CASE hand = NoItem
  <2>1. pending \o <<>> = pending
    BY <1>1
  <2>2. ToSet(pending) \subseteq Items
    BY <1>1, ElementsInside
  <2> QED
    BY <1>2, <2>1, <2>2 DEF Held, HeldSubs, Subs
<1>3. CASE hand # NoItem
  <2>1. hand \in Items
    BY <1>3 DEF Types
  <2>2. pending \o <<hand>> = Append(pending, hand)
    BY <1>1, <2>1
  <2>3. Held = Append(pending, hand)
    BY <1>3, <2>2 DEF Held
  <2>4. Append(pending, hand) \in Seq(Items) /\ Subs(Append(pending, hand)) = Subs(pending) \cup {hand.sub}
    BY <1>1, <2>1, SubsOfAppend
  <2>5. ToSet(Held) \subseteq Items
    BY <2>3, <2>4, ElementsInside
  <2>6. HeldSubs = Subs(pending) \cup {hand.sub}
    BY <1>3 DEF HeldSubs
  <2> QED
    BY <2>3, <2>4, <2>5, <2>6 DEF Subs
<1> QED
  BY <1>2, <1>3

-----------------------------------------------------------------------------
(* Functions that lose an argument. *)

LEMMA WithoutOne ==
  ASSUME NEW f, NEW d
  PROVE  /\ DOMAIN Without(f, d) = DOMAIN f \ {d}
         /\ \A x \in DOMAIN f \ {d} : Without(f, d)[x] = f[x]
BY DEF Without, Restrict

-----------------------------------------------------------------------------
(* The filter. *)

\* A list of blocks without its oldest one.
LEMMA TailIsInjective ==
  ASSUME NEW s \in Seq(Blocks), s # <<>>, IsInjective(s)
  PROVE  IsInjective(Tail(s)) /\ Len(Tail(s)) = Len(s) - 1 /\ Tail(s) \in Seq(Blocks)
<1>1. /\ Len(s) \in Nat \ {0} /\ DOMAIN s = 1 .. Len(s)
      /\ DOMAIN Tail(s) = 1 .. Len(s) - 1 /\ Len(Tail(s)) = Len(s) - 1 /\ Tail(s) \in Seq(Blocks)
      /\ \A i \in 1 .. Len(s) - 1 : Tail(s)[i] = s[i + 1]
  OBVIOUS
<1>2. ASSUME NEW i \in DOMAIN Tail(s), NEW j \in DOMAIN Tail(s), Tail(s)[i] = Tail(s)[j] PROVE i = j
  <2>1. i + 1 \in DOMAIN s /\ j + 1 \in DOMAIN s /\ s[i + 1] = s[j + 1] /\ i \in Nat /\ j \in Nat
    BY <1>1, <1>2
  <2>2. i + 1 = j + 1
    BY <2>1 DEF IsInjective
  <2> QED
    BY <2>1, <2>2
<1> QED
  BY <1>1, <1>2 DEF IsInjective

\* A list with one block more.
LEMMA AppendIsInjective ==
  ASSUME NEW s \in Seq(Blocks), NEW b \in Blocks, b \notin ToSet(s), IsInjective(s)
  PROVE  IsInjective(Append(s, b)) /\ Len(Append(s, b)) = Len(s) + 1 /\ Append(s, b) \in Seq(Blocks)
<1>1. /\ Len(s) \in Nat /\ DOMAIN s = 1 .. Len(s)
      /\ DOMAIN Append(s, b) = 1 .. Len(s) + 1 /\ Len(Append(s, b)) = Len(s) + 1 /\ Append(s, b) \in Seq(Blocks)
      /\ \A i \in 1 .. Len(s) : Append(s, b)[i] = s[i] /\ s[i] # b
      /\ Append(s, b)[Len(s) + 1] = b
  BY DEF ToSet
<1>2. ASSUME NEW i \in DOMAIN Append(s, b), NEW j \in DOMAIN Append(s, b), Append(s, b)[i] = Append(s, b)[j]
      PROVE  i = j
  <2>1. CASE i \in 1 .. Len(s) /\ j \in 1 .. Len(s)
    BY <1>1, <1>2, <2>1 DEF IsInjective
  <2>2. CASE i = Len(s) + 1 \/ j = Len(s) + 1
    BY <1>1, <1>2, <2>2
  <2> QED
    BY <1>1, <2>1, <2>2
<1> QED
  BY <1>1, <1>2 DEF IsInjective

\* A filter that lets a submission pass records its quality, forgets one block
\* at most, and keeps what it has of the others.
LEMMA TrackKeeps ==
  ASSUME NEW f, FilterOK(f), NEW x \in Offers
  PROVE  /\ FilterOK(Track(f, x))
         /\ x.block \in DOMAIN Track(f, x).best /\ Track(f, x).best[x.block] = x.quality
         /\ \A b \in DOMAIN Track(f, x).best : b # x.block =>
              b \in DOMAIN f.best /\ Track(f, x).best[b] = f.best[b]
<1>1. /\ f \in [blocks : Seq(Blocks), best : {f.best}] /\ f.blocks \in Seq(Blocks)
      /\ DOMAIN f.best = ToSet(f.blocks)
      /\ \A b \in DOMAIN f.best : f.best[b] \in Nat
      /\ Len(f.blocks) <= MaxTracked
      /\ IsInjective(f.blocks)
  BY DEF FilterOK
<1>2. x.quality \in Nat /\ x.block \in Blocks
  BY OffersAssumption DEF Blocks
<1>3. CASE Known(f, x)
  <2> DEFINE best == [f.best EXCEPT ![x.block] = x.quality]
             g == [f EXCEPT !.best = best]
  <2>1. Track(f, x) = g
    BY <1>3 DEF Track
  <2>2. /\ DOMAIN best = DOMAIN f.best /\ best[x.block] = x.quality
        /\ \A b \in DOMAIN f.best : b # x.block => best[b] = f.best[b]
    BY <1>3 DEF Known
  <2> HIDE DEF best
  <2>3. g.best = best /\ g.blocks = f.blocks /\ g \in [blocks : Seq(Blocks), best : {g.best}]
    BY <1>1
  <2> HIDE DEF g
  <2> QED
    BY <1>1, <1>2, <1>3, <2>1, <2>2, <2>3 DEF FilterOK, Known
<1>4. CASE ~Known(f, x)
  <2> DEFINE kept == IF Len(f.blocks) >= MaxTracked THEN Tail(f.blocks) ELSE f.blocks
             old == Restrict(f.best, ToSet(kept))
             best == Put(old, x.block, x.quality)
             g == [blocks |-> Append(kept, x.block), best |-> best]
  <2>1. Track(f, x) = g
    BY <1>4 DEF Track
  <2>2. /\ kept \in Seq(Blocks) /\ IsInjective(kept) /\ Len(kept) + 1 <= MaxTracked
        /\ ToSet(kept) \subseteq ToSet(f.blocks)
    <3>1. CASE Len(f.blocks) >= MaxTracked
      <4>1. f.blocks # <<>> /\ Len(f.blocks) \in Nat
        BY <1>1, <3>1, MaxTrackedAssumption
      <4>2. /\ IsInjective(Tail(f.blocks)) /\ Len(Tail(f.blocks)) = Len(f.blocks) - 1
            /\ Tail(f.blocks) \in Seq(Blocks)
        BY <1>1, <4>1, TailIsInjective
      <4>3. ToSet(Tail(f.blocks)) \subseteq ToSet(f.blocks)
        BY <1>1, <4>1, ElementsOfTail
      <4> QED
        BY <1>1, <3>1, <4>1, <4>2, <4>3, MaxTrackedAssumption
    <3>2. CASE ~(Len(f.blocks) >= MaxTracked)
      BY <1>1, <3>2, MaxTrackedAssumption
    <3> QED
      BY <3>1, <3>2
  <2> HIDE DEF kept
  <2>3. x.block \notin ToSet(kept)
    BY <1>1, <1>4, <2>2 DEF Known
  <2>4. /\ Append(kept, x.block) \in Seq(Blocks) /\ IsInjective(Append(kept, x.block))
        /\ Len(Append(kept, x.block)) <= MaxTracked
    BY <1>2, <2>2, <2>3, AppendIsInjective
  <2>5. ToSet(Append(kept, x.block)) = ToSet(kept) \cup {x.block}
    BY <1>2, <2>2, ElementsOfAppend
  <2>6. DOMAIN old = ToSet(kept) /\ \A b \in ToSet(kept) : old[b] = f.best[b]
    BY DEF Restrict
  <2> HIDE DEF old
  <2>7. /\ DOMAIN best = ToSet(kept) \cup {x.block} /\ best[x.block] = x.quality
        /\ \A b \in ToSet(kept) : b # x.block => best[b] = f.best[b]
    <3>1. /\ DOMAIN best = DOMAIN old \cup {x.block} /\ best[x.block] = x.quality
          /\ \A b \in DOMAIN old : b # x.block => best[b] = old[b]
      BY DEF Put
    <3> HIDE DEF best
    <3> QED
      BY <2>6, <3>1
  <2> HIDE DEF best
  <2>8. g.best = best /\ g.blocks = Append(kept, x.block) /\ g \in [blocks : Seq(Blocks), best : {g.best}]
    BY <2>4
  <2> HIDE DEF g
  <2>9. FilterOK(g)
    BY <1>1, <1>2, <2>2, <2>4, <2>5, <2>7, <2>8 DEF FilterOK
  <2> QED
    BY <1>1, <2>1, <2>2, <2>7, <2>8, <2>9
<1> QED
  BY <1>3, <1>4

-----------------------------------------------------------------------------
(* The invariant. *)

LEMMA HeldInside ==
  ASSUME Types
  PROVE  /\ HeldSubs \subseteq Offers /\ Accounted \subseteq Offers
         /\ \A x \in Offers : x.quality \in Nat /\ x.account \in Accounts /\ x.block \in Blocks
<1>1. Subs(pending) \subseteq Offers
  BY SubsInside DEF Types
<1>2. hand # NoItem => hand.sub \in Offers
  BY ItemIsNotNone DEF Types
<1>3. ToSet(channel) \subseteq Offers /\ settled \subseteq Offers /\ givenUp \subseteq Offers
  BY ElementsInside DEF Types
<1> QED
  BY <1>1, <1>2, <1>3, OffersAssumption DEF HeldSubs, Accounted, Accounts, Blocks

\* A step after which every submission, or one of its key as good, is still
\* accounted for keeps what the filters promise.
LEMMA StillAccounted ==
  ASSUME Types, QualityHeld, UNCHANGED <<mode, filter>>,
         \A x \in Accounted :
            \E y \in Accounted' : y \in Offers /\ KeyOf(y) = KeyOf(x) /\ y.quality <= x.quality
  PROVE  QualityHeld'
<1> SUFFICES ASSUME NEW k \in Keys, NEW b \in DOMAIN filter[k].best
             PROVE  \E y \in Accounted' : FilterOf(y)' = k /\ y.block = b /\ y.quality <= filter[k].best[b]
  BY DEF QualityHeld, FilterOf
<1>1. PICK x \in Accounted : FilterOf(x) = k /\ x.block = b /\ x.quality <= filter[k].best[b]
  BY DEF QualityHeld
<1>2. PICK y \in Accounted' : y \in Offers /\ KeyOf(y) = KeyOf(x) /\ y.quality <= x.quality
  OBVIOUS
<1>3. y.account = x.account /\ y.block = x.block
  BY <1>2 DEF KeyOf
<1>4. FilterOf(y)' = k
  BY <1>1, <1>3 DEF FilterOf
<1>5. x.quality \in Nat /\ y.quality \in Nat /\ filter[k].best[b] \in Nat
  <2>1. x \in Offers /\ y \in Offers
    BY HeldInside, <1>1, <1>2
  <2>2. filter[k].best[b] \in Nat
    BY DEF Types, FilterOK
  <2> QED
    BY <2>1, <2>2, HeldInside
<1> QED
  BY <1>1, <1>2, <1>3, <1>4, <1>5

LEMMA InitHolds == Init => IInv
<1> SUFFICES ASSUME Init PROVE IInv
  OBVIOUS
<1>1. DOMAIN Empty = {}
  BY DEF Empty
<1>2. FilterOK([blocks |-> <<>>, best |-> Empty])
  <2> DEFINE f == [blocks |-> <<>>, best |-> Empty]
  <2>1. f.blocks = <<>> /\ f.best = Empty
    OBVIOUS
  <2>2. <<>> \in Seq(Blocks) /\ Len(<<>>) = 0 /\ DOMAIN <<>> = {}
    OBVIOUS
  <2>3. f \in [blocks : Seq(Blocks), best : {f.best}]
    BY <2>2
  <2>4. IsInjective(<<>>)
    BY DEF IsInjective
  <2> HIDE DEF f
  <2> QED
    BY <1>1, <2>1, <2>2, <2>3, <2>4, ElementsOfEmpty, MaxTrackedAssumption DEF FilterOK, f
<1>3. Types
  <2>1. \A k \in Keys : FilterOK(filter[k])
    BY <1>2 DEF Init
  <2> QED
    BY <1>1, <2>1 DEF Init, Types
<1>4. WalletKeepsNone /\ QueueBacked
  BY <1>1 DEF Init, WalletKeepsNone, QueueBacked
<1>5. QualityHeld
  <2>1. \A k \in Keys : filter[k].best = Empty
    BY DEF Init
  <2> QED
    BY <1>1, <2>1 DEF QualityHeld
<1> QED
  BY <1>3, <1>4, <1>5 DEF IInv

LEMMA SubmitKeeps ==
  ASSUME IInv, Submit
  PROVE  IInv'
<1> USE DEF IInv
<1>1. PICK x \in offers :
        LET k == FilterOf(x) IN
        /\ offers' = offers \ {x}
        /\ \/ /\ Known(filter[k], x) => Better(filter[k], x)
              /\ filter' = [filter EXCEPT ![k] = Track(@, x)]
              /\ channel' = Append(channel, x)
           \/ /\ Known(filter[k], x) /\ ~Better(filter[k], x)
              /\ UNCHANGED <<filter, channel>>
  BY DEF Submit
<1>2. UNCHANGED <<mode, pc, pending, inQueue, hand, settled, givenUp, faults>>
  BY DEF Submit, handlerVars, resultVars
<1>3. x \in Offers /\ FilterOf(x) \in Keys /\ x.quality \in Nat
  BY <1>1, HeldInside DEF Types, FilterOf, Keys
<1>4. HeldSubs' = HeldSubs
  BY <1>2 DEF HeldSubs
<1>5. WalletKeepsNone' /\ QueueBacked'
  BY <1>2, <1>4 DEF WalletKeepsNone, QueueBacked
<1>6. CASE UNCHANGED <<filter, channel>>
  <2>1. Types'
    BY <1>1, <1>2, <1>6 DEF Types
  <2>2. Accounted' = Accounted
    BY <1>2, <1>4, <1>6 DEF Accounted
  <2>3. QualityHeld'
    BY <1>2, <1>6, <2>2 DEF QualityHeld, FilterOf
  <2> QED
    BY <1>5, <2>1, <2>3
<1>7. CASE /\ filter' = [filter EXCEPT ![FilterOf(x)] = Track(@, x)]
           /\ channel' = Append(channel, x)
  <2> DEFINE k == FilterOf(x)
             f == filter[k]
             g == Track(f, x)
  <2>1. FilterOK(f)
    BY <1>3 DEF Types
  <2>2. /\ FilterOK(g) /\ x.block \in DOMAIN g.best /\ g.best[x.block] = x.quality
        /\ \A b \in DOMAIN g.best : b # x.block => b \in DOMAIN f.best /\ g.best[b] = f.best[b]
    BY <1>3, <2>1, TrackKeeps
  <2>3. /\ DOMAIN filter' = Keys /\ filter'[k] = g
        /\ \A j \in Keys : j # k => filter'[j] = filter[j]
    BY <1>3, <1>7 DEF Types
  <2>4. channel' \in Seq(Offers) /\ ToSet(channel') = ToSet(channel) \cup {x}
    BY <1>3, <1>7, ElementsOfAppend DEF Types
  <2>5. Accounted' = Accounted \cup {x}
    BY <1>2, <1>4, <2>4 DEF Accounted
  <2> HIDE DEF g, f
  <2>6. \A j \in Keys : FilterOK(filter'[j])
    BY <2>2, <2>3 DEF Types
  <2>7. Types'
    BY <1>1, <1>2, <2>3, <2>4, <2>6 DEF Types
  <2>8. ASSUME NEW j \in Keys, NEW b \in DOMAIN filter'[j].best
        PROVE  \E y \in Accounted' : FilterOf(y) = j /\ y.block = b /\ y.quality <= filter'[j].best[b]
    <3>1. CASE j = k /\ b = x.block
      BY <1>3, <2>2, <2>3, <2>5, <3>1
    <3>2. CASE j = k /\ b # x.block
      <4>1. b \in DOMAIN filter[j].best /\ filter'[j].best[b] = filter[j].best[b]
        BY <2>2, <2>3, <2>8, <3>2 DEF f
      <4> QED
        BY <2>5, <4>1 DEF QualityHeld
    <3>3. CASE j # k
      BY <2>3, <2>5, <2>8, <3>3 DEF QualityHeld
    <3> QED
      BY <3>1, <3>2, <3>3
  <2>9. QualityHeld'
    BY <1>2, <2>8 DEF QualityHeld, FilterOf
  <2> QED
    BY <1>5, <2>7, <2>9
<1> QED
  BY <1>1, <1>6, <1>7

\* What the handler takes from the channel it holds or has a better one of.
LEMMA TakeKeeps ==
  ASSUME IInv, mode = "pool", channel # <<>>, channel' = Tail(channel),
         UNCHANGED <<mode, offers, filter, hand, resultVars>>, pc' \in {"top", "wait"},
         LET x == Head(channel)
             k == KeyOf(x)
         IN  \/ /\ inQueue' = Put(inQueue, k, x.quality)
                /\ pending' = Append(pending, Item(x))
             \/ /\ k \in DOMAIN inQueue /\ x.quality >= inQueue[k]
                /\ UNCHANGED <<inQueue, pending>>
  PROVE  IInv'
<1> USE DEF IInv
<1> DEFINE x == Head(channel)
           k == KeyOf(x)
<1>1. /\ x \in Offers /\ channel' \in Seq(Offers)
      /\ ToSet(channel) = {x} \cup ToSet(channel')
  BY ElementsOfTail DEF Types
<1>2. /\ UNCHANGED <<settled, givenUp, faults>> /\ x.quality \in Nat
      /\ k \in Accounts \X Blocks
  BY <1>1, HeldInside DEF resultVars, KeyOf
<1> DEFINE inHand == IF hand = NoItem THEN {} ELSE {hand.sub}
<1>3. HeldSubs = Subs(pending) \cup inHand /\ HeldSubs' = Subs(pending') \cup inHand
  BY DEF HeldSubs
<1> HIDE DEF inHand
<1> HIDE DEF x
<1>4. CASE inQueue' = Put(inQueue, k, x.quality) /\ pending' = Append(pending, Item(x))
  <2>1. Item(x) \in Items /\ Item(x).sub = x
    BY <1>1, ItemOf
  <2>2. pending' \in Seq(Items) /\ Subs(pending') = Subs(pending) \cup {x}
    BY <1>4, <2>1, SubsOfAppend DEF Types
  <2>3. /\ DOMAIN inQueue' = DOMAIN inQueue \cup {k} /\ inQueue'[k] = x.quality
        /\ \A j \in DOMAIN inQueue : j # k => inQueue'[j] = inQueue[j]
    BY <1>4 DEF Put
  <2>4. Types'
    <3>1. DOMAIN inQueue' \subseteq Accounts \X Blocks /\ \A j \in DOMAIN inQueue' : inQueue'[j] \in Nat
      BY <1>2, <2>3 DEF Types
    <3> QED
      BY <1>1, <1>2, <2>2, <3>1 DEF Types
  <2>5. QueueBacked'
    <3>1. ASSUME NEW j \in DOMAIN inQueue'
          PROVE  \E y \in HeldSubs' : KeyOf(y) = j /\ y.quality = inQueue'[j]
      <4>1. CASE j = k
        BY <1>3, <2>2, <2>3, <4>1
      <4>2. CASE j # k
        BY <1>3, <2>2, <2>3, <3>1, <4>2 DEF QueueBacked
      <4> QED
        BY <4>1, <4>2
    <3> QED
      BY <3>1 DEF QueueBacked
  <2>6. Accounted' = Accounted
    BY <1>1, <1>2, <1>3, <2>2 DEF Accounted
  <2>7. QualityHeld'
    BY <2>6 DEF QualityHeld, FilterOf
  <2> QED
    BY <2>4, <2>5, <2>7 DEF WalletKeepsNone
<1>5. CASE k \in DOMAIN inQueue /\ x.quality >= inQueue[k] /\ UNCHANGED <<inQueue, pending>>
  <2>1. Types' /\ QueueBacked'
    BY <1>1, <1>2, <1>3, <1>5 DEF Types, QueueBacked
  <2>2. PICK z \in HeldSubs : KeyOf(z) = k /\ z.quality = inQueue[k]
    BY <1>5 DEF QueueBacked
  <2>3. Accounted' \cup {x} = Accounted /\ z \in Accounted' /\ Accounted \subseteq Offers
    BY <1>1, <1>2, <1>3, <1>5, <2>2, HeldInside DEF Accounted
  <2>4. ASSUME NEW y \in Accounted
        PROVE  \E w \in Accounted' : w \in Offers /\ KeyOf(w) = KeyOf(y) /\ w.quality <= y.quality
    <3>1. CASE y = x
      BY <1>2, <1>5, <2>2, <2>3, <3>1
    <3>2. CASE y # x
      <4>1. y \in Accounted' /\ y \in Offers /\ y.quality \in Nat
        BY <2>3, <3>2, HeldInside
      <4> QED
        BY <4>1
    <3> QED
      BY <3>1, <3>2
  <2>5. QualityHeld'
    BY <2>4, StillAccounted
  <2> QED
    BY <2>1, <2>5 DEF WalletKeepsNone
<1> QED
  BY <1>4, <1>5 DEF x

\* A submission that leaves the handler takes its key's entry along.
LEMMA ReleaseKeeps ==
  ASSUME IInv, NEW z \in HeldSubs, HeldSubs \subseteq HeldSubs' \cup {z},
         inQueue' = Without(inQueue, KeyOf(z)), z \in settled' \cup givenUp',
         settled \subseteq settled', givenUp \subseteq givenUp',
         UNCHANGED <<mode, filter, channel>>
  PROVE  QueueBacked' /\ QualityHeld'
<1> USE DEF IInv
<1>1. /\ DOMAIN inQueue' = DOMAIN inQueue \ {KeyOf(z)}
      /\ \A j \in DOMAIN inQueue' : inQueue'[j] = inQueue[j]
  BY DEF Without, Restrict
<1>2. QueueBacked'
  <2>1. ASSUME NEW j \in DOMAIN inQueue'
        PROVE  \E y \in HeldSubs' : KeyOf(y) = j /\ y.quality = inQueue'[j]
    <3>1. PICK y \in HeldSubs : KeyOf(y) = j /\ y.quality = inQueue[j]
      BY <1>1, <2>1 DEF QueueBacked
    <3>2. y # z
      BY <1>1, <2>1, <3>1
    <3> QED
      BY <1>1, <3>1, <3>2
  <2> QED
    BY <2>1 DEF QueueBacked
<1>3. QualityHeld'
  <2>1. Accounted \subseteq Accounted' /\ Accounted \subseteq Offers
    BY HeldInside DEF Accounted
  <2>2. \A y \in Accounted : y.quality \in Nat
    BY <2>1, HeldInside
  <2> QED
    BY <2>1, <2>2, StillAccounted
<1> QED
  BY <1>2, <1>3

\* Steps that move submissions about within the handler and lose none.
LEMMA MoveKeeps ==
  ASSUME IInv, Accounted' = Accounted, HeldSubs' = HeldSubs,
         UNCHANGED <<mode, filter, inQueue>>
  PROVE  QueueBacked' /\ QualityHeld'
BY DEF IInv, QueueBacked, QualityHeld, FilterOf

\* The item whose turn it is.
LEMMA TurnOf ==
  ASSUME Types, Turn
  PROVE  /\ First \in Items /\ First # NoItem /\ First.sub \in Offers
         /\ pending' \in Seq(Items)
         /\ HeldSubs = {First.sub} \cup Subs(pending')
<1>1. pending \in Seq(Items) /\ pending # <<>> /\ pending' = Tail(pending) /\ hand = NoItem
  BY DEF Types, Turn
<1>2. /\ First \in Items /\ pending' \in Seq(Items)
      /\ Subs(pending) = {First.sub} \cup Subs(pending')
  BY <1>1, SubsOfTail DEF First
<1> QED
  BY <1>1, <1>2, ItemIsNotNone DEF HeldSubs

LEMMA DropStaleKeeps ==
  ASSUME IInv, DropStale
  PROVE  IInv'
<1> USE DEF IInv
<1>1. /\ Turn /\ inQueue' = Without(inQueue, KeyOf(First.sub))
      /\ givenUp' = givenUp \cup {First.sub}
      /\ UNCHANGED <<mode, offers, filter, channel, pc, hand, settled, faults>>
      /\ mode = "pool" /\ hand = NoItem
  BY DEF DropStale, Turn
<1>2. /\ First.sub \in Offers /\ pending' \in Seq(Items)
      /\ HeldSubs = {First.sub} \cup Subs(pending')
  BY <1>1, TurnOf
<1>3. HeldSubs' = Subs(pending')
  BY <1>1 DEF HeldSubs
<1> DEFINE z == First.sub
<1> HIDE DEF z
<1>4. QueueBacked' /\ QualityHeld'
  <2>1. /\ z \in HeldSubs /\ HeldSubs \subseteq HeldSubs' \cup {z}
        /\ inQueue' = Without(inQueue, KeyOf(z)) /\ z \in settled' \cup givenUp'
        /\ settled \subseteq settled' /\ givenUp \subseteq givenUp'
        /\ UNCHANGED <<mode, filter, channel>>
    BY <1>1, <1>2, <1>3 DEF z
  <2> QED
    BY <2>1, ReleaseKeeps
<1>5. Types'
  <2>1. DOMAIN inQueue' \subseteq DOMAIN inQueue /\ \A j \in DOMAIN inQueue' : inQueue'[j] = inQueue[j]
    BY <1>1 DEF Without, Restrict
  <2>2. DOMAIN inQueue' \subseteq Accounts \X Blocks /\ \A j \in DOMAIN inQueue' : inQueue'[j] \in Nat
    BY <2>1 DEF Types
  <2> QED
    BY <1>1, <1>2, <2>2 DEF Types
<1> QED
  BY <1>1, <1>4, <1>5 DEF WalletKeepsNone

LEMMA DropObsoleteKeeps ==
  ASSUME IInv, DropObsolete
  PROVE  IInv'
<1> USE DEF IInv
<1>1. /\ Turn /\ Obsolete(First)
      /\ UNCHANGED <<mode, offers, filter, channel, pc, inQueue, hand, settled, givenUp, faults>>
      /\ mode = "pool" /\ hand = NoItem
  BY DEF DropObsolete, Turn, resultVars
<1>2. /\ First.sub \in Offers /\ pending' \in Seq(Items)
      /\ HeldSubs = {First.sub} \cup Subs(pending')
  BY <1>1, TurnOf
<1>3. HeldSubs' = Subs(pending') /\ HeldSubs \subseteq Offers
  BY <1>1, HeldInside DEF HeldSubs
<1> DEFINE z == First.sub
           k == KeyOf(z)
<1>4. k \in DOMAIN inQueue /\ z.quality > inQueue[k] /\ z.quality \in Nat
  BY <1>1, <1>2, HeldInside DEF Obsolete
<1>5. HeldSubs = {z} \cup HeldSubs'
  BY <1>2, <1>3
<1>6. Types'
  BY <1>1, <1>2 DEF Types
<1> HIDE DEF z
<1>7. inQueue[k] \in Nat /\ \E y \in HeldSubs : KeyOf(y) = k /\ y.quality = inQueue[k]
  BY <1>4 DEF QueueBacked, Types
<1>8. PICK y \in HeldSubs : KeyOf(y) = k /\ y.quality = inQueue[k]
  BY <1>7
<1>9. y \in HeldSubs' /\ y.quality < z.quality /\ y \in Offers
  BY <1>3, <1>4, <1>5, <1>7, <1>8
<1>10. QueueBacked'
  <2>1. ASSUME NEW j \in DOMAIN inQueue
        PROVE  \E w \in HeldSubs' : KeyOf(w) = j /\ w.quality = inQueue[j]
    <3>1. CASE j = k
      BY <1>8, <1>9, <3>1
    <3>2. CASE j # k
      <4>1. PICK w \in HeldSubs : KeyOf(w) = j /\ w.quality = inQueue[j]
        BY DEF QueueBacked
      <4> QED
        BY <1>5, <3>2, <4>1
    <3> QED
      BY <3>1, <3>2
  <2> QED
    BY <1>1, <2>1 DEF QueueBacked
<1>11. QualityHeld'
  <2>1. Accounted = Accounted' \cup {z} /\ y \in Accounted' /\ Accounted \subseteq Offers
    BY <1>1, <1>5, <1>9, HeldInside DEF Accounted
  <2>2. ASSUME NEW v \in Accounted
        PROVE  \E w \in Accounted' : w \in Offers /\ KeyOf(w) = KeyOf(v) /\ w.quality <= v.quality
    <3>1. v \in Offers /\ v.quality \in Nat /\ y.quality \in Nat
      BY <1>7, <1>8, <2>1, HeldInside
    <3>2. CASE v = z
      BY <1>4, <1>8, <1>9, <2>1, <3>1, <3>2
    <3>3. CASE v # z
      BY <2>1, <3>1, <3>3
    <3> QED
      BY <3>2, <3>3
  <2>3. UNCHANGED <<mode, filter>>
    BY <1>1
  <2> QED
    BY <2>2, <2>3, StillAccounted
<1> QED
  BY <1>1, <1>6, <1>10, <1>11 DEF WalletKeepsNone

LEMMA SendKeeps ==
  ASSUME IInv, Send
  PROVE  IInv'
<1> USE DEF IInv
<1>1. /\ Turn /\ hand' = First
      /\ UNCHANGED <<mode, offers, filter, channel, pc, inQueue, settled, givenUp, faults>>
      /\ mode = "pool"
  BY DEF Send, Turn, resultVars
<1>2. /\ First \in Items /\ First # NoItem /\ pending' \in Seq(Items)
      /\ HeldSubs = {First.sub} \cup Subs(pending')
  BY <1>1, TurnOf
<1>3. HeldSubs' = HeldSubs
  BY <1>1, <1>2 DEF HeldSubs
<1>4. Accounted' = Accounted
  BY <1>1, <1>3 DEF Accounted
<1>5. Types'
  BY <1>1, <1>2 DEF Types
<1>6. QueueBacked' /\ QualityHeld'
  BY <1>1, <1>3, <1>4, MoveKeeps
<1> QED
  BY <1>1, <1>5, <1>6 DEF WalletKeepsNone

\* The item whose answer has come.
LEMMA HandOf ==
  ASSUME Types, hand # NoItem
  PROVE  hand \in Items /\ hand.sub \in Offers /\ HeldSubs = {hand.sub} \cup Subs(pending)
BY ItemIsNotNone DEF Types, HeldSubs

LEMMA SettleKeeps ==
  ASSUME IInv, Settle
  PROVE  IInv'
<1> USE DEF IInv
<1>1. /\ mode = "pool" /\ hand # NoItem /\ hand' = NoItem
      /\ settled' = settled \cup {hand.sub}
      /\ inQueue' = Without(inQueue, KeyOf(hand.sub))
      /\ pending' = Age(pending)
      /\ UNCHANGED <<mode, offers, filter, channel, pc, givenUp, faults>>
  BY DEF Settle
<1>2. hand.sub \in Offers /\ HeldSubs = {hand.sub} \cup Subs(pending)
  BY <1>1, HandOf
<1>3. pending' \in Seq(Items) /\ Subs(pending') = Subs(pending)
  BY <1>1, SubsOfAge DEF Types
<1>4. HeldSubs' = Subs(pending')
  BY <1>1 DEF HeldSubs
<1> DEFINE z == hand.sub
<1> HIDE DEF z
<1>5. QueueBacked' /\ QualityHeld'
  <2>1. /\ z \in HeldSubs /\ HeldSubs \subseteq HeldSubs' \cup {z}
        /\ inQueue' = Without(inQueue, KeyOf(z)) /\ z \in settled' \cup givenUp'
        /\ settled \subseteq settled' /\ givenUp \subseteq givenUp'
        /\ UNCHANGED <<mode, filter, channel>>
    BY <1>1, <1>2, <1>3, <1>4 DEF z
  <2> QED
    BY <2>1, ReleaseKeeps
<1>6. Types'
  <2>1. DOMAIN inQueue' \subseteq DOMAIN inQueue /\ \A j \in DOMAIN inQueue' : inQueue'[j] = inQueue[j]
    BY <1>1 DEF Without, Restrict
  <2>2. DOMAIN inQueue' \subseteq Accounts \X Blocks /\ \A j \in DOMAIN inQueue' : inQueue'[j] \in Nat
    BY <2>1 DEF Types
  <2> QED
    BY <1>1, <1>2, <1>3, <2>2 DEF Types
<1> QED
  BY <1>1, <1>5, <1>6 DEF WalletKeepsNone

LEMMA FailKeeps ==
  ASSUME IInv, Fail
  PROVE  IInv'
<1> USE DEF IInv
<1>1. /\ mode = "pool" /\ hand # NoItem /\ hand' = NoItem
      /\ UNCHANGED <<mode, offers, filter, channel, pc, settled>>
  BY DEF Fail
<1>2. hand \in Items /\ hand.sub \in Offers /\ HeldSubs = {hand.sub} \cup Subs(pending)
  BY <1>1, HandOf
<1>3. HeldSubs' = Subs(pending')
  BY <1>1 DEF HeldSubs
<1> DEFINE z == hand.sub
<1>4. CASE /\ inQueue' = Without(inQueue, KeyOf(z)) /\ givenUp' = givenUp \cup {z}
           /\ pending' = Age(pending)
  <2>1. pending' \in Seq(Items) /\ Subs(pending') = Subs(pending)
    BY <1>4, SubsOfAge DEF Types
  <2> HIDE DEF z
  <2>2. QueueBacked' /\ QualityHeld'
    <3>1. /\ z \in HeldSubs /\ HeldSubs \subseteq HeldSubs' \cup {z}
          /\ z \in settled' \cup givenUp'
          /\ settled \subseteq settled' /\ givenUp \subseteq givenUp'
          /\ UNCHANGED <<mode, filter, channel>>
      BY <1>1, <1>2, <1>3, <1>4, <2>1 DEF z
    <3> QED
      BY <1>4, <3>1, ReleaseKeeps
  <2>3. Types'
    <3>1. DOMAIN inQueue' \subseteq DOMAIN inQueue /\ \A j \in DOMAIN inQueue' : inQueue'[j] = inQueue[j]
      BY <1>4 DEF Without, Restrict
    <3>2. DOMAIN inQueue' \subseteq Accounts \X Blocks /\ \A j \in DOMAIN inQueue' : inQueue'[j] \in Nat
      BY <3>1 DEF Types
    <3>3. givenUp' \subseteq Offers
      BY <1>2, <1>4 DEF Types, z
    <3> QED
      BY <1>1, <2>1, <3>2, <3>3 DEF Types
  <2> QED
    BY <1>1, <2>2, <2>3 DEF WalletKeepsNone
<1>5. CASE /\ hand.retries + 1 <= MaxRetries
           /\ pending' = Age(<<[hand EXCEPT !.retries = @ + 1]>> \o pending)
           /\ UNCHANGED <<inQueue, givenUp>>
  <2> DEFINE it == [hand EXCEPT !.retries = @ + 1]
  <2>1. it \in Items /\ it.sub = hand.sub
    BY <1>2, <1>5, MaxRetriesAssumption DEF Items
  <2> HIDE DEF it
  <2>2. <<it>> \o pending \in Seq(Items) /\ Subs(<<it>> \o pending) = {hand.sub} \cup Subs(pending)
    BY <2>1, SubsOfCons DEF Types
  <2>3. pending' \in Seq(Items) /\ Subs(pending') = {hand.sub} \cup Subs(pending)
    BY <1>5, <2>2, SubsOfAge DEF it
  <2>4. HeldSubs' = HeldSubs
    BY <1>2, <1>3, <2>3
  <2>5. Accounted' = Accounted
    BY <1>1, <1>5, <2>4 DEF Accounted
  <2>6. QueueBacked' /\ QualityHeld'
    BY <1>1, <1>5, <2>4, <2>5, MoveKeeps
  <2>7. Types'
    BY <1>1, <1>5, <2>3 DEF Types
  <2> QED
    BY <1>1, <2>6, <2>7 DEF WalletKeepsNone
<1> QED
  BY <1>4, <1>5 DEF Fail

LEMMA BlockKeeps ==
  ASSUME IInv, Block
  PROVE  IInv'
<1> USE DEF IInv
<1>1. /\ UNCHANGED <<mode, offers, filter, channel, pending, inQueue, hand, settled, givenUp>>
      /\ pc' = "wait"
  BY DEF Block, resultVars
<1>2. HeldSubs' = HeldSubs
  BY <1>1 DEF HeldSubs
<1>3. Accounted' = Accounted
  BY <1>1, <1>2 DEF Accounted
<1>4. Types' /\ WalletKeepsNone'
  BY <1>1 DEF Types, WalletKeepsNone
<1> QED
  BY <1>1, <1>2, <1>3, <1>4, MoveKeeps

LEMMA SendOnceKeeps ==
  ASSUME IInv, SendOnce
  PROVE  IInv'
<1> USE DEF IInv
<1> DEFINE x == Head(channel)
<1>1. /\ mode = "wallet" /\ hand = NoItem /\ channel # <<>>
      /\ hand' = Item(x) /\ channel' = Tail(channel)
      /\ UNCHANGED <<mode, offers, filter, pc, pending, inQueue, settled, givenUp>>
  BY DEF SendOnce, resultVars
<1>2. x \in Offers /\ channel' \in Seq(Offers) /\ ToSet(channel) = {x} \cup ToSet(channel')
  BY <1>1, ElementsOfTail DEF Types
<1> HIDE DEF x
<1>3. Item(x) \in Items /\ Item(x).sub = x /\ Item(x) # NoItem
  BY <1>2, ItemOf
<1>4. HeldSubs = Subs(pending) /\ HeldSubs' = Subs(pending) \cup {x}
  BY <1>1, <1>3 DEF HeldSubs
<1>5. Accounted' = Accounted
  BY <1>1, <1>2, <1>4 DEF Accounted
<1>6. Types' /\ WalletKeepsNone'
  BY <1>1, <1>2, <1>3 DEF Types, WalletKeepsNone
<1>7. QueueBacked'
  BY <1>1 DEF WalletKeepsNone, QueueBacked
<1>8. QualityHeld'
  BY <1>1, <1>5 DEF QualityHeld, FilterOf
<1> QED
  BY <1>6, <1>7, <1>8

LEMMA AnswerOnceKeeps ==
  ASSUME IInv, AnswerOnce
  PROVE  IInv'
<1> USE DEF IInv
<1>1. /\ mode = "wallet" /\ hand # NoItem /\ hand' = NoItem
      /\ UNCHANGED <<mode, offers, filter, channel, pc, pending, inQueue>>
      /\ \/ settled' = settled \cup {hand.sub} /\ givenUp' = givenUp
         \/ givenUp' = givenUp \cup {hand.sub} /\ settled' = settled
  BY DEF AnswerOnce
<1>2. hand.sub \in Offers /\ HeldSubs = {hand.sub} \cup Subs(pending)
  BY <1>1, HandOf
<1>3. HeldSubs' = Subs(pending)
  BY <1>1 DEF HeldSubs
<1>4. Accounted \subseteq Accounted' /\ Accounted \subseteq Offers
  BY <1>1, <1>2, <1>3, HeldInside DEF Accounted
<1>5. Types' /\ WalletKeepsNone'
  BY <1>1, <1>2 DEF Types, WalletKeepsNone
<1>6. QueueBacked'
  BY <1>1 DEF WalletKeepsNone, QueueBacked
<1>7. QualityHeld'
  <2>1. \A y \in Accounted : y.quality \in Nat
    BY <1>4, HeldInside
  <2> QED
    BY <1>1, <1>4, <2>1, StillAccounted
<1> QED
  BY <1>5, <1>6, <1>7

LEMMA NextKeeps == IInv /\ [Next]_vars => IInv'
<1> SUFFICES ASSUME IInv, [Next]_vars PROVE IInv'
  OBVIOUS
<1>1. CASE Submit
  BY <1>1, SubmitKeeps
<1>2. CASE Drain
  <2>1. /\ mode = "pool" /\ channel # <<>> /\ channel' = Tail(channel) /\ pc' \in {"top", "wait"}
        /\ UNCHANGED <<mode, offers, filter, hand, resultVars>>
        /\ \/ /\ inQueue' = Put(inQueue, KeyOf(Head(channel)), Head(channel).quality)
              /\ pending' = Append(pending, Item(Head(channel)))
           \/ /\ KeyOf(Head(channel)) \in DOMAIN inQueue
              /\ Head(channel).quality >= inQueue[KeyOf(Head(channel))]
              /\ UNCHANGED <<inQueue, pending>>
    BY <1>2 DEF Drain
  <2> QED
    BY <2>1, TakeKeeps
<1>3. CASE DropStale
  BY <1>3, DropStaleKeeps
<1>4. CASE DropObsolete
  BY <1>4, DropObsoleteKeeps
<1>5. CASE Send
  BY <1>5, SendKeeps
<1>6. CASE Settle
  BY <1>6, SettleKeeps
<1>7. CASE Fail
  BY <1>7, FailKeeps
<1>8. CASE Block
  BY <1>8, BlockKeeps
<1>9. CASE Receive
  <2>1. /\ mode = "pool" /\ channel # <<>> /\ channel' = Tail(channel) /\ pc' \in {"top", "wait"}
        /\ UNCHANGED <<mode, offers, filter, hand, resultVars>>
        /\ inQueue' = Put(inQueue, KeyOf(Head(channel)), Head(channel).quality)
        /\ pending' = Append(pending, Item(Head(channel)))
    BY <1>9 DEF Receive
  <2> QED
    BY <2>1, TakeKeeps
<1>10. CASE SendOnce
  BY <1>10, SendOnceKeeps
<1>11. CASE AnswerOnce
  BY <1>11, AnswerOnceKeeps
<1>12. CASE UNCHANGED vars
  <2>1. UNCHANGED <<mode, offers, filter, channel, pc, pending, inQueue, hand, settled, givenUp>>
    BY <1>12 DEF vars, handlerVars, resultVars
  <2>2. HeldSubs' = HeldSubs
    BY <2>1 DEF HeldSubs
  <2>3. Accounted' = Accounted
    BY <2>1, <2>2 DEF Accounted
  <2>4. Types' /\ WalletKeepsNone'
    BY <2>1 DEF IInv, Types, WalletKeepsNone
  <2> QED
    BY <2>1, <2>2, <2>3, <2>4, MoveKeeps DEF IInv
<1> QED
  BY <1>1, <1>2, <1>3, <1>4, <1>5, <1>6, <1>7, <1>8, <1>9, <1>10, <1>11, <1>12 DEF Next, Handler

-----------------------------------------------------------------------------
(* The order of the queue. *)

\* Keys of which the handler has given up a submission.
GivenKeys == {KeyOf(x) : x \in givenUp}

\* Apart from the keys G: of two items of a key the later one is better,
Falls(s, G) ==
    \A i, j \in DOMAIN s :
        i < j /\ KeyOf(s[i].sub) = KeyOf(s[j].sub) /\ KeyOf(s[i].sub) \notin G =>
            s[j].sub.quality < s[i].sub.quality

\* and no submission is better than the best quality noted for its key.
Covers(q, X, G) ==
    \A x \in X : KeyOf(x) \notin G => KeyOf(x) \in DOMAIN q /\ q[KeyOf(x)] <= x.quality

\* None of the submissions X has the key of h, unless h's is in G.
Alone(h, X, G) == KeyOf(h) \notin G => \A x \in X : KeyOf(x) # KeyOf(h)

\* The invariant behind SendsBest, for the handler of pool mode: it waits with
\* an empty queue only, its queue falls per key down to the noted quality, and
\* what it sends has no other submission of its key behind it.
WaitsEmpty == mode = "pool" /\ pc = "wait" => pending = <<>> /\ hand = NoItem
QueueFalls == mode = "pool" => Falls(pending, GivenKeys) /\ Covers(inQueue, HeldSubs, GivenKeys)
HandAlone  == mode = "pool" /\ hand # NoItem => Alone(hand.sub, Subs(pending), GivenKeys)

OInv == IInv /\ WaitsEmpty /\ QueueFalls /\ HandAlone

LEMMA FallsOfAppend ==
  ASSUME NEW s \in Seq(Items), NEW it \in Items, NEW G, Falls(s, G),
         \A x \in Subs(s) : KeyOf(x) = KeyOf(it.sub) /\ KeyOf(x) \notin G => it.sub.quality < x.quality
  PROVE  Falls(Append(s, it), G)
<1> DEFINE t == Append(s, it)
<1>1. /\ Len(s) \in Nat /\ DOMAIN s = 1 .. Len(s) /\ DOMAIN t = 1 .. Len(s) + 1
      /\ \A i \in 1 .. Len(s) : t[i] = s[i] /\ s[i].sub \in Subs(s)
      /\ t[Len(s) + 1] = it
  BY DEF Subs, ToSet
<1> HIDE DEF t
<1>2. ASSUME NEW i \in DOMAIN t, NEW j \in DOMAIN t, i < j,
             KeyOf(t[i].sub) = KeyOf(t[j].sub), KeyOf(t[i].sub) \notin G
      PROVE  t[j].sub.quality < t[i].sub.quality
  <2>1. i \in 1 .. Len(s) /\ t[i] = s[i]
    BY <1>1, <1>2
  <2>2. CASE j \in 1 .. Len(s)
    BY <1>1, <1>2, <2>1, <2>2 DEF Falls
  <2>3. CASE j = Len(s) + 1
    BY <1>1, <1>2, <2>1, <2>3
  <2> QED
    BY <1>1, <2>2, <2>3
<1> QED
  BY <1>2 DEF Falls, t

LEMMA FallsOfTail ==
  ASSUME NEW s \in Seq(Items), s # <<>>, NEW G, Falls(s, G)
  PROVE  /\ Falls(Tail(s), G)
         /\ \A x \in Subs(Tail(s)) :
                KeyOf(x) = KeyOf(Head(s).sub) /\ KeyOf(x) \notin G => x.quality < Head(s).sub.quality
<1> DEFINE t == Tail(s)
<1>1. /\ Len(s) \in Nat \ {0} /\ DOMAIN s = 1 .. Len(s) /\ Head(s) = s[1] /\ DOMAIN t = 1 .. Len(s) - 1
      /\ \A i \in 1 .. Len(s) - 1 : t[i] = s[i + 1]
  OBVIOUS
<1> HIDE DEF t
<1>2. ASSUME NEW i \in DOMAIN t, NEW j \in DOMAIN t, i < j,
             KeyOf(t[i].sub) = KeyOf(t[j].sub), KeyOf(t[i].sub) \notin G
      PROVE  t[j].sub.quality < t[i].sub.quality
  <2>1. i + 1 \in DOMAIN s /\ j + 1 \in DOMAIN s /\ i + 1 < j + 1 /\ t[i] = s[i + 1] /\ t[j] = s[j + 1]
    BY <1>1, <1>2
  <2> QED
    BY <1>2, <2>1 DEF Falls
<1>3. ASSUME NEW x \in Subs(t), KeyOf(x) = KeyOf(Head(s).sub), KeyOf(x) \notin G
      PROVE  x.quality < Head(s).sub.quality
  <2>1. PICK i \in DOMAIN t : x = t[i].sub
    BY DEF Subs, ToSet
  <2>2. 1 \in DOMAIN s /\ i + 1 \in DOMAIN s /\ 1 < i + 1 /\ t[i] = s[i + 1]
    BY <1>1, <2>1
  <2> QED
    BY <1>1, <1>3, <2>1, <2>2 DEF Falls
<1> QED
  BY <1>2, <1>3 DEF Falls, t

LEMMA FallsOfCons ==
  ASSUME NEW s \in Seq(Items), NEW it \in Items, NEW G, Falls(s, G), Alone(it.sub, Subs(s), G)
  PROVE  Falls(<<it>> \o s, G)
<1> DEFINE t == <<it>> \o s
<1>1. /\ Len(s) \in Nat /\ DOMAIN s = 1 .. Len(s) /\ DOMAIN t = 1 .. Len(s) + 1 /\ t[1] = it
      /\ \A i \in 2 .. Len(s) + 1 : t[i] = s[i - 1]
  OBVIOUS
<1>2. \A i \in 1 .. Len(s) : s[i].sub \in Subs(s)
  BY <1>1 DEF Subs, ToSet
<1> HIDE DEF t
<1>3. ASSUME NEW i \in DOMAIN t, NEW j \in DOMAIN t, i < j,
             KeyOf(t[i].sub) = KeyOf(t[j].sub), KeyOf(t[i].sub) \notin G
      PROVE  t[j].sub.quality < t[i].sub.quality
  <2>1. j - 1 \in 1 .. Len(s) /\ t[j] = s[j - 1]
    BY <1>1, <1>3
  <2>2. CASE i = 1
    BY <1>1, <1>2, <1>3, <2>1, <2>2 DEF Alone
  <2>3. CASE i # 1
    <3>1. i - 1 \in DOMAIN s /\ j - 1 \in DOMAIN s /\ i - 1 < j - 1 /\ t[i] = s[i - 1]
      BY <1>1, <1>3, <2>1, <2>3
    <3> QED
      BY <1>3, <2>1, <3>1 DEF Falls
  <2> QED
    BY <2>2, <2>3
<1> QED
  BY <1>3 DEF Falls, t

LEMMA FallsOfAge ==
  ASSUME NEW s \in Seq(Items), NEW G, Falls(s, G)
  PROVE  Falls(Age(s), G)
<1>1. DOMAIN Age(s) = DOMAIN s /\ \A i \in DOMAIN s : Age(s)[i] = [s[i] EXCEPT !.aged = MayAge]
  BY DEF Age
<1>2. \A i \in DOMAIN s : s[i] \in Items
  OBVIOUS
<1>3. \A i \in DOMAIN s : Age(s)[i].sub = s[i].sub
  BY <1>1, <1>2 DEF Items
<1> QED
  BY <1>1, <1>3 DEF Falls

\* The more keys are given up, the less is said.
LEMMA MoreGiven ==
  ASSUME NEW s, NEW q, NEW X, NEW G, NEW H, G \subseteq H, Falls(s, G), Covers(q, X, G)
  PROVE  Falls(s, H) /\ Covers(q, X, H)
BY DEF Falls, Covers

-----------------------------------------------------------------------------
(* The steps of the handler keep the order. *)

LEMMA OrderOfNone == Falls(<<>>, GivenKeys) /\ Covers(inQueue, {}, GivenKeys)
BY DEF Falls, Covers

\* A submission from the channel, better than the noted quality of its key.
LEMMA TakeOrders ==
  ASSUME OInv, IInv', mode = "pool", hand = NoItem, NEW x \in Offers,
         Falls(pending, GivenKeys), Covers(inQueue, HeldSubs, GivenKeys),
         KeyOf(x) \in DOMAIN inQueue => x.quality < inQueue[KeyOf(x)],
         inQueue' = Put(inQueue, KeyOf(x), x.quality),
         pending' = Append(pending, Item(x)), UNCHANGED <<mode, hand, givenUp>>
  PROVE  QueueFalls' /\ HandAlone'
<1>1. Item(x) \in Items /\ Item(x).sub = x
  BY ItemOf
<1>2. pending \in Seq(Items) /\ HeldSubs = Subs(pending) /\ HeldSubs' = Subs(pending')
  BY DEF OInv, IInv, Types, HeldSubs
<1>3. Subs(pending') = Subs(pending) \cup {x}
  BY <1>1, <1>2, SubsOfAppend
<1>4. GivenKeys' = GivenKeys
  BY DEF GivenKeys, KeyOf
<1> DEFINE k == KeyOf(x)
<1>5. \A y \in Subs(pending) : KeyOf(y) = k /\ KeyOf(y) \notin GivenKeys => x.quality < y.quality
  <2> SUFFICES ASSUME NEW y \in Subs(pending), KeyOf(y) = k, KeyOf(y) \notin GivenKeys
               PROVE  x.quality < y.quality
    OBVIOUS
  <2>1. k \in DOMAIN inQueue /\ inQueue[k] <= y.quality /\ x.quality < inQueue[k]
    BY <1>2 DEF Covers
  <2>2. inQueue[k] \in Nat /\ y.quality \in Nat /\ x.quality \in Nat
    BY <1>2, <2>1, HeldInside DEF OInv, IInv, Types
  <2> QED
    BY <2>1, <2>2
<1>6. Falls(pending', GivenKeys)
  BY <1>1, <1>2, <1>5, FallsOfAppend
<1>7. Covers(inQueue', HeldSubs', GivenKeys)
  <2> SUFFICES ASSUME NEW y \in Subs(pending) \cup {x}, KeyOf(y) \notin GivenKeys
               PROVE  KeyOf(y) \in DOMAIN inQueue' /\ inQueue'[KeyOf(y)] <= y.quality
    BY <1>2, <1>3 DEF Covers
  <2>1. /\ DOMAIN inQueue' = DOMAIN inQueue \cup {k} /\ inQueue'[k] = x.quality
        /\ \A j \in DOMAIN inQueue : j # k => inQueue'[j] = inQueue[j]
    <3>1. inQueue' = Put(inQueue, k, x.quality)
      OBVIOUS
    <3>2. /\ DOMAIN Put(inQueue, k, x.quality) = DOMAIN inQueue \cup {k}
          /\ Put(inQueue, k, x.quality)[k] = x.quality
          /\ \A j \in DOMAIN inQueue : j # k => Put(inQueue, k, x.quality)[j] = inQueue[j]
      BY DEF Put
    <3> HIDE DEF k
    <3> QED
      BY <3>1, <3>2
  <2>2. x.quality \in Nat
    BY HeldInside DEF OInv, IInv
  <2>3. CASE KeyOf(y) = k
    <3>1. CASE y = x
      BY <2>1, <2>2, <3>1
    <3>2. CASE y \in Subs(pending)
      <4>1. x.quality < y.quality /\ y.quality \in Nat
        BY <1>2, <1>5, <2>3, <3>2, HeldInside DEF OInv, IInv
      <4> QED
        BY <2>1, <2>2, <2>3, <4>1
    <3> QED
      BY <3>1, <3>2
  <2>4. CASE KeyOf(y) # k
    <3>1. KeyOf(y) \in DOMAIN inQueue /\ inQueue[KeyOf(y)] <= y.quality
      BY <1>2, <2>4 DEF Covers
    <3> QED
      BY <2>1, <2>4, <3>1
  <2> QED
    BY <2>3, <2>4
<1> QED
  BY <1>4, <1>6, <1>7 DEF QueueFalls, HandAlone

\* The first item leaves the queue, which keeps its order.
LEMMA TurnOrders ==
  ASSUME OInv, Turn
  PROVE  /\ pending \in Seq(Items) /\ pending # <<>> /\ pending' = Tail(pending) /\ hand = NoItem
         /\ Falls(pending', GivenKeys) /\ Covers(inQueue, HeldSubs, GivenKeys)
         /\ \A x \in Subs(pending') :
                KeyOf(x) = KeyOf(First.sub) /\ KeyOf(x) \notin GivenKeys => x.quality < First.sub.quality
<1>1. pending \in Seq(Items) /\ pending # <<>> /\ pending' = Tail(pending) /\ hand = NoItem /\ mode = "pool"
  BY DEF OInv, IInv, Types, Turn
<1>2. Falls(pending, GivenKeys) /\ Covers(inQueue, HeldSubs, GivenKeys)
  BY <1>1 DEF OInv, QueueFalls
<1> QED
  BY <1>1, <1>2, FallsOfTail DEF First

\* A submission z leaves the handler for good, its key's quality with it: no other
\* of its key stays behind, or the key is one given up.
LEMMA ReleaseOrders ==
  ASSUME NEW z, NEW q, NEW X, NEW G, NEW H, Covers(q, X, G), G \subseteq H,
         Alone(z, X, H)
  PROVE  Covers(Without(q, KeyOf(z)), X, H)
<1> SUFFICES ASSUME NEW x \in X, KeyOf(x) \notin H
             PROVE  KeyOf(x) \in DOMAIN Without(q, KeyOf(z)) /\ Without(q, KeyOf(z))[KeyOf(x)] <= x.quality
  BY DEF Covers
<1>1. KeyOf(x) \in DOMAIN q /\ q[KeyOf(x)] <= x.quality
  BY DEF Covers
<1>2. KeyOf(x) # KeyOf(z)
  BY DEF Alone
<1> QED
  BY <1>1, <1>2, WithoutOne

LEMMA DropStaleOrders ==
  ASSUME OInv, DropStale
  PROVE  QueueFalls' /\ HandAlone'
<1> DEFINE z == First.sub
<1>1. /\ Turn /\ inQueue' = Without(inQueue, KeyOf(z)) /\ givenUp' = givenUp \cup {z}
      /\ UNCHANGED <<mode, hand>>
  BY DEF DropStale
<1>2. /\ hand = NoItem /\ Falls(pending', GivenKeys) /\ Covers(inQueue, HeldSubs, GivenKeys)
  BY <1>1, TurnOrders
<1>3. HeldSubs = {z} \cup Subs(pending') /\ HeldSubs' = Subs(pending')
  BY <1>1, <1>2, TurnOf DEF HeldSubs, OInv, IInv
<1>4. GivenKeys \subseteq GivenKeys' /\ KeyOf(z) \in GivenKeys'
  BY <1>1 DEF GivenKeys, KeyOf
<1> HIDE DEF z
<1>5. Covers(inQueue, HeldSubs', GivenKeys) /\ Alone(z, HeldSubs', GivenKeys')
  BY <1>2, <1>3, <1>4 DEF Covers, Alone
<1>6. Covers(inQueue', HeldSubs', GivenKeys')
  BY <1>1, <1>4, <1>5, ReleaseOrders
<1>7. Falls(pending', GivenKeys')
  BY <1>2, <1>4 DEF Falls
<1> QED
  BY <1>1, <1>2, <1>6, <1>7 DEF QueueFalls, HandAlone

LEMMA DropObsoleteOrders ==
  ASSUME OInv, DropObsolete
  PROVE  QueueFalls' /\ HandAlone'
<1>1. Turn /\ UNCHANGED <<mode, hand, inQueue, givenUp>>
  BY DEF DropObsolete, resultVars
<1>2. hand = NoItem /\ Falls(pending', GivenKeys) /\ Covers(inQueue, HeldSubs, GivenKeys)
  BY <1>1, TurnOrders
<1>3. HeldSubs = {First.sub} \cup Subs(pending') /\ HeldSubs' = Subs(pending')
  BY <1>1, <1>2, TurnOf DEF HeldSubs, OInv, IInv
<1>4. GivenKeys' = GivenKeys
  BY <1>1 DEF GivenKeys, KeyOf
<1> QED
  BY <1>1, <1>2, <1>3, <1>4 DEF QueueFalls, HandAlone, Covers

\* An item that is not obsolete has the noted quality of its key, and whatever
\* was behind it would be better still: there is nothing.
LEMMA SendOrders ==
  ASSUME OInv, Send
  PROVE  QueueFalls' /\ HandAlone'
<1> DEFINE z == First.sub
           k == KeyOf(z)
<1>1. /\ Turn /\ ~Obsolete(First) /\ hand' = First /\ UNCHANGED <<mode, inQueue, givenUp>>
  BY DEF Send, resultVars
<1>2. /\ Falls(pending', GivenKeys) /\ Covers(inQueue, HeldSubs, GivenKeys)
      /\ \A x \in Subs(pending') : KeyOf(x) = k /\ KeyOf(x) \notin GivenKeys => x.quality < z.quality
  BY <1>1, TurnOrders
<1>3. First # NoItem /\ HeldSubs = {z} \cup Subs(pending')
  BY <1>1, TurnOf DEF OInv, IInv
<1>4. HeldSubs' = HeldSubs
  BY <1>1, <1>3 DEF HeldSubs
<1>5. GivenKeys' = GivenKeys
  BY <1>1 DEF GivenKeys, KeyOf
<1>6. Alone(z, Subs(pending'), GivenKeys)
  <2> SUFFICES ASSUME k \notin GivenKeys, NEW x \in Subs(pending'), KeyOf(x) = k
               PROVE  FALSE
    BY DEF Alone
  <2>1. k \in DOMAIN inQueue /\ inQueue[k] <= x.quality /\ x.quality < z.quality
    BY <1>2, <1>3 DEF Covers
  <2>2. inQueue[k] \in Nat /\ x.quality \in Nat /\ z.quality \in Nat
    BY <1>3, <2>1, HeldInside DEF OInv, IInv, Types
  <2>3. ~(z.quality > inQueue[k])
    BY <1>1, <2>1 DEF Obsolete
  <2> QED
    BY <2>1, <2>2, <2>3
<1> QED
  BY <1>1, <1>2, <1>4, <1>5, <1>6 DEF QueueFalls, HandAlone

LEMMA SettleOrders ==
  ASSUME OInv, Settle
  PROVE  QueueFalls' /\ HandAlone'
<1> DEFINE z == hand.sub
<1>1. /\ mode = "pool" /\ hand # NoItem /\ hand' = NoItem
      /\ inQueue' = Without(inQueue, KeyOf(z)) /\ pending' = Age(pending)
      /\ UNCHANGED <<mode, givenUp>>
  BY DEF Settle
<1>2. HeldSubs = {z} \cup Subs(pending) /\ pending \in Seq(Items)
  BY <1>1, HandOf DEF OInv, IInv, Types
<1>3. Falls(pending, GivenKeys) /\ Covers(inQueue, HeldSubs, GivenKeys) /\ Alone(z, Subs(pending), GivenKeys)
  BY <1>1 DEF OInv, QueueFalls, HandAlone
<1>4. HeldSubs' = Subs(pending) /\ Falls(pending', GivenKeys)
  BY <1>1, <1>2, <1>3, SubsOfAge, FallsOfAge DEF HeldSubs
<1>5. GivenKeys' = GivenKeys
  BY <1>1 DEF GivenKeys, KeyOf
<1> HIDE DEF z
<1>6. Covers(inQueue, HeldSubs', GivenKeys)
  BY <1>2, <1>3, <1>4 DEF Covers
<1>7. Covers(inQueue', HeldSubs', GivenKeys)
  BY <1>1, <1>3, <1>4, <1>6, ReleaseOrders
<1> QED
  BY <1>1, <1>4, <1>5, <1>7 DEF QueueFalls, HandAlone

LEMMA FailOrders ==
  ASSUME OInv, Fail
  PROVE  QueueFalls' /\ HandAlone'
<1> DEFINE z == hand.sub
<1>1. mode = "pool" /\ hand # NoItem /\ hand' = NoItem /\ UNCHANGED mode
  BY DEF Fail
<1>2. HeldSubs = {z} \cup Subs(pending) /\ pending \in Seq(Items) /\ hand \in Items
  BY <1>1, HandOf DEF OInv, IInv, Types
<1>3. Falls(pending, GivenKeys) /\ Covers(inQueue, HeldSubs, GivenKeys) /\ Alone(z, Subs(pending), GivenKeys)
  BY <1>1 DEF OInv, QueueFalls, HandAlone
<1>4. HeldSubs' = Subs(pending')
  BY <1>1 DEF HeldSubs
<1>5. CASE /\ inQueue' = Without(inQueue, KeyOf(z)) /\ givenUp' = givenUp \cup {z}
           /\ pending' = Age(pending)
  <2>1. GivenKeys \subseteq GivenKeys' /\ KeyOf(z) \in GivenKeys'
    BY <1>5 DEF GivenKeys, KeyOf
  <2>2. HeldSubs' = Subs(pending) /\ Falls(pending', GivenKeys)
    BY <1>2, <1>3, <1>4, <1>5, SubsOfAge, FallsOfAge
  <2> HIDE DEF z
  <2>3. Covers(inQueue, HeldSubs', GivenKeys) /\ Alone(z, HeldSubs', GivenKeys')
    BY <1>2, <1>3, <2>1, <2>2 DEF Covers, Alone
  <2>4. Covers(inQueue', HeldSubs', GivenKeys')
    BY <1>5, <2>1, <2>3, ReleaseOrders
  <2>5. Falls(pending', GivenKeys')
    BY <2>1, <2>2 DEF Falls
  <2> QED
    BY <1>1, <2>4, <2>5 DEF QueueFalls, HandAlone
<1>6. CASE /\ hand.retries + 1 <= MaxRetries
           /\ pending' = Age(<<[hand EXCEPT !.retries = @ + 1]>> \o pending)
           /\ UNCHANGED <<inQueue, givenUp>>
  <2> DEFINE it == [hand EXCEPT !.retries = @ + 1]
  <2>1. it \in Items /\ it.sub = z
    BY <1>2, <1>6, MaxRetriesAssumption DEF Items
  <2> HIDE DEF it
  <2>2. <<it>> \o pending \in Seq(Items) /\ Subs(<<it>> \o pending) = {z} \cup Subs(pending)
    BY <1>2, <2>1, SubsOfCons
  <2>3. Falls(<<it>> \o pending, GivenKeys)
    BY <1>2, <1>3, <2>1, FallsOfCons
  <2>4. HeldSubs' = HeldSubs /\ Falls(pending', GivenKeys)
    BY <1>2, <1>4, <1>6, <2>2, <2>3, SubsOfAge, FallsOfAge DEF it
  <2>5. GivenKeys' = GivenKeys
    BY <1>6 DEF GivenKeys, KeyOf
  <2> QED
    BY <1>1, <1>3, <1>6, <2>4, <2>5 DEF QueueFalls, HandAlone
<1> QED
  BY <1>5, <1>6 DEF Fail

LEMMA OrderInit == Init => WaitsEmpty /\ QueueFalls /\ HandAlone
<1> SUFFICES ASSUME Init PROVE WaitsEmpty /\ QueueFalls /\ HandAlone
  OBVIOUS
<1>1. pc = "top" /\ pending = <<>> /\ hand = NoItem
  BY DEF Init
<1>2. HeldSubs = {}
  BY <1>1, ElementsOfEmpty DEF HeldSubs, Subs
<1> QED
  BY <1>1, <1>2, OrderOfNone DEF WaitsEmpty, QueueFalls, HandAlone

LEMMA OrderKeeps == OInv /\ IInv' /\ [Next]_vars => OInv'
<1> SUFFICES ASSUME OInv, IInv', [Next]_vars PROVE (WaitsEmpty /\ QueueFalls /\ HandAlone)'
  BY DEF OInv
<1>1. CASE UNCHANGED <<mode, pc, pending, inQueue, hand, givenUp>>
  <2>1. HeldSubs' = HeldSubs /\ GivenKeys' = GivenKeys
    BY <1>1 DEF HeldSubs, GivenKeys, KeyOf
  <2> QED
    BY <1>1, <2>1 DEF OInv, WaitsEmpty, QueueFalls, HandAlone
<1>2. CASE Submit
  BY <1>1, <1>2 DEF Submit, handlerVars, resultVars
<1>3. CASE Drain
  <2>1. /\ mode = "pool" /\ pc = "top" /\ hand = NoItem /\ channel # <<>>
        /\ UNCHANGED <<mode, pc, hand, givenUp>>
    BY <1>3 DEF Drain, resultVars
  <2>2. Head(channel) \in Offers
    BY <2>1 DEF OInv, IInv, Types
  <2>3. Falls(pending, GivenKeys) /\ Covers(inQueue, HeldSubs, GivenKeys)
    BY <2>1 DEF OInv, QueueFalls
  <2>4. CASE UNCHANGED <<inQueue, pending>>
    BY <1>1, <2>1, <2>4
  <2>5. CASE /\ KeyOf(Head(channel)) \in DOMAIN inQueue => Head(channel).quality < inQueue[KeyOf(Head(channel))]
             /\ inQueue' = Put(inQueue, KeyOf(Head(channel)), Head(channel).quality)
             /\ pending' = Append(pending, Item(Head(channel)))
    <3>1. QueueFalls' /\ HandAlone'
      BY <2>1, <2>2, <2>3, <2>5, TakeOrders
    <3> QED
      BY <2>1, <3>1 DEF WaitsEmpty
  <2> QED
    BY <1>3, <2>4, <2>5 DEF Drain
<1>4. CASE Receive
  <2>1. /\ mode = "pool" /\ pc = "wait" /\ channel # <<>> /\ pc' = "top"
        /\ inQueue' = Put(inQueue, KeyOf(Head(channel)), Head(channel).quality)
        /\ pending' = Append(pending, Item(Head(channel)))
        /\ UNCHANGED <<mode, hand, givenUp>>
    BY <1>4 DEF Receive, resultVars
  <2>2. Head(channel) \in Offers
    BY <2>1 DEF OInv, IInv, Types
  <2>3. pending = <<>> /\ hand = NoItem
    BY <2>1 DEF OInv, WaitsEmpty
  <2>4. HeldSubs = {}
    BY <2>3, ElementsOfEmpty DEF HeldSubs, Subs
  <2>5. DOMAIN inQueue = {}
    BY <2>4 DEF OInv, IInv, QueueBacked
  <2>6. Falls(pending, GivenKeys) /\ Covers(inQueue, HeldSubs, GivenKeys)
    BY <2>3, <2>4, OrderOfNone
  <2>7. QueueFalls' /\ HandAlone'
    BY <2>1, <2>2, <2>3, <2>5, <2>6, TakeOrders
  <2> QED
    BY <2>1, <2>7 DEF WaitsEmpty
<1>5. CASE DropStale
  BY <1>5, DropStaleOrders DEF DropStale, Turn, WaitsEmpty
<1>6. CASE DropObsolete
  BY <1>6, DropObsoleteOrders DEF DropObsolete, Turn, WaitsEmpty
<1>7. CASE Send
  BY <1>7, SendOrders DEF Send, Turn, WaitsEmpty
<1>8. CASE Settle
  <2>1. pc' = pc /\ mode = "pool" /\ hand # NoItem
    BY <1>8 DEF Settle
  <2> QED
    BY <1>8, <2>1, SettleOrders DEF OInv, WaitsEmpty
<1>9. CASE Fail
  <2>1. pc' = pc /\ mode = "pool" /\ hand # NoItem
    BY <1>9 DEF Fail
  <2> QED
    BY <1>9, <2>1, FailOrders DEF OInv, WaitsEmpty
<1>10. CASE Block
  <2>1. /\ pending = <<>> /\ hand = NoItem /\ UNCHANGED <<mode, pending, inQueue, hand, givenUp>>
    BY <1>10 DEF Block, resultVars
  <2>2. HeldSubs' = HeldSubs /\ GivenKeys' = GivenKeys
    BY <2>1 DEF HeldSubs, GivenKeys, KeyOf
  <2> QED
    BY <2>1, <2>2 DEF OInv, WaitsEmpty, QueueFalls, HandAlone
<1>11. CASE SendOnce \/ AnswerOnce
  BY <1>11 DEF SendOnce, AnswerOnce, WaitsEmpty, QueueFalls, HandAlone
<1>12. CASE UNCHANGED vars
  BY <1>1, <1>12 DEF vars, handlerVars, resultVars
<1> QED
  BY <1>2, <1>3, <1>4, <1>5, <1>6, <1>7, <1>8, <1>9, <1>10, <1>11, <1>12 DEF Next, Handler

-----------------------------------------------------------------------------
(* What the queues promise. *)

\* The strengthening the others follow from: the variables have their types,
\* every entry of in_queue_best speaks of a submission the handler has, and
\* every quality of a filter is that of a submission accounted for.  The first
\* of the last two is what makes it safe to drop what is worse than the entry.
THEOREM QueueInvariant == Spec => []IInv
BY InitHolds, NextKeeps, PTL DEF Spec

\* TypeOK, whatever the miners submit: a filter never remembers more blocks than
\* it may, and knows each block of its list once (submission_queue.rs,
\* global_best_queue.rs).
THEOREM QueueTypes == Spec => []TypeOK
<1>1. IInv => TypeOK
  <2> SUFFICES ASSUME IInv PROVE TypeOK
    OBVIOUS
  <2>1. \A k \in Keys : /\ Len(filter[k].blocks) <= MaxTracked
                        /\ DOMAIN filter[k].best = ToSet(filter[k].blocks)
                        /\ IsInjective(filter[k].blocks)
    BY DEF IInv, Types, FilterOK
  <2>2. HeldSubs = {it.sub : it \in ToSet(Held)} /\ ToSet(Held) \subseteq Items /\ HeldSubs \subseteq Offers
    BY SubsOfHeld, HeldInside DEF IInv
  <2>3. ToSet(channel) \subseteq Offers
    BY ElementsInside DEF IInv, Types
  <2>4. \A it \in ToSet(Held) : it.retries \in 0 .. MaxRetries
    BY <2>2 DEF Items
  <2> QED
    BY <2>1, <2>2, <2>3, <2>4 DEF IInv, Types, TypeOK
<1> QED
  BY <1>1, QueueInvariant, PTL

\* BestHeld: the quality that makes a filter turn away worse submissions is that
\* of one which is forwarded, answered or given up; no repetition, no full
\* list of blocks and no obsolete item in between loses it.
THEOREM BestIsHeld == Spec => []BestHeld
<1>1. IInv => BestHeld
  BY SubsOfHeld DEF IInv, QualityHeld, Accounted, BestHeld
<1> QED
  BY <1>1, QueueInvariant, PTL

\* InQueueBacked: no entry of in_queue_best outlives its submission, so that the
\* handler never drops a submission for a better one it no longer has.
THEOREM InQueueIsBacked == Spec => []InQueueBacked
<1>1. IInv => InQueueBacked
  <2> SUFFICES ASSUME IInv, NEW k \in DOMAIN inQueue
               PROVE  \E it \in ToSet(Held) : KeyOf(it.sub) = k /\ it.sub.quality = inQueue[k]
    BY DEF InQueueBacked
  <2>1. PICK x \in HeldSubs : KeyOf(x) = k /\ x.quality = inQueue[k]
    BY DEF IInv, QueueBacked
  <2>2. PICK it \in ToSet(Held) : x = it.sub
    BY <2>1, SubsOfHeld DEF IInv
  <2> QED
    BY <2>1, <2>2
<1> QED
  BY <1>1, QueueInvariant, PTL

\* OInv, the order of the handler's queue: per key it falls strictly, down to the
\* quality in in_queue_best, unless one of the key was given up.  The entry alone
\* would not do: it vanishes when the best one is answered, and only the order
\* says that nothing of the key is left then.
THEOREM QueueOrder == Spec => []OInv
<1>1. Init => OInv
  BY InitHolds, OrderInit DEF OInv
<1>2. OInv /\ [Next]_vars => OInv'
  <2>1. OInv /\ [Next]_vars => IInv'
    BY NextKeeps DEF OInv
  <2> QED
    BY <2>1, OrderKeeps
<1> QED
  BY <1>1, <1>2, PTL DEF Spec

\* SendsBest: of the submissions of an account for a block, what the handler sends
\* is the best it holds, whatever failed and was put first in the queue again
\* (submission_queue.rs), for any number of accounts, blocks and retries.
THEOREM BestIsSent == Spec => []SendsBest
<1>1. OInv => SendsBest
  <2> SUFFICES ASSUME OInv, hand # NoItem, \A x \in givenUp : KeyOf(x) # KeyOf(hand.sub),
                      NEW it \in ToSet(pending), KeyOf(it.sub) = KeyOf(hand.sub)
               PROVE  hand.sub.quality <= it.sub.quality
    BY DEF SendsBest
  <2>1. mode = "pool"
    BY ElementsOfEmpty, ModesAssumption DEF OInv, IInv, Types, WalletKeepsNone
  <2>2. mode = "pool" => FALSE
    <3>1. KeyOf(hand.sub) \notin GivenKeys /\ it.sub \in Subs(pending)
      BY DEF GivenKeys, Subs
    <3> QED
      BY <3>1 DEF OInv, HandAlone, Alone
  <2> QED
    BY <2>1, <2>2
<1> QED
  BY <1>1, QueueOrder, PTL

=============================================================================
