------------------------- MODULE Submission_proofs -------------------------
(* What the submission path promises for any blocks, accounts, nonces and    *)
(* targets: when everything found has been looked at, the best is known; no  *)
(* lane sends anything worse than what it sent before; and the best is       *)
(* underway, or answered, as long as the pool does not return to a block it  *)
(* has left and does not answer that it is busy.                             *)
EXTENDS Submission, SequencesExt, WellFoundedInduction, TLAPS

-----------------------------------------------------------------------------
(* Numbers. *)

\* A set of naturals has a least element.
LEMMA LeastNat ==
  ASSUME NEW T \in SUBSET Nat, T # {}
  PROVE  \E x \in T : \A y \in T : x <= y
<1>1. \A x, y \in Nat : <<x, y>> \in OpToRel(<, Nat) <=> x < y
  BY DEF OpToRel
<1>2. \E x \in T : \A y \in T : ~ (<<y, x>> \in OpToRel(<, Nat))
  BY WFMin, NatLessThanWellFounded, Zenon
<1>3. \E x \in T : \A y \in T : ~ (y < x)
  BY <1>1, <1>2, Zenon
<1> QED
  BY <1>3

\* Division keeps the order.
LEMMA QuotientMonotone ==
  ASSUME NEW a \in Nat, NEW b \in Nat, NEW c \in Nat \ {0}, a <= b
  PROVE  a \div c <= b \div c
OBVIOUS

-----------------------------------------------------------------------------
(* The set of a sequence's elements. *)

\* Append adds one element.
LEMMA ElementsOfAppend ==
  ASSUME NEW S, NEW s \in Seq(S), NEW e \in S
  PROVE  ToSet(Append(s, e)) = ToSet(s) \cup {e}
<1>1. /\ DOMAIN Append(s, e) = 1 .. Len(s) + 1 /\ DOMAIN s = 1 .. Len(s) /\ Len(s) \in Nat
      /\ \A i \in 1 .. Len(s) : Append(s, e)[i] = s[i]
      /\ Append(s, e)[Len(s) + 1] = e
  OBVIOUS
<1> QED
  BY <1>1 DEF ToSet

\* The elements are the head and those of the tail.
LEMMA ElementsOfTail ==
  ASSUME NEW S, NEW s \in Seq(S), s # <<>>
  PROVE  ToSet(s) = {Head(s)} \cup ToSet(Tail(s))
<1>1. /\ Len(s) \in Nat \ {0} /\ DOMAIN s = 1 .. Len(s) /\ Head(s) = s[1]
      /\ DOMAIN Tail(s) = 1 .. Len(s) - 1
      /\ \A i \in 1 .. Len(s) - 1 : Tail(s)[i] = s[i + 1]
  OBVIOUS
<1>2. ASSUME NEW x \in ToSet(s) PROVE x \in {Head(s)} \cup ToSet(Tail(s))
  <2>1. PICK i \in 1 .. Len(s) : x = s[i]
    BY <1>1 DEF ToSet
  <2>2. CASE i = 1
    BY <1>1, <2>1, <2>2
  <2>3. CASE i # 1
    <3>1. i - 1 \in 1 .. Len(s) - 1 /\ s[i] = Tail(s)[i - 1]
      BY <1>1, <2>1, <2>3
    <3> QED
      BY <1>1, <2>1, <3>1 DEF ToSet
  <2> QED
    BY <2>2, <2>3
<1>3. ASSUME NEW x \in {Head(s)} \cup ToSet(Tail(s)) PROVE x \in ToSet(s)
  <2>1. CASE x = Head(s)
    BY <1>1, <2>1 DEF ToSet
  <2>2. CASE x \in ToSet(Tail(s))
    <3>1. PICK i \in 1 .. Len(s) - 1 : x = Tail(s)[i]
      BY <1>1, <2>2 DEF ToSet
    <3>2. i + 1 \in 1 .. Len(s) /\ x = s[i + 1]
      BY <1>1, <3>1
    <3> QED
      BY <1>1, <3>2 DEF ToSet
  <2> QED
    BY <1>3, <2>1, <2>2
<1> QED
  BY <1>2, <1>3

\* The elements are of the set the sequence is over.
LEMMA ElementsInside ==
  ASSUME NEW S, NEW s \in Seq(S)
  PROVE  ToSet(s) \subseteq S
BY DEF ToSet

\* The empty sequence has no elements.
LEMMA ElementsOfEmpty == ToSet(<<>>) = {}
BY DEF ToSet

\* The submissions in the queues q of the lanes.
Queued(q) == UNION {ToSet(q[l]) : l \in Lanes}

\* What has been handed over and not been replaced in its lane.
Sent == ToSet(demux) \cup Queued(queue) \cup ({item[l] : l \in Lanes} \ {None})

\* The newest block is the last of those to be scanned.
BlocksEnd == blocks # <<>> => blocks[Len(blocks)] = tip.sig

\* The accounts whose best quality a nonce has to beat.
Rivals(n) == IF mode = "wallet" THEN Accounts ELSE {n.account}

\* A nonce below its target is still to be scanned, on its way to the
\* submission task, or no better than what is recorded.
Reached(n) ==
    \/ tip.sig \in ToSet(blocks)
    \/ scan.sig = tip.sig /\ n \in scan.left
    \/ \E x \in found : x.sig = tip.sig /\ x.account = n.account /\ x.raw = n.raw
    \/ \E a \in Rivals(n) : best[a] <= Adjusted(n.raw)

FoundInScan ==
    \A x \in found : [account |-> x.account, raw |-> x.raw] \in Nonces[x.sig]

BestFromScan ==
    \A a \in Accounts : best[a] \in Wanted(a) \cup {NoBest}

AllReached ==
    \A n \in Nonces[tip.sig] : Adjusted(n.raw) < Target[n.account] => Reached(n)

FInv == TypeOK /\ BlocksEnd /\ FoundInScan /\ BestFromScan /\ AllReached

\* Whatever is on its way is of a block the pool has named.
AllSeen ==
    /\ tip.sig \in seen
    /\ ToSet(blocks) \subseteq seen
    /\ scan.left # {} => scan.sig \in seen
    /\ \A x \in found \cup Sent : x.sig \in seen

\* The counter tells the current block's submissions from older ones.
Counted ==
    /\ scan.left # {} /\ scan.sig = tip.sig => scan.count = tip.count
    /\ \A x \in found : x.sig = tip.sig => x.count = tip.count
    /\ \A x \in Sent : /\ x.count <= tip.count
                       /\ x.sig = tip.sig <=> x.count = tip.count

\* Pool mode: a lane's last item has been answered, or will be sent again.
ItemHeld ==
    mode = "pool" => \A l \in Lanes :
        \/ item[l] = None \/ delayed[l]
        \/ item[l] \in settled \cup ToSet(queue[l]) \cup {sending[l]}

\* Each submission of q is greater than those before it.
Rises(q) == \A i, j \in DOMAIN q : i < j => Less(q[i], q[j])

\* Wallet mode: each submission is greater than those before it, so the stream
\* yields them all.
WalletRises ==
    mode = "wallet" =>
        /\ demux = <<>>
        /\ \A l \in Lanes :
            /\ ~delayed[l]
            /\ \A x \in ToSet(queue[l]) : Less(item[l], x)
            /\ Rises(queue[l])

\* Wallet mode: what is recorded is at least as good as what has been sent.
WalletLeast ==
    mode = "wallet" =>
        \A x \in Sent : x.sig = tip.sig => best[x.account] <= Adjusted(x.raw)

BInv ==
    /\ TypeOK /\ AllSeen /\ Counted /\ ItemHeld /\ WalletRises /\ WalletLeast
    /\ BestNotLost

-----------------------------------------------------------------------------
(* Submissions, their order, their quality. *)

LEMMA NoneIsNone ==
  ASSUME NEW x \in Submissions
  PROVE  x # None /\ x.sig \in Sigs /\ x.count \in 1 .. MaxBlocks /\ x.account \in Accounts
           /\ x.raw \in 0 .. NoBest
<1>1. x.count \in 1 .. MaxBlocks /\ None.count = 0
  BY DEF Submissions, None
<1>2. x # None
  BY <1>1, MaxBlocksAssumption
<1> QED
  BY <1>1, <1>2 DEF Submissions

\* Less is an order: it is asymmetric, and what is not related has the same
\* counter and quality.
LEMMA LessIsOrder ==
  ASSUME NEW x \in Submissions, NEW y \in Submissions
  PROVE  /\ ~Less(x, x)
         /\ Less(x, y) => ~Less(y, x)
         /\ ~Less(x, y) /\ ~Less(y, x) => x.count = y.count /\ x.raw = y.raw
         /\ ~Less(x, None) /\ Less(None, x)
<1>1. /\ x.count \in 1 .. MaxBlocks /\ y.count \in 1 .. MaxBlocks
      /\ x.raw \in 0 .. NoBest /\ y.raw \in 0 .. NoBest /\ None.count = 0
  BY NoneIsNone DEF None
<1> QED
  BY <1>1, MaxBlocksAssumption, NoBestAssumption DEF Less

LEMMA LessIsTransitive ==
  ASSUME NEW x \in Submissions, NEW y \in Submissions, NEW z \in Submissions,
         Less(x, y), Less(y, z)
  PROVE  Less(x, z)
<1>1. /\ x.count \in 1 .. MaxBlocks /\ y.count \in 1 .. MaxBlocks /\ z.count \in 1 .. MaxBlocks
      /\ x.raw \in 0 .. NoBest /\ y.raw \in 0 .. NoBest /\ z.raw \in 0 .. NoBest
  BY NoneIsNone
<1> QED
  BY <1>1, MaxBlocksAssumption, NoBestAssumption DEF Less

LEMMA AdjustedIsNat ==
  ASSUME NEW r \in 0 .. NoBest
  PROVE  Adjusted(r) \in 0 .. NoBest
<1>1. r \in Nat /\ r <= NoBest
  BY NoBestAssumption
<1>2. r \div BaseTarget \in Nat /\ r \div BaseTarget <= r
  BY <1>1, BaseTargetAssumption
<1> QED
  BY <1>1, <1>2, NoBestAssumption DEF Adjusted

LEMMA AdjustedMonotone ==
  ASSUME NEW q \in 0 .. NoBest, NEW r \in 0 .. NoBest, q <= r
  PROVE  Adjusted(q) <= Adjusted(r)
BY QuotientMonotone, BaseTargetAssumption, NoBestAssumption DEF Adjusted

LEMMA NonceType ==
  ASSUME NEW s \in Sigs, NEW n \in Nonces[s]
  PROVE  /\ n.account \in Accounts /\ n.raw \in 0 .. NoBest
         /\ n = [account |-> n.account, raw |-> n.raw]
<1>1. n \in [account : Accounts, raw : 0 .. NoBest]
  BY NoncesAssumption
<1> QED
  BY <1>1

\* The least element of a nonempty set of naturals.
LEMMA MinIsLeast ==
  ASSUME NEW T \in SUBSET Nat, T # {}
  PROVE  Min(T) \in T /\ \A y \in T : Min(T) <= y
BY LeastNat, Zenon DEF Min

LEMMA MinIs ==
  ASSUME NEW T \in SUBSET Nat, NEW m \in T, \A y \in T : m <= y
  PROVE  Min(T) = m
<1>1. Min(T) \in T /\ Min(T) <= m
  BY MinIsLeast
<1>2. m <= Min(T) /\ m \in Nat /\ Min(T) \in Nat
  BY <1>1
<1> QED
  BY <1>1, <1>2

\* A quality beats the best one if it beats that of every rival.
LEMMA BeatsRivals ==
  ASSUME TypeOK, NEW n, n.account \in Accounts, NEW v \in Nat
  PROVE  v < BestFor(n) <=> \A a \in Rivals(n) : v < best[a]
<1>1. \A a \in Accounts : best[a] \in Nat
  BY NoBestAssumption DEF TypeOK
<1>2. CASE mode = "wallet"
  <2> DEFINE T == {best[a] : a \in Accounts}
  <2>1. T \in SUBSET Nat /\ T # {}
    BY <1>1, AccountsAssumption
  <2> HIDE DEF T
  <2>2. Min(T) \in T /\ \A y \in T : Min(T) <= y
    BY <2>1, MinIsLeast
  <2>3. Min(T) \in Nat
    BY <2>1, <2>2
  <2>4. BestFor(n) = Min(T) /\ Rivals(n) = Accounts
    BY <1>2 DEF BestFor, Rivals, T
  <2>5. ASSUME v < Min(T), NEW a \in Accounts PROVE v < best[a]
    <3>1. best[a] \in T
      BY DEF T
    <3> QED
      BY <1>1, <2>2, <2>3, <2>5, <3>1
  <2>6. PICK a \in Accounts : Min(T) = best[a]
    BY <2>2 DEF T
  <2> QED
    BY <2>4, <2>5, <2>6
<1>3. CASE mode # "wallet"
  BY <1>3 DEF BestFor, Rivals
<1> QED
  BY <1>2, <1>3

-----------------------------------------------------------------------------
(* Types. *)

LEMMA LaneOf ==
  ASSUME TypeOK, NEW x \in Submissions
  PROVE  Lane(x) \in Lanes /\ x.account \in Lanes
BY NoneIsNone DEF Lane, Lanes

LEMMA InitTypes ==
  ASSUME Init
  PROVE  TypeOK
<1>1. PICK s \in Sigs : tip = [sig |-> s, count |-> 1] /\ seen = {s} /\ blocks = <<s>>
  BY DEF Init
<1>2. tip \in [sig : Sigs, count : 1 .. MaxBlocks] /\ seen \subseteq Sigs /\ blocks \in Seq(Sigs)
  BY <1>1, MaxBlocksAssumption
<1>3. /\ mode \in Modes /\ best \in [Accounts -> 0 .. NoBest]
      /\ scan \in [sig : Sigs \cup {"none"}, count : 0 .. MaxBlocks,
                 left : SUBSET [account : Accounts, raw : 0 .. NoBest]]
      /\ scan.left = {} /\ found \subseteq Submissions /\ demux \in Seq(Submissions)
      /\ settled \subseteq Submissions /\ faults \in Nat
  BY NoBestAssumption, MaxBlocksAssumption DEF Init
<1>4. /\ queue \in [Lanes -> Seq(Submissions)] /\ item \in [Lanes -> Submissions \cup {None}]
      /\ delayed \in [Lanes -> BOOLEAN] /\ sending \in [Lanes -> Submissions \cup {None}]
  BY DEF Init
<1>5. ASSUME NEW l \in Lanes
      PROVE  /\ queue[l] = <<>> /\ item[l] = None /\ sending[l] = None /\ ~delayed[l]
  BY DEF Init
<1> QED
  BY <1>2, <1>3, <1>4, <1>5, ElementsOfEmpty DEF TypeOK

LEMMA NewInfoTypes ==
  ASSUME TypeOK, NewInfo
  PROVE  TypeOK'
<1>1. PICK s \in Sigs : /\ tip' = [sig |-> s, count |-> tip.count + 1] /\ seen' = seen \cup {s}
                        /\ blocks' = Append(blocks, s)
  BY DEF NewInfo
<1>2. /\ tip.count < MaxBlocks /\ best' = [a \in Accounts |-> NoBest]
      /\ UNCHANGED <<mode, scan, found, demux, queue, item, delayed, sending, settled, faults>>
  BY DEF NewInfo, laneVars
<1>3. tip' \in [sig : Sigs, count : 1 .. MaxBlocks]
  <2>1. tip.count \in 1 .. MaxBlocks
    BY DEF TypeOK
  <2> QED
    BY <1>1, <1>2, <2>1, MaxBlocksAssumption
<1>4. seen' \subseteq Sigs /\ blocks' \in Seq(Sigs) /\ best' \in [Accounts -> 0 .. NoBest]
  BY <1>1, <1>2, NoBestAssumption DEF TypeOK
<1>5. \A x : Lane(x)' = Lane(x)
  BY <1>2 DEF Lane
<1> QED
  BY <1>2, <1>3, <1>4, <1>5 DEF TypeOK

LEMMA StartScanTypes ==
  ASSUME TypeOK, StartScan
  PROVE  TypeOK'
<1>1. /\ blocks # <<>> /\ blocks' = Tail(blocks)
      /\ scan' = [sig |-> Head(blocks), count |-> tip.count, left |-> Nonces[Head(blocks)]]
      /\ UNCHANGED <<mode, tip, seen, best, found, demux, queue, item, delayed, sending, settled,
                     faults>>
  BY DEF StartScan, chainVars, laneVars
<1>2. blocks' \in Seq(Sigs) /\ Head(blocks) \in Sigs
  BY <1>1 DEF TypeOK
<1>3. scan'.sig \in Sigs /\ scan'.count \in 1 .. MaxBlocks /\ scan'.left \subseteq Nonces[scan'.sig]
  BY <1>1, <1>2 DEF TypeOK
<1>5. scan' \in [sig : Sigs \cup {"none"}, count : 0 .. MaxBlocks,
                 left : SUBSET [account : Accounts, raw : 0 .. NoBest]]
  <2>1. tip.count \in 0 .. MaxBlocks /\ Head(blocks) \in Sigs
    BY <1>2, MaxBlocksAssumption DEF TypeOK
  <2>2. Nonces[Head(blocks)] \in SUBSET [account : Accounts, raw : 0 .. NoBest]
    BY <1>2, NoncesAssumption
  <2> QED
    BY <1>1, <2>1, <2>2
<1>4. \A x : Lane(x)' = Lane(x)
  BY <1>1 DEF Lane
<1> QED
  BY <1>1, <1>2, <1>3, <1>4, <1>5 DEF TypeOK

\* What a hasher sends is of the scan under way.
LEMMA FindStep ==
  ASSUME TypeOK, Find
  PROVE  \E n \in scan.left :
            /\ scan.sig \in Sigs /\ n \in Nonces[scan.sig]
            /\ [sig |-> scan.sig, count |-> scan.count, account |-> n.account, raw |-> n.raw]
                   \in Submissions
            /\ found' = found \cup {[sig |-> scan.sig, count |-> scan.count,
                                     account |-> n.account, raw |-> n.raw]}
            /\ scan' = [scan EXCEPT !.left = @ \ {n}]
<1>1. PICK n \in scan.left :
        /\ found' = found \cup {[sig |-> scan.sig, count |-> scan.count,
                                 account |-> n.account, raw |-> n.raw]}
        /\ scan' = [scan EXCEPT !.left = @ \ {n}]
  BY DEF Find
<1>2. scan.sig \in Sigs /\ scan.count \in 1 .. MaxBlocks /\ n \in Nonces[scan.sig]
  BY DEF TypeOK
<1>3. n.account \in Accounts /\ n.raw \in 0 .. NoBest
  BY <1>2, NonceType
<1> QED
  BY <1>1, <1>2, <1>3 DEF Submissions

LEMMA FindTypes ==
  ASSUME TypeOK, Find
  PROVE  TypeOK'
<1>1. UNCHANGED <<mode, tip, seen, best, blocks, demux, queue, item, delayed, sending, settled,
                  faults>>
  BY DEF Find, chainVars, laneVars
<1>2. PICK n \in scan.left :
        /\ found' \subseteq Submissions
        /\ scan' = [scan EXCEPT !.left = @ \ {n}]
  <2>1. found \subseteq Submissions
    BY DEF TypeOK
  <2> QED
    BY <2>1, FindStep
<1>3. scan'.left # {} => /\ scan'.sig \in Sigs /\ scan'.count \in 1 .. MaxBlocks
                         /\ scan'.left \subseteq Nonces[scan'.sig]
  BY <1>2 DEF TypeOK
<1>5. scan' \in [sig : Sigs \cup {"none"}, count : 0 .. MaxBlocks,
                 left : SUBSET [account : Accounts, raw : 0 .. NoBest]]
  BY <1>2 DEF TypeOK
<1>4. \A x : Lane(x)' = Lane(x)
  BY <1>1 DEF Lane
<1> QED
  BY <1>1, <1>2, <1>3, <1>4, <1>5 DEF TypeOK

Queues == [Lanes -> Seq(Submissions)]

\* A queue that gets x, and one that loses its head.
Got(q, l, x) == [q EXCEPT ![l] = Append(@, x)]
Lost(q, l) == [q EXCEPT ![l] = Tail(@)]

\* A lane that gets a submission has it last, the others stay as they are.
LEMMA QueueGets ==
  ASSUME NEW q \in Queues, NEW l \in Lanes, NEW x \in Submissions
  PROVE  /\ Got(q, l, x) \in Queues
         /\ Got(q, l, x)[l] = Append(q[l], x)
         /\ \A k \in Lanes \ {l} : Got(q, l, x)[k] = q[k]
BY DEF Got, Queues

\* A lane that takes its first submission keeps the rest.
LEMMA QueueLoses ==
  ASSUME NEW q \in Queues, NEW l \in Lanes, q[l] # <<>>
  PROVE  /\ Lost(q, l) \in Queues
         /\ Head(q[l]) \in Submissions
         /\ Lost(q, l)[l] = Tail(q[l])
         /\ \A k \in Lanes \ {l} : Lost(q, l)[k] = q[k]
<1>1. q[l] \in Seq(Submissions) /\ Tail(q[l]) \in Seq(Submissions) /\ Head(q[l]) \in Submissions
  BY DEF Queues
<1> QED
  BY <1>1 DEF Lost, Queues

\* The elements of the lanes' queues then.
LEMMA ElementsGot ==
  ASSUME NEW q \in Queues, NEW l \in Lanes, NEW x \in Submissions, NEW k \in Lanes, NEW y
  PROVE  y \in ToSet(Got(q, l, x)[k]) <=> y \in ToSet(q[k]) \/ (k = l /\ y = x)
<1>1. ToSet(Append(q[l], x)) = ToSet(q[l]) \cup {x}
  BY ElementsOfAppend DEF Queues
<1>2. CASE k = l
  <2>1. Got(q, l, x)[k] = Append(q[l], x) /\ q[k] = q[l]
    BY <1>2, QueueGets
  <2>2. y \in ToSet(Append(q[l], x)) <=> y \in ToSet(q[l]) \/ y = x
    BY <1>1
  <2> QED
    BY <1>2, <2>1, <2>2
<1>3. CASE k # l
  BY <1>3, QueueGets
<1> QED
  BY <1>2, <1>3

LEMMA ElementsLost ==
  ASSUME NEW q \in Queues, NEW l \in Lanes, q[l] # <<>>, NEW k \in Lanes, NEW y
  PROVE  y \in ToSet(q[k]) <=> y \in ToSet(Lost(q, l)[k]) \/ (k = l /\ y = Head(q[l]))
<1>1. ToSet(q[l]) = {Head(q[l])} \cup ToSet(Tail(q[l]))
  BY ElementsOfTail DEF Queues
<1>2. CASE k = l
  BY <1>1, <1>2, QueueLoses
<1>3. CASE k # l
  BY <1>3, QueueLoses
<1> QED
  BY <1>2, <1>3

\* What the submission task does with the nonce it takes.
Kept(x) ==
    /\ Worth(x)
    /\ best' = [best EXCEPT ![x.account] = Adjusted(x.raw)]
    /\ IF mode = "wallet"
       THEN queue' = Got(queue, "wallet", x) /\ demux' = demux
       ELSE /\ demux' = Append(demux, x)
            /\ queue' = queue

Forgotten(x) == ~Worth(x) /\ best' = best /\ demux' = demux /\ queue' = queue

LEMMA FilterStep ==
  ASSUME Filter
  PROVE  /\ \E x \in found : found' = found \ {x} /\ (Kept(x) \/ Forgotten(x))
         /\ UNCHANGED <<mode, tip, seen, blocks, scan, item, delayed, sending, settled, faults>>
BY DEF Filter, HandOver, Kept, Forgotten, Got

LEMMA FilterTypes ==
  ASSUME TypeOK, Filter
  PROVE  TypeOK'
<1>1. UNCHANGED <<mode, tip, seen, blocks, scan, item, delayed, sending, settled, faults>>
  BY FilterStep
<1>2. PICK x \in found : found' = found \ {x} /\ (Kept(x) \/ Forgotten(x))
  BY FilterStep
<1>3. x \in Submissions
  BY DEF TypeOK
<1>4. \A y : Lane(y)' = Lane(y)
  BY <1>1 DEF Lane
<1>5. best' \in [Accounts -> 0 .. NoBest] /\ demux' \in Seq(Submissions)
  <2>1. CASE Kept(x)
    <3>1. Adjusted(x.raw) \in 0 .. NoBest
      BY <1>3, NoneIsNone, AdjustedIsNat
    <3>2. best' \in [Accounts -> 0 .. NoBest]
      BY <2>1, <3>1 DEF Kept, TypeOK
    <3>3. demux' = demux \/ demux' = Append(demux, x)
      BY <2>1 DEF Kept
    <3>4. demux \in Seq(Submissions)
      BY DEF TypeOK
    <3>5. Append(demux, x) \in Seq(Submissions)
      BY <1>3, <3>4
    <3> QED
      BY <3>2, <3>3, <3>4, <3>5
  <2>2. CASE Forgotten(x)
    BY <2>2 DEF Forgotten, TypeOK
  <2> QED
    BY <1>2, <2>1, <2>2
<1>6. /\ queue' \in Queues
      /\ \A l \in Lanes : \A y \in ToSet(queue'[l]) : Lane(y) = l
  <2>1. CASE queue' = queue
    BY <2>1 DEF TypeOK, Queues
  <2>2. CASE Kept(x) /\ mode = "wallet"
    <3>1. queue' = Got(queue, "wallet", x) /\ "wallet" \in Lanes
      BY <2>2 DEF Kept, Lanes
    <3>2. queue \in Queues
      BY DEF TypeOK, Queues
    <3>3. /\ queue' \in Queues
          /\ \A k \in Lanes : \A y \in ToSet(queue'[k]) : y \in ToSet(queue[k]) \/ (k = "wallet" /\ y = x)
      BY <1>3, <3>1, <3>2, QueueGets, ElementsGot
    <3>4. Lane(x) = "wallet"
      BY <2>2 DEF Lane
    <3> QED
      BY <3>3, <3>4 DEF TypeOK
  <2> QED
    BY <1>2, <2>1, <2>2 DEF Kept, Forgotten
<1> QED
  BY <1>1, <1>2, <1>4, <1>5, <1>6 DEF TypeOK, Queues

LEMMA RouteTypes ==
  ASSUME TypeOK, Route
  PROVE  TypeOK'
<1> DEFINE x == Head(demux)
           l == Lane(x)
<1>1. /\ demux # <<>> /\ demux' = Tail(demux)
      /\ queue' = Got(queue, l, x)
      /\ UNCHANGED <<mode, tip, seen, best, blocks, scan, found, item, delayed, sending, settled,
                     faults>>
  BY DEF Route, chainVars, scanVars, Got
<1>2. x \in Submissions /\ demux' \in Seq(Submissions) /\ l \in Lanes
  <2>1. x \in Submissions /\ demux' \in Seq(Submissions)
    BY <1>1 DEF TypeOK
  <2> QED
    BY <2>1, LaneOf
<1>3. \A y : Lane(y)' = Lane(y)
  BY <1>1 DEF Lane
<1> HIDE DEF x
<1>4. queue \in Queues
  BY DEF TypeOK, Queues
<1>5. Lane(x) = l
  OBVIOUS
<1> HIDE DEF l
<1>6. /\ queue' \in Queues
      /\ \A k \in Lanes : \A y \in ToSet(queue'[k]) : y \in ToSet(queue[k]) \/ (k = l /\ y = x)
  BY <1>1, <1>2, <1>4, QueueGets, ElementsGot
<1> QED
  BY <1>1, <1>2, <1>3, <1>5, <1>6 DEF TypeOK, Queues

\* A lane's item, delay and answer, and its first submission.
LEMMA LaneTypes ==
  ASSUME TypeOK, NEW l \in Lanes
  PROVE  /\ queue \in Queues /\ queue[l] \in Seq(Submissions)
         /\ item[l] \in Submissions \cup {None} /\ sending[l] \in {None, item[l]}
         /\ item[l] # None => Lane(item[l]) = l
         /\ queue[l] # <<>> => /\ Head(queue[l]) \in Submissions /\ Lane(Head(queue[l])) = l
                               /\ Head(queue[l]) \in ToSet(queue[l])
<1>1. queue \in Queues /\ queue[l] \in Seq(Submissions)
  BY DEF TypeOK, Queues
<1>2. item[l] \in Submissions \cup {None} /\ sending[l] \in {None, item[l]}
  BY DEF TypeOK
<1>3. item[l] # None => Lane(item[l]) = l
  BY DEF TypeOK
<1>4. ASSUME queue[l] # <<>>
      PROVE  Head(queue[l]) \in Submissions /\ Head(queue[l]) \in ToSet(queue[l])
  <2>1. Head(queue[l]) \in Submissions
    BY <1>1, <1>4
  <2> QED
    BY <1>1, <1>4, <2>1, ElementsOfTail
<1>5. \A x \in ToSet(queue[l]) : Lane(x) = l
  BY DEF TypeOK
<1> QED
  BY <1>1, <1>2, <1>3, <1>4, <1>5

\* What a poll does with the first submission of its lane.
PollYields(l, h) ==
    /\ Less(item[l], h)
    /\ item' = [item EXCEPT ![l] = h]
    /\ delayed' = [delayed EXCEPT ![l] = FALSE]
    /\ sending' = [sending EXCEPT ![l] = h]

PollDelays(l, h) ==
    /\ ~Less(item[l], h) /\ ~Less(h, item[l])
    /\ delayed' = [delayed EXCEPT ![l] = TRUE]
    /\ item' = item /\ sending' = sending

PollDrops(l, h) ==
    /\ Less(h, item[l])
    /\ item' = item /\ delayed' = delayed /\ sending' = sending

LEMMA PollStep ==
  ASSUME NEW l \in Lanes, Poll(l)
  PROVE  /\ sending[l] = None /\ queue[l] # <<>> /\ queue' = Lost(queue, l)
         /\ \/ PollYields(l, Head(queue[l])) \/ PollDelays(l, Head(queue[l]))
            \/ PollDrops(l, Head(queue[l]))
         /\ UNCHANGED <<mode, tip, seen, best, blocks, scan, found, demux, settled, faults>>
BY DEF Poll, Free, Yield, Lost, PollYields, PollDelays, PollDrops, chainVars, scanVars

LEMMA PollTypes ==
  ASSUME TypeOK, NEW l \in Lanes, Poll(l)
  PROVE  TypeOK'
<1> DEFINE h == Head(queue[l])
<1>1. /\ sending[l] = None /\ queue[l] # <<>> /\ queue' = Lost(queue, l)
      /\ PollYields(l, h) \/ PollDelays(l, h) \/ PollDrops(l, h)
      /\ UNCHANGED <<mode, tip, seen, best, blocks, scan, found, demux, settled, faults>>
  BY PollStep
<1>2. h \in Submissions /\ Lane(h) = l /\ queue \in Queues /\ item[l] \in Submissions \cup {None}
  BY <1>1, LaneTypes
<1> HIDE DEF h
<1>3. /\ queue' \in Queues
      /\ \A k \in Lanes : \A y \in ToSet(queue'[k]) : y \in ToSet(queue[k])
  BY <1>1, <1>2, QueueLoses, ElementsLost
<1>4. \A y : Lane(y)' = Lane(y)
  BY <1>1 DEF Lane
<1>5. CASE PollYields(l, h)
  <2>1. /\ item' \in [Lanes -> Submissions \cup {None}] /\ delayed' \in [Lanes -> BOOLEAN]
        /\ sending' \in [Lanes -> Submissions \cup {None}]
        /\ item'[l] = h /\ ~delayed'[l] /\ sending'[l] = h
        /\ \A k \in Lanes \ {l} : /\ item'[k] = item[k] /\ delayed'[k] = delayed[k]
                                  /\ sending'[k] = sending[k]
    BY <1>2, <1>5 DEF PollYields, TypeOK
  <2> QED
    BY <1>1, <1>2, <1>3, <1>4, <2>1 DEF TypeOK, Queues
<1>6. CASE PollDelays(l, h)
  <2>1. delayed' \in [Lanes -> BOOLEAN] /\ \A k \in Lanes \ {l} : delayed'[k] = delayed[k]
    BY <1>6 DEF PollDelays, TypeOK
  <2>2. item[l] # None
    BY <1>2, <1>6, LessIsOrder DEF PollDelays
  <2>3. item' = item /\ sending' = sending
    BY <1>6 DEF PollDelays
  <2> QED
    BY <1>1, <1>2, <1>3, <1>4, <2>1, <2>2, <2>3 DEF TypeOK, Queues
<1>7. CASE PollDrops(l, h)
  BY <1>1, <1>3, <1>4, <1>7 DEF PollDrops, TypeOK, Queues
<1> QED
  BY <1>1, <1>5, <1>6, <1>7

\* The other steps of a lane: the item is sent again, or an answer comes.
LEMMA DelayEndsStep ==
  ASSUME NEW l \in Lanes, DelayEnds(l)
  PROVE  /\ sending[l] = None /\ queue[l] = <<>> /\ delayed[l]
         /\ delayed' = [delayed EXCEPT ![l] = FALSE]
         /\ sending' = [sending EXCEPT ![l] = item[l]]
         /\ UNCHANGED <<mode, tip, seen, best, blocks, scan, found, demux, queue, item, settled,
                        faults>>
BY DEF DelayEnds, Free, Yield, chainVars, scanVars

\* An answer settles the submission, has it requeued, or loses it: only in
\* wallet mode, or if the pool was busy.
LEMMA AnswerStep ==
  ASSUME NEW l \in Lanes, Answer(l)
  PROVE  /\ sending[l] # None
         /\ sending' = [sending EXCEPT ![l] = None]
         /\ UNCHANGED <<mode, tip, seen, best, blocks, scan, found, demux, item, delayed>>
         /\ \/ settled' = settled \cup {sending[l]} /\ faults' = faults /\ queue' = queue
            \/ /\ settled' = settled /\ faults' = faults + 1 /\ mode = "pool"
               /\ queue' = Got(queue, l, sending[l])
            \/ /\ settled' = settled /\ faults' = faults + 1 /\ queue' = queue
               /\ mode # "pool" \/ mode \in BusyModes
<1>1. CASE Settle(l)
  BY <1>1 DEF Settle, Free, Yield, chainVars, scanVars
<1>2. CASE Unreachable(l)
  BY <1>2 DEF Unreachable, Requeue, Free, Yield, chainVars, scanVars, Got
<1>3. CASE Busy(l)
  <2>1. queue' = queue \/ Requeue(l)
    BY <1>3 DEF Busy
  <2> QED
    BY <1>3, <2>1 DEF Busy, Requeue, Free, Yield, chainVars, scanVars, Got
<1> QED
  BY <1>1, <1>2, <1>3 DEF Answer

LEMMA DelayEndsTypes ==
  ASSUME TypeOK, NEW l \in Lanes, DelayEnds(l)
  PROVE  TypeOK'
<1>1. /\ delayed' = [delayed EXCEPT ![l] = FALSE]
      /\ sending' = [sending EXCEPT ![l] = item[l]]
      /\ UNCHANGED <<mode, tip, seen, best, blocks, scan, found, demux, queue, item, settled,
                     faults>>
  BY DelayEndsStep
<1>2. \A y : Lane(y)' = Lane(y)
  BY <1>1 DEF Lane
<1>3. /\ delayed' \in [Lanes -> BOOLEAN] /\ sending' \in [Lanes -> Submissions \cup {None}]
      /\ ~delayed'[l] /\ sending'[l] = item[l]
      /\ \A k \in Lanes \ {l} : delayed'[k] = delayed[k] /\ sending'[k] = sending[k]
  BY <1>1 DEF TypeOK
<1> QED
  BY <1>1, <1>2, <1>3 DEF TypeOK

LEMMA AnswerTypes ==
  ASSUME TypeOK, NEW l \in Lanes, Answer(l)
  PROVE  TypeOK'
<1>1. /\ sending[l] # None
      /\ sending' = [sending EXCEPT ![l] = None]
      /\ UNCHANGED <<mode, tip, seen, best, blocks, scan, found, demux, item, delayed>>
      /\ settled' \in {settled, settled \cup {sending[l]}} /\ faults' \in {faults, faults + 1}
      /\ queue' \in {queue, Got(queue, l, sending[l])}
  BY AnswerStep
<1>2. \A y : Lane(y)' = Lane(y)
  BY <1>1 DEF Lane
<1>3. /\ sending' \in [Lanes -> Submissions \cup {None}] /\ sending'[l] = None
      /\ \A k \in Lanes \ {l} : sending'[k] = sending[k]
  BY <1>1 DEF TypeOK
<1>4. sending[l] \in Submissions /\ Lane(sending[l]) = l /\ queue \in Queues
  BY <1>1, LaneTypes
<1>5. /\ queue' \in Queues
      /\ \A k \in Lanes : \A y \in ToSet(queue'[k]) :
            y \in ToSet(queue[k]) \/ (k = l /\ y = sending[l])
  BY <1>1, <1>4, QueueGets, ElementsGot
<1>6. settled' \subseteq Submissions /\ faults' \in Nat
  BY <1>1, <1>4 DEF TypeOK
<1> QED
  BY <1>1, <1>2, <1>3, <1>4, <1>5, <1>6 DEF TypeOK, Queues

LEMMA NextTypes ==
  ASSUME TypeOK, [Next]_vars
  PROVE  TypeOK'
<1>1. CASE Quiet \/ UNCHANGED vars
  <2>1. UNCHANGED <<mode, tip, seen, best, blocks, scan, found, demux, queue, item, delayed,
                    sending, settled, faults>>
    BY <1>1 DEF Quiet, vars, chainVars, scanVars, laneVars
  <2> QED
    BY <2>1 DEF TypeOK, Lane
<1>2. ASSUME NEW l \in Lanes, Poll(l) \/ DelayEnds(l) \/ Answer(l) PROVE TypeOK'
  BY <1>2, PollTypes, DelayEndsTypes, AnswerTypes
<1> QED
  BY <1>1, <1>2, NewInfoTypes, StartScanTypes, FindTypes, FilterTypes, RouteTypes DEF Next

\* Every variable keeps its type, a lane never holds another's submission, and
\* what it awaits or repeats is the last it yielded.
THEOREM SubmissionTypes == Spec => []TypeOK
<1>1. Init => TypeOK
  BY InitTypes
<1>2. TypeOK /\ [Next]_vars => TypeOK'
  BY NextTypes
<1> QED
  BY <1>1, <1>2, PTL DEF Spec

-----------------------------------------------------------------------------
(* A lane never gets worse. *)

\* No lane sends a submission after a newer or better one, whatever comes back
\* to it and in whatever order.
THEOREM LanesNeverWorse == Spec => NeverWorse
<1>1. ASSUME TypeOK, [Next]_vars, NEW l \in Lanes, sending'[l] # None
      PROVE  ~Less(sending'[l], item[l])
  <2>1. item[l] \in Submissions \cup {None} /\ sending[l] \in {None, item[l]}
    BY <1>1, LaneTypes
  <2>2. CASE sending'[l] = sending[l]
    BY <1>1, <2>1, <2>2, LessIsOrder
  <2>3. ASSUME NEW k \in Lanes, Poll(k) PROVE ~Less(sending'[l], item[l])
    <3> DEFINE h == Head(queue[k])
    <3>1. queue[k] # <<>> /\ (PollYields(k, h) \/ PollDelays(k, h) \/ PollDrops(k, h))
      BY <2>3, PollStep
    <3>2. h \in Submissions
      BY <1>1, <3>1, LaneTypes
    <3> HIDE DEF h
    <3>3. CASE PollYields(k, h) /\ k = l
      <4>1. sending'[l] = h /\ Less(item[l], h)
        BY <1>1, <3>3 DEF PollYields, TypeOK
      <4>2. ~Less(h, item[l])
        BY <2>1, <3>2, <4>1, LessIsOrder
      <4> QED
        BY <4>1, <4>2
    <3>4. CASE ~(PollYields(k, h) /\ k = l)
      <4>1. sending'[l] = sending[l]
        BY <1>1, <3>1, <3>4 DEF PollYields, PollDelays, PollDrops, TypeOK
      <4> QED
        BY <2>2, <4>1
    <3> QED
      BY <3>3, <3>4
  <2>4. ASSUME NEW k \in Lanes, DelayEnds(k) PROVE ~Less(sending'[l], item[l])
    <3>1. sending' = [sending EXCEPT ![k] = item[k]]
      BY <2>4, DelayEndsStep
    <3>2. sending'[l] \in {sending[l], item[l]}
      BY <1>1, <3>1 DEF TypeOK
    <3> QED
      BY <1>1, <2>1, <3>2, LessIsOrder
  <2>5. ASSUME NEW k \in Lanes, Answer(k) PROVE ~Less(sending'[l], item[l])
    <3>1. sending' = [sending EXCEPT ![k] = None]
      BY <2>5, AnswerStep
    <3>2. sending'[l] \in {sending[l], None}
      BY <1>1, <3>1 DEF TypeOK
    <3> QED
      BY <1>1, <2>2, <3>2
  <2>6. CASE NewInfo \/ StartScan \/ Find \/ Filter \/ Route \/ Quiet \/ UNCHANGED vars
    <3>1. sending' = sending
      BY <2>6, FilterStep DEF NewInfo, StartScan, Find, Route, Quiet, vars, laneVars
    <3> QED
      BY <2>2, <3>1
  <2> QED
    BY <1>1, <2>3, <2>4, <2>5, <2>6 DEF Next
<1>2. TypeOK /\ [Next]_vars =>
        [\A l \in Lanes : sending'[l] # None => ~Less(sending'[l], item[l])]_vars
  BY <1>1
<1> QED
  BY <1>2, SubmissionTypes, PTL DEF Spec, NeverWorse

-----------------------------------------------------------------------------
(* The best of a scan is found. *)

LEMMA InitFinds ==
  ASSUME Init, TypeOK
  PROVE  FInv
<1>1. PICK s \in Sigs : tip = [sig |-> s, count |-> 1] /\ blocks = <<s>>
  BY DEF Init
<1>2. tip.sig = s /\ blocks[Len(blocks)] = s /\ s \in ToSet(blocks)
  <2>1. Len(blocks) = 1 /\ blocks[1] = s /\ 1 \in DOMAIN blocks
    BY <1>1
  <2> QED
    BY <1>1, <2>1 DEF ToSet
<1>3. found = {} /\ \A a \in Accounts : best[a] = NoBest
  BY DEF Init
<1> QED
  BY <1>2, <1>3 DEF FInv, BlocksEnd, FoundInScan, BestFromScan, AllReached, Reached

\* A block named is the last to be scanned, and everything is to be found.
LEMMA NewInfoFinds ==
  ASSUME FInv, NewInfo
  PROVE  FInv'
<1>1. PICK s \in Sigs : tip'.sig = s /\ blocks' = Append(blocks, s)
  BY DEF NewInfo
<1>2. best' = [a \in Accounts |-> NoBest] /\ found' = found
  BY DEF NewInfo
<1>3. blocks \in Seq(Sigs) /\ TypeOK'
  BY NewInfoTypes DEF FInv, TypeOK
<1>4. blocks'[Len(blocks')] = s /\ s \in ToSet(blocks')
  <2>1. Append(blocks, s)[Len(Append(blocks, s))] = s
    BY <1>3
  <2>2. s \in ToSet(Append(blocks, s))
    BY <1>3, ElementsOfAppend
  <2> QED
    BY <1>1, <2>1, <2>2
<1>5. BlocksEnd' /\ AllReached'
  BY <1>1, <1>4 DEF BlocksEnd, AllReached, Reached
<1>6. FoundInScan' /\ BestFromScan'
  BY <1>2 DEF FInv, FoundInScan, BestFromScan
<1> QED
  BY <1>3, <1>5, <1>6 DEF FInv

\* While the block is in the channel, the scan that starts is its own or not
\* the last.
LEMMA StartScanFinds ==
  ASSUME FInv, StartScan
  PROVE  FInv'
<1>1. /\ blocks # <<>> /\ blocks' = Tail(blocks)
      /\ scan'.sig = Head(blocks) /\ scan'.left = Nonces[Head(blocks)]
      /\ UNCHANGED <<mode, tip, seen, best, found>>
  BY DEF StartScan, chainVars
<1>2. blocks \in Seq(Sigs) /\ TypeOK'
  BY StartScanTypes DEF FInv, TypeOK
<1>3. /\ blocks[Len(blocks)] = tip.sig
      /\ blocks' # <<>> => blocks'[Len(blocks')] = blocks[Len(blocks)]
      /\ blocks' = <<>> => Head(blocks) = blocks[Len(blocks)]
      /\ blocks' # <<>> => Len(blocks') \in DOMAIN blocks'
  <2>1. blocks[Len(blocks)] = tip.sig
    BY <1>1 DEF FInv, BlocksEnd
  <2>2. /\ Len(blocks) \in Nat \ {0} /\ Len(Tail(blocks)) = Len(blocks) - 1
        /\ Tail(blocks) \in Seq(Sigs)
        /\ \A i \in 1 .. Len(blocks) - 1 : Tail(blocks)[i] = blocks[i + 1]
        /\ Head(blocks) = blocks[1] /\ DOMAIN Tail(blocks) = 1 .. Len(blocks) - 1
    BY <1>1, <1>2
  <2>3. CASE Len(blocks) = 1
    <3>1. Tail(blocks) = <<>>
      BY <2>2, <2>3
    <3> QED
      BY <1>1, <2>1, <2>2, <2>3, <3>1
  <2>4. CASE Len(blocks) # 1
    <3>1. Tail(blocks) # <<>> /\ Len(blocks) - 1 \in 1 .. Len(blocks) - 1
      <4>1. Len(Tail(blocks)) # 0 /\ Len(blocks) - 1 \in 1 .. Len(blocks) - 1
        BY <2>2, <2>4
      <4>2. Len(<<>>) = 0
        OBVIOUS
      <4> QED
        BY <4>1, <4>2
    <3>2. Tail(blocks)[Len(blocks) - 1] = blocks[(Len(blocks) - 1) + 1]
      BY <2>2, <3>1
    <3> QED
      BY <1>1, <2>1, <2>2, <3>1, <3>2
  <2> QED
    BY <2>3, <2>4
<1>4. BlocksEnd'
  BY <1>1, <1>3 DEF BlocksEnd
<1>5. tip'.sig \in ToSet(blocks') \/ (scan'.sig = tip'.sig /\ scan'.left = Nonces[tip'.sig])
  BY <1>1, <1>3 DEF ToSet
<1>6. AllReached'
  BY <1>5 DEF AllReached, Reached
<1>7. FoundInScan' /\ BestFromScan'
  BY <1>1 DEF FInv, FoundInScan, BestFromScan, Wanted
<1> QED
  BY <1>2, <1>4, <1>6, <1>7 DEF FInv

LEMMA FindFinds ==
  ASSUME FInv, Find
  PROVE  FInv'
<1> DEFINE x(n) == [sig |-> scan.sig, count |-> scan.count, account |-> n.account, raw |-> n.raw]
<1>1. UNCHANGED <<mode, tip, seen, best, blocks>>
  BY DEF Find, chainVars
<1>2. TypeOK /\ TypeOK'
  BY FindTypes DEF FInv
<1>3. PICK n \in scan.left :
        /\ scan.sig \in Sigs /\ n \in Nonces[scan.sig]
        /\ found' = found \cup {x(n)} /\ scan' = [scan EXCEPT !.left = @ \ {n}]
  BY <1>2, FindStep
<1>4. [account |-> x(n).account, raw |-> x(n).raw] \in Nonces[x(n).sig]
  BY <1>3, NonceType
<1>5. FoundInScan'
  BY <1>3, <1>4 DEF FInv, FoundInScan
<1>6. scan'.sig = scan.sig /\ scan'.left = scan.left \ {n}
  BY <1>2, <1>3 DEF TypeOK
<1>7. ASSUME NEW m \in Nonces[tip.sig], Adjusted(m.raw) < Target[m.account]
      PROVE  Reached(m)'
  <2>1. Reached(m)
    BY <1>7 DEF FInv, AllReached
  <2>2. CASE m = n /\ scan.sig = tip.sig
    <3>1. x(n) \in found' /\ x(n).sig = tip'.sig /\ x(n).account = m.account /\ x(n).raw = m.raw
      BY <1>1, <1>3, <2>2
    <3> QED
      BY <3>1 DEF Reached
  <2>3. CASE ~(m = n /\ scan.sig = tip.sig)
    BY <1>1, <1>3, <1>6, <2>1, <2>3 DEF Reached, Rivals
  <2> QED
    BY <2>2, <2>3
<1>8. BlocksEnd' /\ BestFromScan' /\ AllReached'
  BY <1>1, <1>7 DEF FInv, BlocksEnd, BestFromScan, Wanted, AllReached
<1> QED
  BY <1>2, <1>5, <1>8 DEF FInv

\* A nonce the task forgets is no better than what is recorded; a quality that
\* is recorded falls.
LEMMA FilterFinds ==
  ASSUME FInv, Filter
  PROVE  FInv'
<1>1. UNCHANGED <<mode, tip, seen, blocks, scan>>
  BY FilterStep
<1>2. PICK x \in found : found' = found \ {x} /\ (Kept(x) \/ Forgotten(x))
  BY FilterStep
<1>3. TypeOK /\ TypeOK' /\ x \in Submissions
  BY FilterTypes DEF FInv, TypeOK
<1>4. /\ x.account \in Accounts /\ x.raw \in 0 .. NoBest /\ Adjusted(x.raw) \in Nat
      /\ \A a \in Accounts : best[a] \in Nat /\ best'[a] \in Nat
  <2>1. x.account \in Accounts /\ x.raw \in 0 .. NoBest
    BY <1>3, NoneIsNone
  <2>2. Adjusted(x.raw) \in Nat
    BY <2>1, AdjustedIsNat, NoBestAssumption
  <2>3. best \in [Accounts -> 0 .. NoBest] /\ best' \in [Accounts -> 0 .. NoBest]
    BY <1>3 DEF TypeOK
  <2> QED
    BY <2>1, <2>2, <2>3, NoBestAssumption
<1>5. Adjusted(x.raw) < BestFor(x) <=> \A a \in Rivals(x) : Adjusted(x.raw) < best[a]
  BY <1>3, <1>4, BeatsRivals
<1>6. x.account \in Rivals(x) /\ Rivals(x) \subseteq Accounts
  BY <1>4 DEF Rivals
<1>7. \A a \in Accounts : best'[a] <= best[a]
  <2>1. CASE Kept(x)
    <3>1. Adjusted(x.raw) < best[x.account] /\ best' = [best EXCEPT ![x.account] = Adjusted(x.raw)]
      BY <1>5, <1>6, <2>1 DEF Kept, Worth
    <3>2. best \in [Accounts -> 0 .. NoBest]
      BY <1>3 DEF TypeOK
    <3>3. \A a \in Accounts : best'[a] = IF a = x.account THEN Adjusted(x.raw) ELSE best[a]
      BY <3>1, <3>2
    <3> QED
      BY <1>4, <3>1, <3>3
  <2>2. CASE Forgotten(x)
    BY <1>4, <2>2 DEF Forgotten
  <2> QED
    BY <1>2, <2>1, <2>2
<1>8. ASSUME x.sig = tip.sig, Adjusted(x.raw) < Target[x.account]
      PROVE  \E a \in Rivals(x) : best'[a] <= Adjusted(x.raw)
  <2>1. CASE Kept(x)
    <3>1. best'[x.account] = Adjusted(x.raw)
      BY <1>3, <1>4, <2>1 DEF Kept, TypeOK
    <3> QED
      BY <1>4, <1>6, <3>1
  <2>2. CASE Forgotten(x)
    <3>1. ~(Adjusted(x.raw) < BestFor(x)) /\ best' = best
      BY <1>8, <2>2 DEF Forgotten, Worth
    <3>2. PICK a \in Rivals(x) : ~(Adjusted(x.raw) < best[a])
      BY <1>5, <3>1
    <3>3. best'[a] <= Adjusted(x.raw)
      BY <1>4, <1>6, <3>1, <3>2
    <3> QED
      BY <3>3
  <2> QED
    BY <1>2, <2>1, <2>2
<1>9. ASSUME NEW n \in Nonces[tip.sig], Adjusted(n.raw) < Target[n.account]
      PROVE  Reached(n)'
  <2>1. Reached(n) /\ n.account \in Accounts /\ n.raw \in 0 .. NoBest
    <3>1. tip.sig \in Sigs
      BY <1>3 DEF TypeOK
    <3> QED
      BY <1>9, <3>1, NonceType DEF FInv, AllReached
  <2>2. CASE tip.sig \in ToSet(blocks) \/ (scan.sig = tip.sig /\ n \in scan.left)
    BY <1>1, <2>2 DEF Reached
  <2>3. ASSUME NEW y \in found, y.sig = tip.sig, y.account = n.account, y.raw = n.raw
        PROVE  Reached(n)'
    <3>1. CASE y = x
      <4>1. PICK a \in Rivals(x) : best'[a] <= Adjusted(x.raw)
        BY <1>8, <1>9, <2>3, <3>1
      <4>2. a \in Rivals(n)' /\ best'[a] <= Adjusted(n.raw)
        BY <1>1, <2>3, <3>1, <4>1 DEF Rivals
      <4> QED
        BY <4>2 DEF Reached
    <3>2. CASE y # x
      BY <1>1, <1>2, <2>3, <3>2 DEF Reached
    <3> QED
      BY <3>1, <3>2
  <2>4. ASSUME NEW a \in Rivals(n), best[a] <= Adjusted(n.raw)
        PROVE  Reached(n)'
    <3>1. a \in Accounts /\ Adjusted(n.raw) \in Nat
      BY <2>1, AdjustedIsNat, NoBestAssumption DEF Rivals
    <3>2. best'[a] <= Adjusted(n.raw)
      BY <1>4, <1>7, <2>4, <3>1
    <3> QED
      BY <1>1, <3>2 DEF Reached, Rivals
  <2> QED
    BY <2>1, <2>2, <2>3, <2>4 DEF Reached
<1>10. ASSUME NEW a \in Accounts PROVE best'[a] \in Wanted(a)' \cup {NoBest}
  <2>1. best[a] \in Wanted(a) \cup {NoBest} /\ Wanted(a)' = Wanted(a)
    BY <1>1 DEF FInv, BestFromScan, Wanted
  <2>2. CASE Kept(x) /\ a = x.account
    <3> DEFINE n == [account |-> x.account, raw |-> x.raw]
    <3>1. n \in Nonces[tip.sig] /\ Adjusted(n.raw) < Target[a] /\ n.account = a
      BY <2>2 DEF Kept, Worth, FInv, FoundInScan
    <3>2. best'[a] = Adjusted(n.raw)
      BY <1>3, <1>4, <2>2 DEF Kept, TypeOK
    <3>3. Adjusted(n.raw) \in Wanted(a)
      BY <3>1 DEF Wanted
    <3> QED
      BY <2>1, <3>2, <3>3
  <2>3. CASE ~(Kept(x) /\ a = x.account)
    <3>1. best'[a] = best[a]
      BY <1>2, <1>3, <2>3 DEF Kept, Forgotten, TypeOK
    <3> QED
      BY <2>1, <3>1
  <2> QED
    BY <2>2, <2>3
<1>11. BlocksEnd' /\ FoundInScan'
  BY <1>1, <1>2 DEF FInv, BlocksEnd, FoundInScan
<1>12. BestFromScan' /\ AllReached'
  BY <1>1, <1>9, <1>10 DEF BestFromScan, AllReached
<1> QED
  BY <1>3, <1>11, <1>12 DEF FInv

LEMMA NextFinds ==
  ASSUME FInv, [Next]_vars
  PROVE  FInv'
<1>1. ASSUME UNCHANGED <<mode, tip, best, blocks, scan, found>>, TypeOK' PROVE FInv'
  BY <1>1 DEF FInv, BlocksEnd, FoundInScan, BestFromScan, AllReached, Reached, Rivals, Wanted
<1>2. TypeOK'
  BY NextTypes DEF FInv
<1>3. ASSUME NEW l \in Lanes, Poll(l) \/ DelayEnds(l) \/ Answer(l) PROVE FInv'
  BY <1>1, <1>2, <1>3, PollStep, DelayEndsStep, AnswerStep
<1>4. CASE Route \/ Quiet \/ UNCHANGED vars
  BY <1>1, <1>2, <1>4 DEF Route, Quiet, vars, chainVars, scanVars
<1> QED
  BY <1>3, <1>4, NewInfoFinds, StartScanFinds, FindFinds, FilterFinds DEF Next

\* Every nonce below its target is still to be scanned or looked at, or is no
\* better than what is recorded; what is recorded was found by the scan.
THEOREM FindsInvariant == Spec => []FInv
<1>1. Init => FInv
  BY InitTypes, InitFinds
<1>2. FInv /\ [Next]_vars => FInv'
  BY NextFinds
<1> QED
  BY <1>1, <1>2, PTL DEF Spec

LEMMA WantedIsNat ==
  ASSUME TypeOK, NEW a \in Accounts
  PROVE  Wanted(a) \in SUBSET (0 .. NoBest)
<1>1. tip.sig \in Sigs
  BY DEF TypeOK
<1>2. ASSUME NEW n \in Nonces[tip.sig] PROVE Adjusted(n.raw) \in 0 .. NoBest
  BY <1>1, NonceType, AdjustedIsNat
<1> QED
  BY <1>2 DEF Wanted

\* Once everything found has been looked at, the best of each account (of the
\* wallet) is the best the scan of the block has found below the target.
THEOREM BestIsFound == Spec => []FindsBest
<1>1. ASSUME FInv, blocks = <<>>, scan.left = {}, found = {}, NEW a \in Accounts,
             NEW n \in Nonces[tip.sig], n.account = a, Adjusted(n.raw) < Target[a]
      PROVE  \E b \in Rivals(n) : best[b] <= Adjusted(n.raw)
  BY <1>1, ElementsOfEmpty DEF FInv, AllReached, Reached
<1>2. ASSUME FInv, blocks = <<>>, scan.left = {}, found = {}, mode = "pool", NEW a \in Accounts
      PROVE  best[a] = Min(Wanted(a) \cup {NoBest})
  <2> DEFINE T == Wanted(a) \cup {NoBest}
  <2>1. T \in SUBSET Nat /\ best[a] \in T /\ best[a] \in 0 .. NoBest
    BY <1>2, WantedIsNat, NoBestAssumption DEF FInv, BestFromScan, TypeOK
  <2>2. ASSUME NEW y \in T PROVE best[a] <= y
    <3>1. CASE y = NoBest
      BY <2>1, <3>1, NoBestAssumption
    <3>2. CASE y \in Wanted(a)
      <4>1. PICK n \in Nonces[tip.sig] :
              n.account = a /\ Adjusted(n.raw) < Target[a] /\ y = Adjusted(n.raw)
        BY <3>2 DEF Wanted
      <4> QED
        BY <1>1, <1>2, <4>1 DEF Rivals
    <3> QED
      BY <2>2, <3>1, <3>2
  <2> HIDE DEF T
  <2>3. Min(T) = best[a]
    BY <2>1, <2>2, MinIs
  <2> QED
    BY <2>3 DEF T
<1>3. ASSUME FInv, blocks = <<>>, scan.left = {}, found = {}, mode = "wallet"
      PROVE  Min({best[a] : a \in Accounts}) =
                Min((UNION {Wanted(a) : a \in Accounts}) \cup {NoBest})
  <2> DEFINE B == {best[a] : a \in Accounts}
             T == (UNION {Wanted(a) : a \in Accounts}) \cup {NoBest}
  <2>1. \A a \in Accounts : best[a] \in 0 .. NoBest
    BY <1>3 DEF FInv, TypeOK
  <2>2. B \in SUBSET Nat /\ B # {}
    BY <2>1, AccountsAssumption, NoBestAssumption
  <2>3. \A a \in Accounts : Wanted(a) \in SUBSET (0 .. NoBest)
    BY <1>3, WantedIsNat DEF FInv
  <2>4. T \in SUBSET Nat
    BY <2>3, NoBestAssumption
  <2>5. B \subseteq T
    BY <1>3 DEF FInv, BestFromScan
  <2>6. ASSUME NEW y \in T PROVE \E v \in B : v <= y
    <3>1. CASE y = NoBest
      BY <2>1, <3>1, AccountsAssumption, NoBestAssumption
    <3>2. CASE y # NoBest
      <4>1. PICK a \in Accounts : y \in Wanted(a)
        BY <2>6, <3>2
      <4>2. PICK n \in Nonces[tip.sig] :
              n.account = a /\ Adjusted(n.raw) < Target[a] /\ y = Adjusted(n.raw)
        BY <4>1 DEF Wanted
      <4>3. \E b \in Rivals(n) : best[b] <= y
        BY <1>1, <1>3, <4>2
      <4> QED
        BY <1>3, <4>3 DEF Rivals
    <3> QED
      BY <3>1, <3>2
  <2> HIDE DEF B, T
  <2>7. Min(B) \in B /\ \A v \in B : Min(B) <= v
    BY <2>2, MinIsLeast
  <2>8. ASSUME NEW y \in T PROVE Min(B) <= y
    <3>1. PICK v \in B : v <= y
      BY <2>6
    <3>2. Min(B) \in Nat /\ v \in Nat /\ y \in Nat /\ Min(B) <= v
      BY <2>2, <2>4, <2>7
    <3> QED
      BY <3>1, <3>2
  <2>9. Min(T) = Min(B)
    BY <2>4, <2>5, <2>7, <2>8, MinIs
  <2> QED
    BY <2>9 DEF B, T
<1>4. FInv => FindsBest
  <2>1. SUFFICES ASSUME FInv, blocks = <<>>, scan.left = {}, found = {}
                 PROVE  IF mode = "pool"
                        THEN \A a \in Accounts : best[a] = Min(Wanted(a) \cup {NoBest})
                        ELSE Min({best[a] : a \in Accounts}) =
                                Min((UNION {Wanted(a) : a \in Accounts}) \cup {NoBest})
    BY DEF FindsBest
  <2>2. mode \in {"pool", "wallet"}
    BY <2>1, ModesAssumption DEF FInv, TypeOK
  <2>3. CASE mode = "pool"
    BY <1>2, <2>1, <2>3
  <2>4. CASE mode = "wallet"
    <3>1. mode # "pool"
      BY <2>4
    <3> QED
      BY <1>3, <2>1, <2>4, <3>1
  <2> QED
    BY <2>2, <2>3, <2>4
<1> QED
  BY <1>4, FindsInvariant, PTL

-----------------------------------------------------------------------------
(* The best is not lost, by a pool that returns to no block and is not busy. *)

Steady == ~MayFlip /\ "pool" \notin BusyModes

LEMMA RisesOfAppend ==
  ASSUME NEW q \in Seq(Submissions), NEW x \in Submissions, Rises(q),
         \A y \in ToSet(q) : Less(y, x)
  PROVE  Rises(Append(q, x))
<1>1. /\ DOMAIN Append(q, x) = 1 .. Len(q) + 1 /\ DOMAIN q = 1 .. Len(q) /\ Len(q) \in Nat
      /\ \A i \in 1 .. Len(q) : Append(q, x)[i] = q[i]
      /\ Append(q, x)[Len(q) + 1] = x
  OBVIOUS
<1>2. ASSUME NEW i \in 1 .. Len(q) + 1, NEW j \in 1 .. Len(q) + 1, i < j
      PROVE  Less(Append(q, x)[i], Append(q, x)[j])
  <2>1. i \in 1 .. Len(q)
    BY <1>1, <1>2
  <2>2. CASE j = Len(q) + 1
    BY <1>1, <2>1, <2>2 DEF ToSet
  <2>3. CASE j # Len(q) + 1
    <3>1. j \in 1 .. Len(q)
      BY <1>1, <2>3
    <3> QED
      BY <1>1, <1>2, <2>1, <3>1 DEF Rises
  <2> QED
    BY <2>2, <2>3
<1> QED
  BY <1>1, <1>2 DEF Rises

LEMMA RisesOfTail ==
  ASSUME NEW q \in Seq(Submissions), q # <<>>, Rises(q)
  PROVE  Rises(Tail(q)) /\ \A y \in ToSet(Tail(q)) : Less(Head(q), y)
<1>1. /\ Len(q) \in Nat \ {0} /\ DOMAIN q = 1 .. Len(q) /\ Head(q) = q[1]
      /\ DOMAIN Tail(q) = 1 .. Len(q) - 1
      /\ \A i \in 1 .. Len(q) - 1 : Tail(q)[i] = q[i + 1]
  OBVIOUS
<1>2. \A i \in 1 .. Len(q) - 1 : i + 1 \in 1 .. Len(q) /\ 1 \in 1 .. Len(q) /\ 1 < i + 1
  BY <1>1
<1>3. ASSUME NEW i \in 1 .. Len(q) - 1, NEW j \in 1 .. Len(q) - 1, i < j
      PROVE  Less(Tail(q)[i], Tail(q)[j])
  <2>1. i + 1 < j + 1
    BY <1>3
  <2> QED
    BY <1>1, <1>2, <2>1 DEF Rises
<1>4. ASSUME NEW y \in ToSet(Tail(q)) PROVE Less(Head(q), y)
  <2>1. PICK i \in 1 .. Len(q) - 1 : y = Tail(q)[i]
    BY <1>1 DEF ToSet
  <2> QED
    BY <1>1, <1>2, <2>1 DEF Rises
<1> QED
  BY <1>1, <1>3, <1>4 DEF Rises

\* What has been sent, and what is underway, lane by lane.
LEMMA SentIs ==
  ASSUME NEW x
  PROVE  x \in Sent <=> \/ x \in ToSet(demux)
                        \/ \E l \in Lanes : x \in ToSet(queue[l]) \/ (x = item[l] /\ x # None)
BY DEF Sent, Queued

LEMMA UnderwayIs ==
  ASSUME NEW x
  PROVE  x \in Underway <=>
            \/ x \in settled \/ x \in ToSet(demux)
            \/ \E l \in Lanes : \/ x \in ToSet(queue[l]) \/ (x = sending[l] /\ x # None)
                                \/ (delayed[l] /\ x = item[l])
BY DEF Underway

LEMMA SentTypes ==
  ASSUME TypeOK
  PROVE  Sent \subseteq Submissions
<1>1. \A l \in Lanes : ToSet(queue[l]) \subseteq Submissions /\ item[l] \in Submissions \cup {None}
  BY ElementsInside DEF TypeOK
<1>2. ToSet(demux) \subseteq Submissions
  BY ElementsInside DEF TypeOK
<1> QED
  BY <1>1, <1>2, SentIs

\* Steps that send at most what was found for the current block.
LEMMA CountsKept ==
  ASSUME TypeOK, AllSeen, Counted, UNCHANGED <<tip, seen, blocks, scan>>, found' \subseteq found,
         \A x \in Sent' : x \in Sent \/ (x \in found /\ x.sig = tip.sig)
  PROVE  AllSeen' /\ Counted'
<1>1. tip.count \in Nat
  BY MaxBlocksAssumption DEF TypeOK
<1>2. AllSeen'
  BY DEF AllSeen
<1>3. \A x \in Sent' : x.count <= tip.count /\ (x.sig = tip.sig <=> x.count = tip.count)
  BY <1>1 DEF Counted
<1> QED
  BY <1>2, <1>3 DEF Counted

\* Steps that record no quality.
LEMMA StillUnderway ==
  ASSUME BestNotLost, UNCHANGED <<mode, tip, best>>, faults' = 0 => faults = 0,
         ASSUME NEW x \in Underway, NEW a \in Accounts, IsBest(x, a), mode = "pool" \/ faults' = 0
         PROVE  \E y \in Underway' : IsBest(y, a)
  PROVE  BestNotLost'
<1>1. \A y, a : IsBest(y, a)' <=> IsBest(y, a)
  BY DEF IsBest
<1> QED
  BY <1>1 DEF BestNotLost

LEMMA InitNotLost ==
  ASSUME Init, TypeOK
  PROVE  BInv
<1>1. Sent = {}
  BY SentIs, ElementsOfEmpty DEF Init
<1>2. AllSeen /\ Counted
  BY <1>1, ElementsOfEmpty DEF Init, AllSeen, Counted, ToSet
<1>3. ItemHeld /\ BestNotLost
  BY DEF Init, ItemHeld, BestNotLost
<1>4. WalletRises /\ WalletLeast
  BY <1>1, ElementsOfEmpty DEF Init, WalletRises, WalletLeast, Rises
<1> QED
  BY <1>2, <1>3, <1>4 DEF BInv

LEMMA NewInfoNotLost ==
  ASSUME Steady, BInv, NewInfo
  PROVE  BInv'
<1>1. PICK s \in Sigs \ seen :
        /\ tip' = [sig |-> s, count |-> tip.count + 1] /\ seen' = seen \cup {s}
        /\ blocks' = Append(blocks, s)
  BY DEF NewInfo, Steady
<1>2. /\ best' = [a \in Accounts |-> NoBest]
      /\ UNCHANGED <<mode, scan, found, demux, queue, item, delayed, sending, settled, faults>>
  BY DEF NewInfo, laneVars
<1>3. TypeOK /\ TypeOK' /\ tip.count \in Nat
  BY NewInfoTypes, MaxBlocksAssumption DEF BInv, TypeOK
<1>4. Sent' = Sent
  BY <1>2 DEF Sent
<1>5. ToSet(blocks') = ToSet(blocks) \cup {s}
  BY <1>1, <1>3, ElementsOfAppend DEF TypeOK
<1>6. AllSeen'
  BY <1>1, <1>2, <1>4, <1>5 DEF BInv, AllSeen
<1>7. ASSUME NEW x \in Sent PROVE x.count <= tip'.count /\ x.count # tip'.count /\ x.sig # tip'.sig
  <2>1. x.count <= tip.count /\ x.sig \in seen /\ x.count \in Int
    <3>1. x \in Submissions
      BY <1>3, SentTypes
    <3>2. x.count \in 1 .. MaxBlocks
      BY <3>1, NoneIsNone
    <3> QED
      BY <3>2 DEF BInv, Counted, AllSeen
  <2>2. tip'.count = tip.count + 1 /\ tip'.sig = s
    BY <1>1
  <2> QED
    BY <1>3, <2>1, <2>2
<1>8. Counted'
  <2>1. tip'.sig = s
    BY <1>1
  <2>2. scan'.left # {} => scan'.sig # s
    BY <1>2 DEF BInv, AllSeen
  <2>3. \A x \in found' : x.sig # s
    BY <1>2 DEF BInv, AllSeen
  <2> QED
    BY <1>4, <1>7, <2>1, <2>2, <2>3 DEF Counted
<1>9. ItemHeld' /\ WalletRises'
  BY <1>2 DEF BInv, ItemHeld, WalletRises
<1>10. WalletLeast'
  BY <1>4, <1>7 DEF WalletLeast
<1>11. BestNotLost'
  BY <1>2 DEF BestNotLost
<1> QED
  BY <1>3, <1>6, <1>8, <1>9, <1>10, <1>11 DEF BInv

LEMMA StartScanNotLost ==
  ASSUME BInv, StartScan
  PROVE  BInv'
<1>1. /\ blocks # <<>> /\ blocks' = Tail(blocks)
      /\ scan'.sig = Head(blocks) /\ scan'.count = tip.count
      /\ UNCHANGED <<mode, tip, seen, best, found, demux, queue, item, delayed, sending, settled,
                     faults>>
  BY DEF StartScan, chainVars, laneVars
<1>2. TypeOK' /\ blocks \in Seq(Sigs)
  BY StartScanTypes DEF BInv, TypeOK
<1>3. Sent' = Sent /\ Underway' = Underway
  BY <1>1 DEF Sent, Underway
<1>4. ToSet(blocks) = {Head(blocks)} \cup ToSet(blocks')
  BY <1>1, <1>2, ElementsOfTail
<1>5. AllSeen' /\ Counted'
  BY <1>1, <1>3, <1>4 DEF BInv, AllSeen, Counted
<1>6. ItemHeld' /\ WalletRises' /\ WalletLeast' /\ BestNotLost'
  BY <1>1, <1>3 DEF BInv, ItemHeld, WalletRises, WalletLeast, BestNotLost, IsBest
<1> QED
  BY <1>2, <1>5, <1>6 DEF BInv

LEMMA FindNotLost ==
  ASSUME BInv, Find
  PROVE  BInv'
<1>1. UNCHANGED <<mode, tip, seen, best, blocks, demux, queue, item, delayed, sending, settled,
                  faults>>
  BY DEF Find, chainVars, laneVars
<1>2. TypeOK /\ TypeOK'
  BY FindTypes DEF BInv
<1>3. PICK n \in scan.left :
        /\ found' = found \cup {[sig |-> scan.sig, count |-> scan.count,
                                 account |-> n.account, raw |-> n.raw]}
        /\ scan' = [scan EXCEPT !.left = @ \ {n}]
  BY <1>2, FindStep
<1>4. Sent' = Sent /\ Underway' = Underway
  BY <1>1 DEF Sent, Underway
<1>5. scan'.sig = scan.sig /\ scan'.count = scan.count /\ scan.left # {}
  BY <1>2, <1>3 DEF TypeOK
<1>6. \A x \in found' : x \in found \/ (x.sig = scan.sig /\ x.count = scan.count)
  BY <1>3
<1>7. AllSeen' /\ Counted'
  BY <1>1, <1>4, <1>5, <1>6 DEF BInv, AllSeen, Counted
<1>8. ItemHeld' /\ WalletRises' /\ WalletLeast' /\ BestNotLost'
  BY <1>1, <1>4 DEF BInv, ItemHeld, WalletRises, WalletLeast, BestNotLost, IsBest
<1> QED
  BY <1>2, <1>7, <1>8 DEF BInv

\* In wallet mode, what is kept is greater than everything sent before.
LEMMA KeptIsGreater ==
  ASSUME BInv, NEW x \in found, Worth(x), mode = "wallet", NEW y \in Sent
  PROVE  Less(y, x)
<1>1. x \in Submissions /\ y \in Submissions /\ tip.count \in Nat
  BY SentTypes, MaxBlocksAssumption DEF BInv, TypeOK
<1>2. x.count = tip.count /\ y.count <= tip.count
  BY DEF BInv, Worth, Counted
<1>3. /\ x.account \in Accounts /\ y.account \in Accounts /\ x.raw \in 0 .. NoBest
      /\ y.raw \in 0 .. NoBest /\ y.count \in Int
      /\ Adjusted(x.raw) \in Nat /\ Adjusted(y.raw) \in Nat
  <2>1. /\ x.account \in Accounts /\ y.account \in Accounts /\ x.raw \in 0 .. NoBest
        /\ y.raw \in 0 .. NoBest /\ y.count \in Int
    BY <1>1, NoneIsNone
  <2> QED
    BY <2>1, AdjustedIsNat, NoBestAssumption
<1>4. CASE y.count # tip.count
  BY <1>1, <1>2, <1>3, <1>4 DEF Less
<1>5. CASE y.count = tip.count
  <2>1. y.sig = tip.sig /\ best[y.account] <= Adjusted(y.raw)
    BY <1>5 DEF BInv, Counted, WalletLeast
  <2>2. Adjusted(x.raw) < best[y.account]
    BY <1>3, BeatsRivals DEF BInv, Worth, Rivals
  <2>3. best[y.account] \in Nat
    BY <1>3, NoBestAssumption DEF BInv, TypeOK
  <2>4. Adjusted(x.raw) < Adjusted(y.raw)
    BY <1>3, <2>1, <2>2, <2>3
  <2>5. ~(y.raw <= x.raw)
    BY <1>3, <2>4, AdjustedMonotone
  <2> QED
    BY <1>2, <1>3, <1>5, <2>5, NoBestAssumption DEF Less
<1> QED
  BY <1>4, <1>5

\* The lane a kept nonce goes to.
LEMMA KeptGoesTo ==
  ASSUME TypeOK, NEW x \in Submissions, Kept(x)
  PROVE  \/ mode = "wallet" /\ "wallet" \in Lanes /\ queue' = Got(queue, "wallet", x) /\ demux' = demux
         \/ mode # "wallet" /\ queue' = queue /\ ToSet(demux') = ToSet(demux) \cup {x}
<1>1. CASE mode = "wallet"
  BY <1>1 DEF Kept, Lanes
<1>2. CASE mode # "wallet"
  <2>1. demux' = Append(demux, x) /\ queue' = queue /\ demux \in Seq(Submissions)
    BY <1>2 DEF Kept, TypeOK
  <2> QED
    BY <1>2, <2>1, ElementsOfAppend
<1> QED
  BY <1>1, <1>2

LEMMA KeptNotLost ==
  ASSUME BInv, NEW x \in found, Kept(x), found' = found \ {x}, TypeOK',
         UNCHANGED <<mode, tip, seen, blocks, scan, item, delayed, sending, settled, faults>>
  PROVE  BInv'
<1>1. x \in Submissions /\ TypeOK /\ queue \in Queues /\ x.sig = tip.sig
  BY DEF BInv, TypeOK, Queues, Kept, Worth
<1>2. x.account \in Accounts /\ Adjusted(x.raw) \in Nat
  BY <1>1, NoneIsNone, AdjustedIsNat, NoBestAssumption
<1>3. /\ \A l \in Lanes : \A y : y \in ToSet(queue'[l]) <=>
            y \in ToSet(queue[l]) \/ (mode = "wallet" /\ l = "wallet" /\ y = x)
      /\ \A y : y \in ToSet(demux') <=> y \in ToSet(demux) \/ (mode # "wallet" /\ y = x)
      /\ mode = "wallet" => "wallet" \in Lanes /\ demux' = demux /\ queue' = Got(queue, "wallet", x)
  BY <1>1, KeptGoesTo, ElementsGot
<1>4. \A y : y \in Sent' <=> y \in Sent \/ y = x
  <2>1. ASSUME NEW y
        PROVE  y \in Sent' <=> \/ y \in ToSet(demux')
                               \/ \E l \in Lanes : \/ y \in ToSet(queue'[l])
                                                   \/ (y = item[l] /\ y # None)
    BY DEF Sent, Queued
  <2> QED
    BY <1>3, <2>1, SentIs
<1>5. /\ \A y \in Underway : y \in Underway'
      /\ x \in Underway'
  <2>1. ASSUME NEW y
        PROVE  y \in Underway' <=>
                 \/ y \in settled \/ y \in ToSet(demux')
                 \/ \E l \in Lanes : \/ y \in ToSet(queue'[l]) \/ (y = sending[l] /\ y # None)
                                     \/ (delayed[l] /\ y = item[l])
    BY DEF Underway
  <2> QED
    BY <1>3, <2>1, UnderwayIs
<1>6. AllSeen' /\ Counted'
  BY <1>1, <1>4, CountsKept DEF BInv
<1>7. ItemHeld'
  BY <1>3 DEF BInv, ItemHeld
<1>8. /\ best'[x.account] = Adjusted(x.raw)
      /\ \A a \in Accounts \ {x.account} : best'[a] = best[a]
      /\ best[x.account] \in Nat
  BY <1>1, <1>2, NoBestAssumption DEF Kept, TypeOK
<1>9. WalletRises'
  <2>1. SUFFICES ASSUME mode = "wallet"
                 PROVE  /\ demux' = <<>>
                        /\ \A l \in Lanes : /\ ~delayed[l]
                                            /\ \A y \in ToSet(queue'[l]) : Less(item[l], y)
                                            /\ Rises(queue'[l])
    BY DEF WalletRises
  <2>lane. SUFFICES ASSUME NEW l \in Lanes
                 PROVE  /\ demux' = <<>> /\ ~delayed[l]
                        /\ \A y \in ToSet(queue'[l]) : Less(item[l], y)
                        /\ Rises(queue'[l])
    <3>1. demux' = <<>>
      BY <1>3, <2>1 DEF BInv, WalletRises
    <3> QED
      BY <3>1
  <2>2. /\ demux = <<>> /\ ~delayed[l] /\ \A y \in ToSet(queue[l]) : Less(item[l], y)
        /\ Rises(queue[l])
    BY <2>1 DEF BInv, WalletRises
  <2>3. \A y \in Sent : Less(y, x)
    BY <2>1, KeptIsGreater DEF Kept
  <2>4. Less(item[l], x)
    <3>1. item[l] = None \/ item[l] \in Sent
      BY SentIs
    <3> QED
      BY <1>1, <2>3, <3>1, LessIsOrder
  <2>5. \A y \in ToSet(queue'[l]) : Less(item[l], y)
    BY <1>3, <2>2, <2>4
  <2>6. Rises(queue'[l])
    <3>1. CASE l = "wallet"
      <4>1. queue'[l] = Append(queue[l], x) /\ queue[l] \in Seq(Submissions)
        BY <1>1, <1>3, <2>1, <3>1, QueueGets DEF Queues
      <4>2. \A y \in ToSet(queue[l]) : Less(y, x)
        BY <2>3, SentIs
      <4> QED
        BY <1>1, <2>2, <4>1, <4>2, RisesOfAppend
    <3>2. CASE l # "wallet"
      <4>1. queue'[l] = queue[l]
        BY <1>1, <1>3, <2>1, <3>2, QueueGets
      <4> QED
        BY <2>2, <4>1
    <3> QED
      BY <3>1, <3>2
  <2> QED
    BY <1>3, <2>1, <2>2, <2>5, <2>6
<1>10. WalletLeast'
  <2>1. SUFFICES ASSUME mode = "wallet", NEW y \in Sent', y.sig = tip.sig
                 PROVE  best'[y.account] <= Adjusted(y.raw)
    BY DEF WalletLeast
  <2>2. CASE y = x
    BY <1>2, <1>8, <2>2
  <2>3. CASE y \in Sent
    <3>1. y \in Submissions /\ best[y.account] <= Adjusted(y.raw)
      BY <1>1, <2>1, <2>3, SentTypes DEF BInv, WalletLeast
    <3>2. y.account \in Accounts /\ Adjusted(y.raw) \in Nat /\ best[y.account] \in Nat
      <4>1. y.account \in Accounts /\ y.raw \in 0 .. NoBest
        BY <3>1, NoneIsNone
      <4>2. best \in [Accounts -> 0 .. NoBest]
        BY <1>1 DEF TypeOK
      <4>3. Adjusted(y.raw) \in 0 .. NoBest /\ best[y.account] \in 0 .. NoBest
        BY <4>1, <4>2, AdjustedIsNat
      <4> QED
        BY <4>1, <4>3, NoBestAssumption
    <3>3. Adjusted(x.raw) < best[x.account]
      BY <1>1, <1>2, BeatsRivals DEF Kept, Worth, Rivals
    <3> QED
      BY <1>2, <1>8, <3>1, <3>2, <3>3
  <2> QED
    BY <1>4, <2>1, <2>2, <2>3
<1>11. BestNotLost'
  <2>1. SUFFICES ASSUME mode = "pool" \/ faults = 0, NEW a \in Accounts, best'[a] # NoBest
                 PROVE  \E y \in Underway' : IsBest(y, a)'
    BY DEF BestNotLost
  <2>2. CASE a = x.account
    <3>1. IsBest(x, a)'
      BY <1>1, <1>2, <1>8, <2>2 DEF IsBest
    <3> QED
      BY <1>5, <3>1
  <2>3. CASE a # x.account
    <3>1. best'[a] = best[a]
      BY <1>8, <2>3
    <3>2. PICK y \in Underway : IsBest(y, a)
      BY <2>1, <3>1 DEF BInv, BestNotLost
    <3>3. IsBest(y, a)'
      BY <3>1, <3>2 DEF IsBest
    <3> QED
      BY <1>5, <3>2, <3>3
  <2> QED
    BY <2>2, <2>3
<1> QED
  BY <1>6, <1>7, <1>9, <1>10, <1>11 DEF BInv

LEMMA FilterNotLost ==
  ASSUME BInv, Filter
  PROVE  BInv'
<1>1. UNCHANGED <<mode, tip, seen, blocks, scan, item, delayed, sending, settled, faults>>
  BY FilterStep
<1>2. PICK x \in found : found' = found \ {x} /\ (Kept(x) \/ Forgotten(x))
  BY FilterStep
<1>3. TypeOK /\ TypeOK'
  BY FilterTypes DEF BInv
<1>4. CASE Kept(x)
  BY <1>1, <1>2, <1>3, <1>4, KeptNotLost
<1>5. CASE Forgotten(x)
  <2>1. UNCHANGED <<best, demux, queue>>
    BY <1>5 DEF Forgotten
  <2>2. Sent' = Sent /\ Underway' = Underway
    BY <1>1, <2>1 DEF Sent, Underway
  <2>3. AllSeen' /\ Counted'
    BY <1>1, <1>2, <1>3, <2>2, CountsKept DEF BInv
  <2>4. ItemHeld' /\ WalletRises' /\ WalletLeast' /\ BestNotLost'
    BY <1>1, <2>1, <2>2 DEF BInv, ItemHeld, WalletRises, WalletLeast, BestNotLost, IsBest
  <2> QED
    BY <1>3, <2>3, <2>4 DEF BInv
<1> QED
  BY <1>2, <1>4, <1>5

LEMMA RouteNotLost ==
  ASSUME BInv, Route
  PROVE  BInv'
<1> DEFINE x == Head(demux)
           l == Lane(x)
<1>1. /\ demux # <<>> /\ demux' = Tail(demux) /\ queue' = Got(queue, l, x)
      /\ UNCHANGED <<mode, tip, seen, best, blocks, scan, found, item, delayed, sending, settled,
                     faults>>
  BY DEF Route, chainVars, scanVars, Got
<1>2. TypeOK /\ TypeOK' /\ demux \in Seq(Submissions) /\ queue \in Queues
  BY RouteTypes DEF BInv, TypeOK, Queues
<1>3. x \in Submissions /\ l \in Lanes
  <2>1. x \in Submissions
    BY <1>1, <1>2
  <2> QED
    BY <1>2, <2>1, LaneOf
<1>4. \A y : y \in ToSet(demux) <=> y = x \/ y \in ToSet(demux')
  BY <1>1, <1>2, ElementsOfTail
<1> HIDE DEF x, l
<1>5. \A k \in Lanes : \A y : y \in ToSet(queue'[k]) <=> y \in ToSet(queue[k]) \/ (k = l /\ y = x)
  BY <1>1, <1>2, <1>3, ElementsGot
<1>6. mode # "wallet"
  BY <1>1 DEF BInv, WalletRises
<1>7. \A y \in Sent' : y \in Sent
  <2>1. ASSUME NEW y \in Sent'
        PROVE  \/ y \in ToSet(demux')
               \/ \E k \in Lanes : y \in ToSet(queue'[k]) \/ (y = item[k] /\ y # None)
    BY <1>1 DEF Sent, Queued
  <2> QED
    BY <1>3, <1>4, <1>5, <2>1, SentIs
<1>8. \A y \in Underway : y \in Underway'
  <2>1. ASSUME NEW y,
               \/ y \in settled \/ y \in ToSet(demux')
               \/ \E k \in Lanes : \/ y \in ToSet(queue'[k]) \/ (y = sending[k] /\ y # None)
                                   \/ (delayed[k] /\ y = item[k])
        PROVE  y \in Underway'
    BY <1>1, <2>1 DEF Underway
  <2> QED
    BY <1>3, <1>4, <1>5, <2>1, UnderwayIs
<1>9. AllSeen' /\ Counted'
  BY <1>1, <1>2, <1>7, CountsKept DEF BInv
<1>10. ItemHeld' /\ WalletRises' /\ WalletLeast'
  BY <1>1, <1>5, <1>6 DEF BInv, ItemHeld, WalletRises, WalletLeast
<1>11. BestNotLost'
  BY <1>1, <1>8, StillUnderway DEF BInv
<1> QED
  BY <1>2, <1>9, <1>10, <1>11 DEF BInv

\* Pool mode: a submission that is not less than the best of its lane is as
\* good.
LEMMA NotLessIsAsGood ==
  ASSUME BInv, mode = "pool", NEW y \in Sent, NEW z \in Sent, Lane(y) = Lane(z), ~Less(z, y),
         NEW a \in Accounts, IsBest(y, a)
  PROVE  IsBest(z, a)
<1>1. y \in Submissions /\ z \in Submissions /\ tip.count \in Int
  BY SentTypes, MaxBlocksAssumption DEF BInv, TypeOK
<1>2. /\ y.count \in Int /\ z.count \in Int /\ y.raw \in 0 .. NoBest /\ z.raw \in 0 .. NoBest
      /\ best[a] \in Int
  BY <1>1, NoneIsNone, NoBestAssumption, MaxBlocksAssumption DEF BInv, TypeOK
<1>3. y.count = tip.count /\ z.count <= tip.count /\ (z.count = tip.count => z.sig = tip.sig)
  BY DEF BInv, Counted, IsBest
<1>4. z.count = tip.count /\ z.sig = tip.sig /\ z.raw <= y.raw
  BY <1>1, <1>2, <1>3, NoBestAssumption DEF Less
<1>5. z.account = a
  BY DEF Lane, IsBest
<1>6. Adjusted(z.raw) <= Adjusted(y.raw) /\ Adjusted(z.raw) \in Int /\ Adjusted(y.raw) \in Int
  BY <1>2, <1>4, AdjustedMonotone, AdjustedIsNat, NoBestAssumption
<1> QED
  BY <1>2, <1>4, <1>5, <1>6 DEF IsBest

LEMMA PollNotLost ==
  ASSUME BInv, NEW l \in Lanes, Poll(l)
  PROVE  BInv'
<1> DEFINE h == Head(queue[l])
<1>1. /\ sending[l] = None /\ queue[l] # <<>> /\ queue' = Lost(queue, l)
      /\ PollYields(l, h) \/ PollDelays(l, h) \/ PollDrops(l, h)
      /\ UNCHANGED <<mode, tip, seen, best, blocks, scan, found, demux, settled, faults>>
  BY PollStep
<1>2. TypeOK /\ TypeOK'
  BY PollTypes DEF BInv
<1>3. /\ h \in Submissions /\ Lane(h) = l /\ h \in ToSet(queue[l]) /\ queue \in Queues
      /\ item[l] \in Submissions \cup {None} /\ (item[l] # None => Lane(item[l]) = l)
  BY <1>1, <1>2, LaneTypes
<1>4. mode = "wallet" => Less(item[l], h)
  BY <1>3 DEF BInv, WalletRises
<1>5. queue'[l] = Tail(queue[l])
  BY <1>1, <1>3, QueueLoses
<1>6. \A k \in Lanes : \A y : y \in ToSet(queue[k]) <=> y \in ToSet(queue'[k]) \/ (k = l /\ y = h)
  BY <1>1, <1>3, ElementsLost
<1>7. mode = "wallet" => \A y \in ToSet(queue'[l]) : Less(h, y)
  <2>1. queue[l] \in Seq(Submissions)
    BY <1>3 DEF Queues
  <2> QED
    BY <1>1, <1>5, <2>1, RisesOfTail DEF BInv, WalletRises
<1>8. mode = "wallet" => \A k \in Lanes : Rises(queue'[k])
  <2>1. queue[l] \in Seq(Submissions) /\ \A k \in Lanes \ {l} : queue'[k] = queue[k]
    BY <1>1, <1>3, QueueLoses DEF Queues
  <2>2. ASSUME mode = "wallet" PROVE Rises(queue'[l])
    BY <1>1, <1>5, <2>1, <2>2, RisesOfTail DEF BInv, WalletRises
  <2> QED
    BY <2>1, <2>2 DEF BInv, WalletRises
<1> HIDE DEF h
<1>9. /\ PollYields(l, h) => /\ Less(item[l], h) /\ item'[l] = h /\ ~delayed'[l] /\ sending'[l] = h
      /\ PollDelays(l, h) => /\ ~Less(item[l], h) /\ ~Less(h, item[l]) /\ item'[l] = item[l]
                             /\ delayed'[l] /\ sending'[l] = None
      /\ PollDrops(l, h) => /\ Less(h, item[l]) /\ item'[l] = item[l] /\ delayed'[l] = delayed[l]
                            /\ sending'[l] = None
      /\ \A k \in Lanes \ {l} : /\ item'[k] = item[k] /\ delayed'[k] = delayed[k]
                                /\ sending'[k] = sending[k]
  BY <1>1, <1>2 DEF PollYields, PollDelays, PollDrops, TypeOK
<1>10. mode = "wallet" => PollYields(l, h)
  BY <1>1, <1>3, <1>4, LessIsOrder DEF PollDelays, PollDrops
<1>11. \A y \in Sent' : y \in Sent
  <2>1. ASSUME NEW y \in Sent'
        PROVE  \/ y \in ToSet(demux)
               \/ \E k \in Lanes : y \in ToSet(queue'[k]) \/ (y = item'[k] /\ y # None)
    BY <1>1 DEF Sent, Queued
  <2>2. \A k \in Lanes : item'[k] \in {item[k], h} /\ (k # l => item'[k] = item[k])
    BY <1>1, <1>9
  <2> QED
    BY <1>3, <1>6, <2>1, <2>2, SentIs
<1>12. AllSeen' /\ Counted'
  BY <1>1, <1>2, <1>11, CountsKept DEF BInv
<1>13. WalletLeast'
  BY <1>1, <1>11 DEF BInv, WalletLeast
<1>14. WalletRises'
  <2>1. ASSUME mode = "wallet", NEW k \in Lanes
        PROVE  ~delayed'[k] /\ \A y \in ToSet(queue'[k]) : Less(item'[k], y)
    <3>1. CASE k = l
      BY <1>7, <1>9, <1>10, <2>1, <3>1
    <3>2. CASE k # l
      BY <1>6, <1>9, <2>1, <3>2 DEF BInv, WalletRises
    <3> QED
      BY <3>1, <3>2
  <2> QED
    BY <1>1, <1>8, <2>1 DEF BInv, WalletRises
<1>15. ASSUME mode = "pool", NEW k \in Lanes
       PROVE  \/ item'[k] = None \/ delayed'[k]
              \/ item'[k] \in settled \cup ToSet(queue'[k]) \cup {sending'[k]}
  <2>1. \/ item[k] = None \/ delayed[k]
        \/ item[k] \in settled \cup ToSet(queue[k]) \cup {sending[k]}
    BY <1>15 DEF BInv, ItemHeld
  <2>2. CASE k # l
    BY <1>6, <1>9, <2>1, <2>2
  <2>3. CASE k = l /\ (PollYields(l, h) \/ PollDelays(l, h))
    BY <1>9, <2>3
  <2>4. CASE k = l /\ PollDrops(l, h)
    <3>1. item[l] # h
      BY <1>3, <1>9, <2>4, LessIsOrder
    <3> QED
      BY <1>1, <1>6, <1>9, <2>1, <2>4, <3>1
  <2> QED
    BY <1>1, <2>2, <2>3, <2>4
<1>16. ItemHeld'
  BY <1>1, <1>15 DEF ItemHeld
<1>17. ASSUME NEW y,
              \/ y \in settled \/ y \in ToSet(demux)
              \/ \E k \in Lanes : \/ y \in ToSet(queue'[k]) \/ (y = sending'[k] /\ y # None)
                                  \/ (delayed'[k] /\ y = item'[k])
       PROVE  y \in Underway'
  BY <1>1, <1>17 DEF Underway
<1>18. ASSUME NEW x \in Underway, NEW a \in Accounts, IsBest(x, a), x = h \/ x = item[l], x # None
       PROVE  \E y \in Underway' : IsBest(y, a)
  <2>1. h \in Sent /\ (item[l] # None => item[l] \in Sent)
    BY <1>3, SentIs
  <2>2. CASE PollYields(l, h)
    <3>1. h \in Underway'
      BY <1>3, <1>9, <1>17, <2>2, NoneIsNone
    <3>2. CASE x = h
      BY <1>18, <3>1, <3>2
    <3>3. CASE x = item[l] /\ mode = "pool"
      <4>1. ~Less(h, item[l])
        BY <1>3, <1>9, <1>18, <2>2, <3>3, LessIsOrder
      <4>2. IsBest(h, a)
        BY <1>3, <1>18, <2>1, <3>3, <4>1, NotLessIsAsGood
      <4> QED
        BY <3>1, <4>2
    <3>4. CASE x = item[l] /\ mode # "pool" /\ x # h
      <4>1. mode = "wallet"
        BY <1>2, <3>4, ModesAssumption DEF TypeOK
      <4>2. \/ x \in settled \/ x \in ToSet(demux) \/ x \in ToSet(queue[l])
            \/ \E k \in Lanes \ {l} : x \in ToSet(queue[k]) \/ (x = sending[k] /\ x # None)
        BY <1>1, <1>18, <4>1, UnderwayIs DEF BInv, WalletRises
      <4>3. x \in Underway'
        BY <1>6, <1>9, <1>17, <3>4, <4>2
      <4> QED
        BY <1>18, <4>3
    <3> QED
      BY <1>18, <3>2, <3>3, <3>4
  <2>3. CASE PollDelays(l, h) \/ PollDrops(l, h)
    <3>1. mode = "pool" /\ item[l] # None
      <4>1. mode # "wallet"
        BY <1>3, <1>4, <1>9, <2>3, LessIsOrder
      <4>2. mode = "pool"
        BY <1>2, <4>1, ModesAssumption DEF TypeOK
      <4> QED
        BY <1>3, <1>9, <2>3, <4>2, LessIsOrder
    <3>2. ~Less(item[l], h)
      BY <1>3, <1>9, <2>3, <3>1, LessIsOrder
    <3>3. IsBest(item[l], a)
      <4>1. CASE x = h
        BY <1>3, <1>18, <2>1, <3>1, <3>2, <4>1, NotLessIsAsGood
      <4> QED
        BY <1>18, <4>1
    <3>4. item[l] \in Underway'
      <4>1. item'[l] = item[l]
        BY <1>9, <2>3
      <4> QED
        BY <1>15, <1>17, <3>1, <4>1
    <3> QED
      BY <3>3, <3>4
  <2> QED
    BY <1>1, <2>2, <2>3
<1>19. ASSUME NEW x \in Underway, NEW a \in Accounts, IsBest(x, a)
       PROVE  \E y \in Underway' : IsBest(y, a)
  <2>1. CASE (x = h \/ x = item[l]) /\ x # None
    BY <1>18, <1>19, <2>1
  <2>2. CASE ~(x = h \/ x = item[l]) \/ x = None
    <3>1. x \in Underway'
      <4>1. x # h
        BY <1>3, <2>2, NoneIsNone
      <4>2. delayed[l] => item[l] # None
        BY <1>2 DEF TypeOK
      <4> QED
        BY <1>1, <1>6, <1>9, <1>17, <2>2, <4>1, <4>2, UnderwayIs
    <3> QED
      BY <1>19, <3>1
  <2> QED
    BY <2>1, <2>2
<1>20. BestNotLost'
  BY <1>1, <1>19, StillUnderway DEF BInv
<1> QED
  BY <1>2, <1>12, <1>13, <1>14, <1>16, <1>20 DEF BInv

LEMMA DelayEndsNotLost ==
  ASSUME BInv, NEW l \in Lanes, DelayEnds(l)
  PROVE  BInv'
<1>1. /\ sending[l] = None /\ delayed[l]
      /\ delayed' = [delayed EXCEPT ![l] = FALSE]
      /\ sending' = [sending EXCEPT ![l] = item[l]]
      /\ UNCHANGED <<mode, tip, seen, best, blocks, scan, found, demux, queue, item, settled,
                     faults>>
  BY DelayEndsStep
<1>2. TypeOK /\ TypeOK' /\ item[l] # None
  BY <1>1, DelayEndsTypes DEF BInv, TypeOK
<1>3. /\ ~delayed'[l] /\ sending'[l] = item[l]
      /\ \A k \in Lanes \ {l} : delayed'[k] = delayed[k] /\ sending'[k] = sending[k]
  BY <1>1, <1>2 DEF TypeOK
<1>4. Sent' = Sent
  BY <1>1 DEF Sent
<1>5. mode # "wallet"
  BY <1>1 DEF BInv, WalletRises
<1>6. \A y \in Underway : y \in Underway'
  <2>1. ASSUME NEW y,
               \/ y \in settled \/ y \in ToSet(demux)
               \/ \E k \in Lanes : \/ y \in ToSet(queue[k]) \/ (y = sending'[k] /\ y # None)
                                   \/ (delayed'[k] /\ y = item[k])
        PROVE  y \in Underway'
    BY <1>1, <2>1 DEF Underway
  <2> QED
    BY <1>1, <1>2, <1>3, <2>1, UnderwayIs
<1>7. AllSeen' /\ Counted'
  BY <1>1, <1>2, <1>4, CountsKept DEF BInv
<1>8. ItemHeld'
  BY <1>1, <1>3 DEF BInv, ItemHeld
<1>9. WalletRises' /\ WalletLeast'
  BY <1>1, <1>5 DEF WalletRises, WalletLeast
<1>10. BestNotLost'
  BY <1>1, <1>6, StillUnderway DEF BInv
<1> QED
  BY <1>2, <1>7, <1>8, <1>9, <1>10 DEF BInv

\* An answer loses nothing in pool mode: what is not settled comes back.
LEMMA AnswerNotLost ==
  ASSUME Steady, BInv, NEW l \in Lanes, Answer(l)
  PROVE  BInv'
<1>1. /\ sending[l] # None
      /\ sending' = [sending EXCEPT ![l] = None]
      /\ UNCHANGED <<mode, tip, seen, best, blocks, scan, found, demux, item, delayed>>
      /\ \/ settled' = settled \cup {sending[l]} /\ faults' = faults /\ queue' = queue
         \/ /\ settled' = settled /\ faults' = faults + 1 /\ mode = "pool"
            /\ queue' = Got(queue, l, sending[l])
         \/ /\ settled' = settled /\ faults' = faults + 1 /\ queue' = queue
            /\ mode # "pool"
  BY AnswerStep DEF Steady
<1>2. TypeOK /\ TypeOK' /\ faults \in Nat
  BY AnswerTypes DEF BInv, TypeOK
<1>3. sending[l] \in Submissions /\ sending[l] = item[l] /\ queue \in Queues
  BY <1>1, <1>2, LaneTypes
<1>4. /\ sending'[l] = None
      /\ \A k \in Lanes \ {l} : sending'[k] = sending[k]
  BY <1>1, <1>2 DEF TypeOK
<1>5. \A k \in Lanes : \A y : y \in ToSet(queue[k]) => y \in ToSet(queue'[k])
  BY <1>1, <1>3, ElementsGot
<1>6. \A k \in Lanes : \A y : y \in ToSet(queue'[k]) => y \in ToSet(queue[k]) \/ y = sending[l]
  BY <1>1, <1>3, ElementsGot
<1>7. \A y \in settled : y \in settled'
  BY <1>1
<1>8. mode = "pool" \/ faults' = 0 => sending[l] \in settled' \/ sending[l] \in ToSet(queue'[l])
  <2>1. sending[l] \in ToSet(Got(queue, l, sending[l])[l])
    BY <1>3, ElementsGot
  <2>2. faults + 1 # 0
    BY <1>2
  <2> QED
    BY <1>1, <2>1, <2>2
<1>9. \A y \in Sent' : y \in Sent
  <2>1. ASSUME NEW y \in Sent'
        PROVE  \/ y \in ToSet(demux)
               \/ \E k \in Lanes : y \in ToSet(queue'[k]) \/ (y = item[k] /\ y # None)
    BY <1>1 DEF Sent, Queued
  <2>2. sending[l] \in Sent
    BY <1>1, <1>3, SentIs
  <2> QED
    BY <1>6, <2>1, <2>2, SentIs
<1>10. ASSUME mode = "pool" \/ faults' = 0, NEW y \in Underway PROVE y \in Underway'
  <2>1. ASSUME \/ y \in settled' \/ y \in ToSet(demux)
               \/ \E k \in Lanes : \/ y \in ToSet(queue'[k]) \/ (y = sending'[k] /\ y # None)
                                   \/ (delayed[k] /\ y = item[k])
        PROVE  y \in Underway'
    BY <1>1, <2>1 DEF Underway
  <2> QED
    BY <1>4, <1>5, <1>7, <1>8, <1>10, <2>1, UnderwayIs
<1>11. AllSeen' /\ Counted'
  BY <1>1, <1>2, <1>9, CountsKept DEF BInv
<1>12. ASSUME mode = "pool", NEW k \in Lanes
       PROVE  \/ item[k] = None \/ delayed[k]
              \/ item[k] \in settled' \cup ToSet(queue'[k]) \cup {sending'[k]}
  BY <1>3, <1>4, <1>5, <1>7, <1>8, <1>12 DEF BInv, ItemHeld
<1>13. ItemHeld'
  BY <1>1, <1>12 DEF ItemHeld
<1>14. WalletRises'
  <2>1. mode = "wallet" => queue' = queue
    BY <1>1
  <2> QED
    BY <1>1, <2>1 DEF BInv, WalletRises
<1>15. WalletLeast'
  BY <1>1, <1>9 DEF BInv, WalletLeast
<1>16. BestNotLost'
  <2>1. faults' = 0 => faults = 0
    BY <1>1, <1>2
  <2> QED
    BY <1>1, <1>10, <2>1, StillUnderway DEF BInv
<1> QED
  BY <1>2, <1>11, <1>13, <1>14, <1>15, <1>16 DEF BInv

LEMMA NextNotLost ==
  ASSUME Steady, BInv, [Next]_vars
  PROVE  BInv'
<1>1. CASE Quiet \/ UNCHANGED vars
  <2>1. UNCHANGED <<mode, tip, seen, best, blocks, scan, found, demux, queue, item, delayed,
                    sending, settled, faults>>
    BY <1>1 DEF Quiet, vars, chainVars, scanVars, laneVars
  <2>2. Sent' = Sent /\ Underway' = Underway
    BY <2>1 DEF Sent, Underway
  <2>3. TypeOK'
    BY NextTypes DEF BInv
  <2> QED
    BY <2>1, <2>2, <2>3
       DEF BInv, AllSeen, Counted, ItemHeld, WalletRises, WalletLeast, BestNotLost, IsBest
<1>2. ASSUME NEW l \in Lanes, Poll(l) \/ DelayEnds(l) \/ Answer(l) PROVE BInv'
  BY <1>2, PollNotLost, DelayEndsNotLost, AnswerNotLost
<1> QED
  BY <1>1, <1>2, NewInfoNotLost, StartScanNotLost, FindNotLost, FilterNotLost, RouteNotLost DEF Next

\* With a pool that returns to no block it has left and never answers that it
\* is busy: counters tell current submissions from old ones; in pool mode the
\* last item of a lane is answered or will be sent again; in wallet mode each
\* submission is greater than those before it.
THEOREM KeepsInvariant ==
  ASSUME ~MayFlip, "pool" \notin BusyModes
  PROVE  Spec => []BInv
<1>1. Steady
  BY DEF Steady
<1>2. Init => BInv
  BY InitTypes, InitNotLost
<1>3. BInv /\ [Next]_vars => BInv'
  BY <1>1, NextNotLost
<1> QED
  BY <1>2, <1>3, PTL DEF Spec

\* With such a pool, a submission as good as the best quality recorded for an
\* account is on its way or answered: in wallet mode while no request has
\* failed, in pool mode always.
THEOREM BestIsKept ==
  ASSUME ~MayFlip, "pool" \notin BusyModes
  PROVE  Spec => []BestNotLost
<1>1. BInv => BestNotLost
  BY DEF BInv
<1> QED
  BY <1>1, KeepsInvariant, PTL

=============================================================================
