---------------------------- MODULE Miner_proofs ----------------------------
(* What the miner promises for every number of chains, disks, plots, blocks  *)
(* and buffers: a block is in one place at a time, its progress is its own,  *)
(* a block reported finished without a pause was scanned to its end, the     *)
(* scheduler is always called when there is something for it to decide, and  *)
(* no buffer is lost.                                                        *)
EXTENDS Miner, WellFoundedInduction, FiniteSetTheorems, SequenceTheorems, FunctionTheorems, TLAPS

-----------------------------------------------------------------------------
(* Numbers. *)

\* A set of naturals has a least element.
LEMMA LeastNat ==
  ASSUME NEW T \in SUBSET Nat, T # {}
  PROVE  \E x \in T : \A y \in T : x <= y
<1>1. \A x, y \in Nat : <<x, y>> \in OpToRel(<, Nat) <=> x < y
  BY DEF OpToRel
<1>2. \E x \in T : \A y \in T : ~ (<<y, x>> \in OpToRel(<, Nat))
  BY WFMin, NatLessThanWellFounded, Zenon
<1>3. \E x \in T : \A y \in T : ~ (y < x)
  BY <1>1, <1>2, Zenon
<1> QED
  BY <1>3

-----------------------------------------------------------------------------
(* The inductive invariant.                                                  *)

\* The progress that a scan of the setup s can have.
KeptIn(s) ==
    {p \in [1 .. s.disks -> Seq(Nat)] :
        \A d \in 1 .. s.disks :
            /\ Len(p[d]) = Len(s.reads[d])
            /\ \A i \in 1 .. Len(s.reads[d]) : p[d][i] <= s.reads[d][i]}

\* The messages that the scheduler can find.
Messages(s) ==
    [kind : {"new"}, chain : Chains, block : 0 .. s.blocks, initial : BOOLEAN]
        \cup [kind : {"again"}, chain : Chains, block : 0 .. s.blocks, resume : KeptIn(s)]
        \cup {Process}

\* A message that brings a block, the progress it brings, and two places with
\* the same block.
Holds(m) == m.kind \in {"new", "again"}
Skip(m) == IF m.kind = "again" THEN m.resume ELSE NoResume
Same(m, n) == m.chain = n.chain /\ m.block = n.block

\* How far the plots are when a block is taken up at p.
From(s, p) ==
    IF p = NoResume THEN [d \in 1 .. s.disks |-> [i \in 1 .. Len(s.reads[d]) |-> 0]] ELSE p

\* Of a block, S has the reads below p and no others.
Exact(s, S, c, b, p) ==
    \A d \in 1 .. s.disks : \A i \in 1 .. Len(s.reads[d]) : \A r \in 0 .. s.reads[d][i] - 1 :
        <<c, b, d, i, r>> \in S <=> r < From(s, p)[d][i]

\* A block of the queue, a message or a round: the chain has announced it, its
\* progress is what was read for it, and it has progress only if it was paused.
Good(s, t, S, P, c, b, p) ==
    /\ b <= t[c]
    /\ Exact(s, S, c, b, p)
    /\ p # NoResume => <<c, b>> \in P

Types ==
    /\ setup \in Setups
    /\ tip \in [Chains -> Blocks] /\ info \in [Chains -> Blocks] /\ pq \in SUBSET Chains
    /\ inbox \in Seq(Messages(setup))
    /\ resume \in [Chains -> {NoResume} \cup KeptIn(setup)]
    /\ scanning \in BOOLEAN /\ interrupt \in BOOLEAN /\ pause \in BOOLEAN
    /\ current \in Chains
    /\ round \in [chain : Chains, block : Blocks, resume : {NoResume} \cup KeptIn(setup)]
    /\ roundPc \in {"none", "start", "collect"}
    /\ progress \in KeptIn(setup)
    /\ reader \in [Disks -> {"none", "take", "read", "finished", "interrupted"}]
    /\ pool \in Nat /\ IsFiniteSet(hashing)
    /\ cancelled \in BOOLEAN /\ late \in BOOLEAN /\ drained \in BOOLEAN

\* What was read is of a block that was announced, and nothing is hashed that
\* was not read.
KnownReads ==
    /\ \A c, b, d, i, r : <<c, b, d, i, r>> \in read => c \in Chains /\ b \in 0 .. tip[c]
    /\ hashing \subseteq read

\* A block is with one message, in the queue, or in the round, and never in two
\* of these places; wherever it is, it is good.
InBox ==
    \A k \in DOMAIN inbox : Holds(inbox[k]) =>
        /\ Good(setup, tip, read, paused, inbox[k].chain, inbox[k].block, Skip(inbox[k]))
        /\ \A j \in DOMAIN inbox : j # k /\ Holds(inbox[j]) => ~Same(inbox[j], inbox[k])
        /\ inbox[k].chain \in pq => inbox[k].block # info[inbox[k].chain]
        /\ roundPc # "none" => ~Same(inbox[k], round)

InQueue ==
    \A c \in Chains :
        /\ info[c] <= tip[c]
        /\ resume[c] # NoResume => c \in pq
        /\ c \in pq => /\ Good(setup, tip, read, paused, c, info[c], resume[c])
                       /\ roundPc # "none" /\ round.chain = c => round.block # info[c]

InRound ==
    /\ roundPc = "start" => Good(setup, tip, read, paused, round.chain, round.block, round.resume)
    /\ roundPc = "collect" => /\ round.block <= tip[round.chain]
                              /\ Exact(setup, read, round.chain, round.block, progress)
                              /\ round.resume # NoResume => <<round.chain, round.block>> \in paused

\* The state of the miner, of the round and of its readers agree.
Control ==
    /\ scanning <=> roundPc # "none"
    /\ scanning => current = round.chain
    /\ pause => interrupt
    /\ \A d \in Disks :
        /\ reader[d] = "none" <=> roundPc # "collect"
        /\ reader[d] = "read" => Unread(d) # {}
        /\ reader[d] = "finished" => Unread(d) = {}
        /\ reader[d] = "interrupted" => interrupt

\* What a reader has read of a block that was never paused is scanned, unless
\* the reader has been interrupted.
ScannedSoFar ==
    roundPc = "collect" /\ <<round.chain, round.block>> \notin paused =>
        \A d \in Disks : reader[d] # "interrupted" =>
            \A i \in Plots(d) : \A r \in 0 .. progress[d][i] - 1 :
                <<round.chain, round.block, d, i, r>> \in scanned

\* A ProcessBlock is on its way to the scheduler.
Called == \E k \in DOMAIN inbox : inbox[k] = Process

\* It is whenever the scheduler has something to decide: an initial block is
\* not the last message, a queued block waits for an idle miner, or a scan goes
\* on that must yield to a queued block.
Followed ==
    \A k \in DOMAIN inbox :
        inbox[k].kind = "new" /\ inbox[k].initial => \E j \in DOMAIN inbox : j > k /\ inbox[j] = Process
Owed ==
    /\ ~cancelled /\ ~scanning /\ pq # {} => Called
    /\ ~cancelled /\ scanning /\ ~interrupt /\ (\E c \in pq : c <= current) => Called

\* The read buffers that are not lost.
Reading == {d \in Disks : reader[d] = "read"}
Buffers == pool + Cardinality(Reading) + Cardinality(hashing)
Balance == IF drained THEN Buffers <= NumBuffers ELSE Buffers = NumBuffers

IInv ==
    /\ Types /\ KnownReads /\ InBox /\ InQueue /\ InRound /\ Control
    /\ ScannedSoFar /\ FinishedIsScanned /\ Followed /\ Owed /\ Balance

-----------------------------------------------------------------------------
(* Setups, progress and messages.                                            *)

LEMMA SetupFacts ==
  ASSUME NEW s \in Setups
  PROVE  /\ s.disks \in Nat \ {0} /\ s.blocks \in Nat \ {0}
         /\ DOMAIN s.reads = 1 .. s.disks
         /\ \A d \in 1 .. s.disks :
                /\ s.reads[d] \in Seq(Nat \ {0}) /\ Len(s.reads[d]) \in Nat
                /\ \A i \in 1 .. Len(s.reads[d]) : s.reads[d][i] \in Nat \ {0}
<1>1. SetupOK(s) /\ MaxDisks \in Nat
  BY ConstantsAssumption
<1>2. s.reads \in [1 .. s.disks -> Seq(Nat \ {0})]
  BY <1>1 DEF SetupOK
<1>3. s.disks \in 1 .. MaxDisks /\ s.blocks \in Nat \ {0}
  BY <1>1 DEF SetupOK
<1>4. s.disks \in Nat \ {0}
  BY <1>1, <1>3
<1>5. ASSUME NEW d \in 1 .. s.disks
      PROVE  /\ s.reads[d] \in Seq(Nat \ {0}) /\ Len(s.reads[d]) \in Nat
             /\ \A i \in 1 .. Len(s.reads[d]) : s.reads[d][i] \in Nat \ {0}
  <2>1. s.reads[d] \in Seq(Nat \ {0})
    BY <1>2
  <2> QED
    BY <2>1, ElementOfSeq, LenProperties
<1> QED
  BY <1>2, <1>3, <1>4, <1>5

LEMMA KeptFacts ==
  ASSUME NEW s \in Setups, NEW p \in KeptIn(s)
  PROVE  /\ p # NoResume /\ From(s, p) = p
         /\ p \in [1 .. s.disks -> Seq(Nat)]
         /\ \A d \in 1 .. s.disks :
                /\ p[d] \in Seq(Nat) /\ Len(p[d]) = Len(s.reads[d])
                /\ \A i \in 1 .. Len(s.reads[d]) : p[d][i] \in Nat /\ p[d][i] <= s.reads[d][i]
<1>1. p \in [1 .. s.disks -> Seq(Nat)]
  BY DEF KeptIn
<1>2. p # NoResume
  <2>1. DOMAIN p = 1 .. s.disks /\ 1 \in DOMAIN p
    BY <1>1, SetupFacts
  <2>2. DOMAIN NoResume = {}
    BY DEF NoResume
  <2> QED
    BY <2>1, <2>2
<1>3. ASSUME NEW d \in 1 .. s.disks
      PROVE  /\ p[d] \in Seq(Nat) /\ Len(p[d]) = Len(s.reads[d])
             /\ \A i \in 1 .. Len(s.reads[d]) : p[d][i] \in Nat /\ p[d][i] <= s.reads[d][i]
  <2>1. p[d] \in Seq(Nat)
    BY <1>1
  <2>2. Len(p[d]) = Len(s.reads[d]) /\ \A i \in 1 .. Len(s.reads[d]) : p[d][i] <= s.reads[d][i]
    BY DEF KeptIn
  <2> QED
    BY <2>1, <2>2, ElementOfSeq
<1> QED
  BY <1>1, <1>2, <1>3 DEF From

\* Nothing is read yet.
LEMMA NothingKept ==
  ASSUME NEW s \in Setups
  PROVE  /\ From(s, NoResume) \in KeptIn(s)
         /\ \A d \in 1 .. s.disks : \A i \in 1 .. Len(s.reads[d]) : From(s, NoResume)[d][i] = 0
<1> DEFINE z == [d \in 1 .. s.disks |-> [i \in 1 .. Len(s.reads[d]) |-> 0]]
<1>1. From(s, NoResume) = z
  BY DEF From
<1>2. ASSUME NEW d \in 1 .. s.disks
      PROVE  /\ z[d] = [i \in 1 .. Len(s.reads[d]) |-> 0]
             /\ z[d] \in Seq(Nat) /\ Len(z[d]) = Len(s.reads[d])
             /\ \A i \in 1 .. Len(s.reads[d]) : z[d][i] = 0 /\ z[d][i] <= s.reads[d][i]
  <2>1. Len(s.reads[d]) \in Nat /\ \A i \in 1 .. Len(s.reads[d]) : s.reads[d][i] \in Nat
    BY SetupFacts
  <2>2. z[d] = [i \in 1 .. Len(s.reads[d]) |-> 0]
    OBVIOUS
  <2>3. z[d] \in [1 .. Len(s.reads[d]) -> Nat]
    BY <2>2
  <2>4. z[d] \in Seq(Nat) /\ Len(z[d]) = Len(s.reads[d])
    BY <2>1, <2>3, SeqDef, LenProperties
  <2> QED
    BY <2>1, <2>2, <2>4
<1>3. z \in [1 .. s.disks -> Seq(Nat)]
  BY <1>2
<1> QED
  BY <1>1, <1>2, <1>3 DEF KeptIn

\* A plot is read further.
Moved(s, p, d, i, v, q) ==
    /\ q \in KeptIn(s) /\ q[d][i] = v
    /\ \A e \in 1 .. s.disks : \A j \in 1 .. Len(s.reads[e]) : <<e, j>> # <<d, i>> => q[e][j] = p[e][j]
    /\ \A e \in 1 .. s.disks : e # d => q[e] = p[e]

LEMMA ProgressMoves ==
  ASSUME NEW s \in Setups, NEW p \in KeptIn(s), NEW d \in 1 .. s.disks,
         NEW i \in 1 .. Len(s.reads[d]), NEW v \in Nat, v <= s.reads[d][i],
         NEW q, q = [p EXCEPT ![d][i] = v]
  PROVE  Moved(s, p, d, i, v, q)
<1>1. /\ p \in [1 .. s.disks -> Seq(Nat)]
      /\ p[d] \in Seq(Nat) /\ Len(p[d]) = Len(s.reads[d])
  BY KeptFacts
<1>2. q[d] = [p[d] EXCEPT ![i] = v] /\ \A e \in 1 .. s.disks : e # d => q[e] = p[e]
  BY <1>1
<1>3. /\ q[d] \in Seq(Nat) /\ Len(q[d]) = Len(s.reads[d]) /\ q[d][i] = v
      /\ \A j \in 1 .. Len(s.reads[d]) : j # i => q[d][j] = p[d][j]
  BY <1>1, <1>2, ExceptSeq
<1>4. q \in [1 .. s.disks -> Seq(Nat)]
  BY <1>1, <1>2, <1>3
<1>5. ASSUME NEW e \in 1 .. s.disks
      PROVE  /\ Len(q[e]) = Len(s.reads[e])
             /\ \A j \in 1 .. Len(s.reads[e]) : q[e][j] <= s.reads[e][j]
  <2>1. /\ Len(p[e]) = Len(s.reads[e])
        /\ \A j \in 1 .. Len(s.reads[e]) : p[e][j] <= s.reads[e][j]
    BY KeptFacts
  <2>2. CASE e = d
    BY <2>1, <2>2, <1>3
  <2>3. CASE e # d
    BY <2>1, <2>3, <1>2
  <2> QED
    BY <2>2, <2>3
<1>6. q \in KeptIn(s)
  BY <1>4, <1>5 DEF KeptIn
<1> QED
  BY <1>2, <1>3, <1>6 DEF Moved

\* The queue's best chain, and the plot that a reader is at.
LEMMA TopFacts ==
  ASSUME pq \in SUBSET Chains, pq # {}
  PROVE  Top \in pq /\ \A e \in pq : Top <= e
<1>1. pq \in SUBSET Nat
  BY ConstantsAssumption DEF Chains
<1>2. \E c \in pq : \A e \in pq : c <= e
  BY <1>1, LeastNat
<1> QED
  BY <1>2 DEF Top

LEMMA PlotFacts ==
  ASSUME Types, NEW d \in Disks, Unread(d) # {}
  PROVE  /\ Plot(d) \in 1 .. Len(Reads[d]) /\ progress[d][Plot(d)] \in Nat
         /\ <<d, Plot(d)>> \in Mineable[round.chain]
         /\ progress[d][Plot(d)] < Reads[d][Plot(d)]
<1>1. setup \in Setups /\ progress \in KeptIn(setup)
  BY DEF Types
<1>2. Len(Reads[d]) \in Nat /\ Unread(d) \in SUBSET (1 .. Len(Reads[d]))
  BY <1>1, SetupFacts DEF Reads, Disks, Unread, Plots
<1>3. Unread(d) \in SUBSET Nat
  BY <1>2
<1>4. \E i \in Unread(d) : \A j \in Unread(d) : i <= j
  BY <1>3, LeastNat
<1>5. Plot(d) \in Unread(d)
  BY <1>4 DEF Plot
<1>6. progress[d][Plot(d)] \in Nat
  BY <1>1, <1>2, <1>5, KeptFacts DEF Reads, Disks
<1> QED
  BY <1>2, <1>5, <1>6 DEF Unread

\* The kinds of message.
LEMMA MessageFacts ==
  ASSUME NEW s \in Setups, NEW m \in Messages(s)
  PROVE  /\ Holds(m) => /\ m.chain \in Chains /\ m.block \in 0 .. s.blocks
                        /\ Skip(m) \in {NoResume} \cup KeptIn(s)
         /\ m = Process => ~Holds(m) /\ m.kind = "process"
         /\ m.kind = "process" => m = Process
         /\ ~Holds(m) => m = Process
         /\ m.kind = "new" => Holds(m) /\ Skip(m) = NoResume /\ m.initial \in BOOLEAN
         /\ m.kind = "again" => Holds(m) /\ Skip(m) = m.resume /\ m.resume \in KeptIn(s)
<1>1. CASE m \in [kind : {"new"}, chain : Chains, block : 0 .. s.blocks, initial : BOOLEAN]
  <2>1. m.kind = "new" /\ m.chain \in Chains /\ m.block \in 0 .. s.blocks /\ m.initial \in BOOLEAN
    BY <1>1
  <2>2. m # Process
    BY <2>1 DEF Process
  <2> QED
    BY <2>1, <2>2 DEF Holds, Skip
<1>2. CASE m \in [kind : {"again"}, chain : Chains, block : 0 .. s.blocks, resume : KeptIn(s)]
  <2>1. m.kind = "again" /\ m.chain \in Chains /\ m.block \in 0 .. s.blocks /\ m.resume \in KeptIn(s)
    BY <1>2
  <2>2. m # Process
    BY <2>1 DEF Process
  <2> QED
    BY <2>1, <2>2 DEF Holds, Skip
<1>3. CASE m = Process
  BY <1>3 DEF Process, Holds
<1> QED
  BY <1>1, <1>2, <1>3 DEF Messages

LEMMA MadeMessages ==
  ASSUME NEW s \in Setups, NEW c \in Chains, NEW b \in 0 .. s.blocks
  PROVE  /\ Process \in Messages(s)
         /\ \A i \in BOOLEAN : /\ New(c, b, i) \in Messages(s) /\ Holds(New(c, b, i))
                               /\ New(c, b, i).chain = c /\ New(c, b, i).block = b
                               /\ New(c, b, i).initial = i /\ Skip(New(c, b, i)) = NoResume
         /\ \A p \in KeptIn(s) : /\ Again(c, b, p) \in Messages(s) /\ Holds(Again(c, b, p))
                                 /\ Again(c, b, p).chain = c /\ Again(c, b, p).block = b
                                 /\ Again(c, b, p).kind = "again" /\ Skip(Again(c, b, p)) = p
  BY DEF New, Again, Messages, Holds, Skip

-----------------------------------------------------------------------------
(* The scheduler's channel.                                                  *)

\* What the scheduler leaves of its messages: the first is taken, and at most
\* a ProcessBlock is added.
Taken(q, r) ==
    /\ 1 \in DOMAIN q /\ Head(q) = q[1]
    /\ \A k \in DOMAIN r : k \in Nat /\ (r[k] = Process \/ (k + 1 \in DOMAIN q /\ r[k] = q[k + 1]))
    /\ \A k \in DOMAIN q : k # 1 => k - 1 \in DOMAIN r /\ r[k - 1] = q[k] /\ k \in Nat

LEMMA BoxTaken ==
  ASSUME NEW S, Process \in S, NEW q \in Seq(S), q # << >>, NEW r, r = Tail(q) \/ r = Tail(q) \o <<Process>>
  PROVE  r \in Seq(S) /\ q[1] \in S /\ Taken(q, r)
<1> DEFINE t == Tail(q)  n == Len(q)
<1>1. n \in Nat \ {0} /\ DOMAIN q = 1 .. n
  BY EmptySeq, LenProperties
<1>a. 1 \in DOMAIN q
  <2>1. \A m \in Nat \ {0} : 1 \in 1 .. m
    OBVIOUS
  <2> QED
    BY <1>1, <2>1
<1>2. t \in Seq(S) /\ Len(t) = n - 1 /\ \A i \in 1 .. n - 1 : t[i] = q[i + 1]
  BY HeadTailProperties
<1>3. q[1] \in S /\ Head(q) = q[1]
  <2>1. 1 \in 1 .. Len(q)
    BY <1>1, <1>a
  <2> QED
    BY <2>1, ElementOfSeq DEF Head
<1>4. DOMAIN t = 1 .. n - 1
  BY <1>2, LenProperties
<1> HIDE DEF t, n
<1>5. CASE r = t
  <2>1. r = Tail(q) /\ DOMAIN r = 1 .. n - 1 /\ \A k \in 1 .. n - 1 : r[k] = q[k + 1]
    BY <1>5, <1>2, <1>4 DEF t
  <2>2. \A k \in DOMAIN r : k \in Nat /\ k + 1 \in DOMAIN q
    BY <2>1, <1>1
  <2>3. \A k \in DOMAIN q : k # 1 => k - 1 \in DOMAIN r /\ r[k - 1] = q[k] /\ k \in Nat
    <3> SUFFICES ASSUME NEW k \in 1 .. n, k # 1 PROVE k - 1 \in 1 .. n - 1 /\ r[k - 1] = q[k] /\ k \in Nat
      BY <1>1, <2>1
    <3>1. k - 1 \in 1 .. n - 1 /\ (k - 1) + 1 = k /\ k \in Nat
      BY <1>1
    <3> QED
      BY <3>1, <2>1
  <2> QED
    BY <1>a, <1>2, <1>3, <1>5, <2>1, <2>2, <2>3 DEF Taken
<1>6. CASE r = t \o <<Process>>
  <2>1. <<Process>> \in Seq(S) /\ Len(<<Process>>) = 1 /\ <<Process>>[1] = Process
    OBVIOUS
  <2>2. /\ r \in Seq(S) /\ Len(r) = n
        /\ \A i \in 1 .. n : r[i] = IF i <= n - 1 THEN t[i] ELSE <<Process>>[i - (n - 1)]
    BY <1>1, <1>2, <1>6, <2>1, ConcatProperties
  <2>3. DOMAIN r = 1 .. n
    BY <2>2, LenProperties
  <2>4. r[n] = Process
    <3>1. n \in 1 .. n /\ ~(n <= n - 1) /\ n - (n - 1) = 1
      BY <1>1
    <3> QED
      BY <3>1, <2>1, <2>2
  <2>5. \A k \in 1 .. n - 1 : k \in 1 .. n /\ k + 1 \in 1 .. n /\ r[k] = q[k + 1]
    <3> SUFFICES ASSUME NEW k \in 1 .. n - 1 PROVE k \in 1 .. n /\ k + 1 \in 1 .. n /\ r[k] = q[k + 1]
      OBVIOUS
    <3>1. k \in 1 .. n /\ k + 1 \in 1 .. n /\ k <= n - 1
      BY <1>1
    <3> QED
      BY <3>1, <1>2, <2>2
  <2>6. \A k \in DOMAIN r : k \in Nat /\ (r[k] = Process \/ (k + 1 \in DOMAIN q /\ r[k] = q[k + 1]))
    <3> SUFFICES ASSUME NEW k \in 1 .. n PROVE k \in Nat /\ (r[k] = Process \/ (k + 1 \in 1 .. n /\ r[k] = q[k + 1]))
      BY <2>3, <1>1
    <3>1. k \in Nat /\ (k = n \/ k \in 1 .. n - 1)
      BY <1>1
    <3> QED
      BY <3>1, <2>4, <2>5
  <2>7. \A k \in DOMAIN q : k # 1 => k - 1 \in DOMAIN r /\ r[k - 1] = q[k] /\ k \in Nat
    <3> SUFFICES ASSUME NEW k \in 1 .. n, k # 1 PROVE k - 1 \in 1 .. n /\ r[k - 1] = q[k] /\ k \in Nat
      BY <1>1, <2>3
    <3>1. k - 1 \in 1 .. n - 1 /\ (k - 1) + 1 = k /\ k \in Nat
      BY <1>1
    <3> QED
      BY <3>1, <2>5
  <2> QED
    BY <1>a, <1>3, <1>6, <2>2, <2>6, <2>7 DEF Taken
<1> QED
  BY <1>5, <1>6 DEF t

\* Messages are added at the end.
Added(q, m, r) ==
    /\ Len(q) \in Nat
    /\ \A k \in DOMAIN q : k \in DOMAIN r /\ r[k] = q[k] /\ k \in Nat /\ k <= Len(q)
    /\ \A k \in DOMAIN r :
            /\ k \in Nat
            /\ \/ k \in DOMAIN q /\ r[k] = q[k]
               \/ k > Len(q) /\ k - Len(q) \in DOMAIN m /\ r[k] = m[k - Len(q)]
    /\ \A j \in DOMAIN m : Len(q) + j \in DOMAIN r /\ r[Len(q) + j] = m[j] /\ j \in Nat \ {0}

LEMMA BoxAdded ==
  ASSUME NEW S, NEW q \in Seq(S), NEW m \in Seq(S), NEW r, r = q \o m
  PROVE  r \in Seq(S) /\ Added(q, m, r)
<1> DEFINE n == Len(q)  l == Len(m)
<1>1. n \in Nat /\ l \in Nat /\ DOMAIN q = 1 .. n /\ DOMAIN m = 1 .. l
  BY LenProperties
<1>2. /\ r \in Seq(S) /\ Len(r) = n + l
      /\ \A i \in 1 .. n + l : r[i] = IF i <= n THEN q[i] ELSE m[i - n]
  BY ConcatProperties
<1>3. DOMAIN r = 1 .. n + l
  BY <1>2, LenProperties
<1> HIDE DEF n, l
<1>4. ASSUME NEW k \in 1 .. n PROVE k \in 1 .. n + l /\ r[k] = q[k] /\ k \in Nat /\ k <= n
  BY <1>1, <1>2
<1>5. ASSUME NEW k \in 1 .. n + l
      PROVE k \in Nat /\ ((k \in 1 .. n /\ r[k] = q[k]) \/ (k > n /\ k - n \in 1 .. l /\ r[k] = m[k - n]))
  <2>1. k \in Nat /\ (k \in 1 .. n \/ (k > n /\ ~(k <= n) /\ k - n \in 1 .. l))
    BY <1>1
  <2> QED
    BY <2>1, <1>2
<1>6. ASSUME NEW j \in 1 .. l PROVE n + j \in 1 .. n + l /\ r[n + j] = m[j] /\ j \in Nat \ {0}
  <2>1. n + j \in 1 .. n + l /\ ~(n + j <= n) /\ (n + j) - n = j /\ j \in Nat \ {0}
    BY <1>1
  <2> QED
    BY <2>1, <1>2
<1> QED
  BY <1>1, <1>2, <1>3, <1>4, <1>5, <1>6 DEF n, Added

LEMMA InboxTypes ==
  ASSUME Types
  PROVE  /\ setup \in Setups /\ inbox \in Seq(Messages(setup)) /\ Process \in Messages(setup)
         /\ \A k \in DOMAIN inbox : inbox[k] \in Messages(setup) /\ k \in Nat \ {0}
<1>1. setup \in Setups /\ inbox \in Seq(Messages(setup))
  BY DEF Types
<1>2. DOMAIN inbox = 1 .. Len(inbox) /\ Len(inbox) \in Nat /\ \A k \in 1 .. Len(inbox) : inbox[k] \in Messages(setup)
  BY <1>1, LenProperties, ElementOfSeq
<1>3. Process \in Messages(setup)
  BY DEF Messages
<1> QED
  BY <1>1, <1>2, <1>3

\* The scheduler takes a message: the blocks of the others stay apart, every
\* initial block is still followed by a ProcessBlock, and a ProcessBlock that
\* was on its way still is, unless it is the one taken.
LEMMA BoxStep ==
  ASSUME Types, InBox, Followed, inbox # << >>, setup' = setup,
         inbox' = Tail(inbox) \/ inbox' = Tail(inbox) \o <<Process>>
  PROVE  /\ inbox' \in Seq(Messages(setup)) /\ 1 \in DOMAIN inbox
         /\ inbox[1] = Head(inbox) /\ inbox[1] \in Messages(setup)
         /\ \A k \in DOMAIN inbox' : Holds(inbox'[k]) =>
                /\ k + 1 \in DOMAIN inbox /\ inbox'[k] = inbox[k + 1] /\ inbox'[k] \in Messages(setup)
                /\ Holds(inbox[1]) => ~Same(inbox[1], inbox'[k])
                /\ \A j \in DOMAIN inbox' : j # k /\ Holds(inbox'[j]) => ~Same(inbox'[j], inbox'[k])
         /\ Followed'
         /\ Called /\ inbox[1] # Process => Called'
         /\ inbox[1].kind = "new" /\ inbox[1].initial => Called'
         /\ inbox' = Tail(inbox) \o <<Process>> => Called'
<1>1. /\ setup \in Setups /\ inbox \in Seq(Messages(setup)) /\ Process \in Messages(setup)
      /\ \A k \in DOMAIN inbox : inbox[k] \in Messages(setup) /\ k \in Nat \ {0}
  BY InboxTypes
<1>b. /\ 1 \in DOMAIN inbox /\ Head(inbox) = inbox[1] /\ inbox[1] \in Messages(setup)
      /\ inbox' \in Seq(Messages(setup))
      /\ \A k \in DOMAIN inbox' : /\ k \in Nat
                                 /\ \/ inbox'[k] = Process
                                    \/ k + 1 \in DOMAIN inbox /\ inbox'[k] = inbox[k + 1]
      /\ \A k \in DOMAIN inbox : k # 1 => /\ k - 1 \in DOMAIN inbox' /\ inbox'[k - 1] = inbox[k] /\ k \in Nat
  <2>1. inbox' \in Seq(Messages(setup)) /\ inbox[1] \in Messages(setup) /\ Taken(inbox, inbox')
    BY <1>1, BoxTaken
  <2> QED
    BY <2>1 DEF Taken
<1>3. \A k \in DOMAIN inbox' : /\ k \in Nat
                               /\ \/ inbox'[k] = Process
                                  \/ k + 1 \in DOMAIN inbox /\ inbox'[k] = inbox[k + 1]
  BY <1>b
<1>4. \A k \in DOMAIN inbox : k # 1 => k - 1 \in DOMAIN inbox' /\ inbox'[k - 1] = inbox[k] /\ k \in Nat
  BY <1>b
<1>p. ~Holds(Process) /\ Process.kind # "new"
  BY DEF Holds, Process
<1>6. ASSUME NEW k \in DOMAIN inbox', Holds(inbox'[k])
      PROVE  k \in Nat /\ k + 1 \in DOMAIN inbox /\ inbox'[k] = inbox[k + 1] /\ k + 1 # 1
  <2>1. k \in Nat /\ inbox'[k] # Process
    BY <1>3, <1>6, <1>p
  <2>2. k + 1 \in DOMAIN inbox /\ inbox'[k] = inbox[k + 1]
    BY <1>3, <2>1
  <2>3. k + 1 # 1
    BY <1>1, <1>3, <2>1, <2>2
  <2> QED
    BY <2>1, <2>2, <2>3
<1>7. ASSUME NEW k \in DOMAIN inbox', Holds(inbox'[k])
      PROVE  /\ inbox'[k] \in Messages(setup)
             /\ Holds(inbox[1]) => ~Same(inbox[1], inbox'[k])
             /\ \A j \in DOMAIN inbox' : j # k /\ Holds(inbox'[j]) => ~Same(inbox'[j], inbox'[k])
  <2>1. k \in Nat /\ k + 1 \in DOMAIN inbox /\ inbox'[k] = inbox[k + 1] /\ k + 1 # 1
    BY <1>6, <1>7
  <2>2. Holds(inbox[1]) => ~Same(inbox[1], inbox'[k])
    BY <2>1, <1>b, <1>7 DEF InBox
  <2>3. ASSUME NEW j \in DOMAIN inbox', j # k, Holds(inbox'[j])
        PROVE  ~Same(inbox'[j], inbox'[k])
    <3>1. j \in Nat /\ j + 1 \in DOMAIN inbox /\ inbox'[j] = inbox[j + 1]
      BY <1>6, <2>3
    <3>2. j + 1 # k + 1
      BY <2>1, <2>3, <3>1
    <3> QED
      BY <2>1, <2>3, <3>1, <3>2, <1>7 DEF InBox
  <2> QED
    BY <1>1, <2>1, <2>2, <2>3
<1>8. Followed'
  <2> SUFFICES ASSUME NEW k \in DOMAIN inbox', inbox'[k].kind = "new", inbox'[k].initial
               PROVE  \E j \in DOMAIN inbox' : j > k /\ inbox'[j] = Process
    BY DEF Followed
  <2>1. Holds(inbox'[k])
    BY DEF Holds
  <2>2. k \in Nat /\ k + 1 \in DOMAIN inbox /\ inbox'[k] = inbox[k + 1]
    BY <2>1, <1>6
  <2>3. PICK j \in DOMAIN inbox : j > k + 1 /\ inbox[j] = Process
    BY <2>2 DEF Followed
  <2>4. j \in Nat /\ j # 1 /\ j - 1 > k
    BY <2>2, <2>3, <1>1
  <2>5. j - 1 \in DOMAIN inbox' /\ inbox'[j - 1] = Process
    BY <2>3, <2>4, <1>4
  <2> QED
    BY <2>4, <2>5
<1>9. ASSUME NEW j \in DOMAIN inbox, j # 1, inbox[j] = Process PROVE Called'
  <2>1. j - 1 \in DOMAIN inbox' /\ inbox'[j - 1] = Process
    BY <1>4, <1>9
  <2> QED
    BY <2>1 DEF Called
<1>10. Called /\ inbox[1] # Process => Called'
  <2> SUFFICES ASSUME Called, inbox[1] # Process PROVE Called'
    OBVIOUS
  <2>1. PICK j \in DOMAIN inbox : inbox[j] = Process
    BY DEF Called
  <2> QED
    BY <2>1, <1>9
<1>11. inbox[1].kind = "new" /\ inbox[1].initial => Called'
  <2> SUFFICES ASSUME inbox[1].kind = "new", inbox[1].initial PROVE Called'
    OBVIOUS
  <2>1. PICK j \in DOMAIN inbox : j > 1 /\ inbox[j] = Process
    BY <1>b DEF Followed
  <2>2. j # 1
    BY <2>1, <1>1
  <2> QED
    BY <2>1, <2>2, <1>9
<1>12. inbox' = Tail(inbox) \o <<Process>> => Called'
  <2> SUFFICES ASSUME inbox' = Tail(inbox) \o <<Process>> PROVE Called'
    OBVIOUS
  <2>1. Tail(inbox) \in Seq(Messages(setup)) /\ <<Process>> \in Seq(Messages(setup)) /\ 1 \in DOMAIN <<Process>>
    BY <1>1, HeadTailProperties
  <2>2. Added(Tail(inbox), <<Process>>, inbox')
    BY <2>1, BoxAdded
  <2>3. Len(Tail(inbox)) + 1 \in DOMAIN inbox' /\ inbox'[Len(Tail(inbox)) + 1] = <<Process>>[1]
    BY <2>1, <2>2 DEF Added
  <2> QED
    BY <2>3 DEF Called
<1> QED
  BY <1>b, <1>6, <1>7, <1>8, <1>10, <1>11, <1>12

-----------------------------------------------------------------------------
(* The beginning.                                                            *)

LEMMA ChainFacts ==
  /\ Chains \in SUBSET Nat /\ IsFiniteSet(Chains) /\ 0 \in Chains
  /\ \A c \in Chains, e \in Chains : /\ Prio(c) = Prio(e) <=> c = e
                                     /\ Prio(c) > Prio(e) <=> c < e
                                     /\ Prio(c) >= Prio(e) <=> c <= e
<1>1. NumChains \in Nat \ {0}
  BY ConstantsAssumption
<1>2. IsFiniteSet(0 .. NumChains - 1)
  BY <1>1, FS_Interval
<1> QED
  BY <1>1, <1>2 DEF Chains, Prio

\* Nothing has been read of a block that was not taken up.
LEMMA FreshIsGood ==
  ASSUME NEW s \in Setups, NEW t, NEW S, NEW P, NEW c, NEW b, b <= t[c],
         \A d, i, r : <<c, b, d, i, r>> \notin S
  PROVE  Good(s, t, S, P, c, b, NoResume)
<1>1. Exact(s, S, c, b, NoResume)
  <2> SUFFICES ASSUME NEW d \in 1 .. s.disks, NEW i \in 1 .. Len(s.reads[d]), NEW r \in 0 .. s.reads[d][i] - 1
               PROVE  ~(r < From(s, NoResume)[d][i])
    BY DEF Exact
  <2>1. From(s, NoResume)[d][i] = 0
    BY NothingKept
  <2>2. s.reads[d][i] \in Nat
    BY SetupFacts
  <2> QED
    BY <2>1, <2>2
<1> QED
  BY <1>1 DEF Good

LEMMA InitialBox ==
  ASSUME Init
  PROVE  /\ inbox \in Seq(Messages(setup)) /\ tip \in [Chains -> Blocks]
         /\ \A k \in DOMAIN inbox : Holds(inbox[k]) =>
                /\ inbox[k] \in Messages(setup) /\ Skip(inbox[k]) = NoResume
                /\ inbox[k].block = 1 /\ tip[inbox[k].chain] = 1
                /\ \A j \in DOMAIN inbox : j # k /\ Holds(inbox[j]) => inbox[j].chain # inbox[k].chain
         /\ Followed
<1>1. setup \in Setups
  BY DEF Init
<1>2. PICK known \in SUBSET Chains : \E order \in SetToSeqs(known) :
        /\ tip = [c \in Chains |-> IF c \in known THEN 1 ELSE 0]
        /\ inbox = [k \in 1 .. Len(order) |-> New(order[k], 1, TRUE)] \o <<Process>>
  BY DEF Init
<1>3. PICK order \in SetToSeqs(known) :
        /\ tip = [c \in Chains |-> IF c \in known THEN 1 ELSE 0]
        /\ inbox = [k \in 1 .. Len(order) |-> New(order[k], 1, TRUE)] \o <<Process>>
  BY <1>2
<1> DEFINE n == Cardinality(known)
<1>4. n \in Nat
  BY ChainFacts, FS_Subset, FS_CardinalityType
<1>5. order \in [1 .. n -> known] /\ \A i, j \in 1 .. n : i # j => order[i] # order[j]
  BY DEF SetToSeqs
<1>6. Len(order) = n
  <2>1. order \in Seq(known)
    BY <1>4, <1>5, SeqDef
  <2>2. Len(order) \in Nat /\ DOMAIN order = 1 .. Len(order)
    BY <2>1, LenProperties
  <2>3. 1 .. Len(order) = 1 .. n
    BY <1>5, <2>2
  <2>4. \A x, y \in Nat : 1 .. x = 1 .. y => x = y
    <3> SUFFICES ASSUME NEW x \in Nat, NEW y \in Nat, 1 .. x = 1 .. y, x # y PROVE FALSE
      OBVIOUS
    <3>1. x \in 1 .. x <=> x \in 1 .. y
      OBVIOUS
    <3>2. y \in 1 .. x <=> y \in 1 .. y
      OBVIOUS
    <3> QED
      BY <3>1, <3>2
  <2> QED
    BY <1>4, <2>2, <2>3, <2>4
<1> DEFINE a == [k \in 1 .. n |-> New(order[k], 1, TRUE)]
<1> HIDE DEF n
<1>7. \A k \in 1 .. n : /\ a[k] \in Messages(setup) /\ Holds(a[k]) /\ a[k].chain = order[k] /\ a[k].block = 1
                        /\ a[k].initial /\ Skip(a[k]) = NoResume
  <2> SUFFICES ASSUME NEW k \in 1 .. n
               PROVE  /\ a[k] \in Messages(setup) /\ Holds(a[k]) /\ a[k].chain = order[k] /\ a[k].block = 1
                      /\ a[k].initial /\ Skip(a[k]) = NoResume
    OBVIOUS
  <2>1. order[k] \in Chains /\ 1 \in 0 .. setup.blocks /\ a[k] = New(order[k], 1, TRUE)
    BY <1>1, <1>5, SetupFacts
  <2>2. TRUE \in BOOLEAN
    OBVIOUS
  <2> HIDE DEF a
  <2>3. New(order[k], 1, TRUE) \in Messages(setup)
    BY <2>1, <2>2 DEF New, Messages
  <2> QED
    BY <2>1, <2>3 DEF New, Holds, Skip
<1>8. a \in [1 .. n -> Messages(setup)]
  BY <1>7
<1>9. a \in Seq(Messages(setup)) /\ DOMAIN a = 1 .. n
  <2>1. DOMAIN a = 1 .. n
    OBVIOUS
  <2> HIDE DEF a
  <2> QED
    BY <1>4, <1>8, <2>1, SeqDef
<1>10. Len(a) = n
  <2>1. Len(a) \in Nat /\ DOMAIN a = 1 .. Len(a)
    BY <1>9, LenProperties
  <2>2. \A x, y \in Nat : 1 .. x = 1 .. y => x = y
    <3> SUFFICES ASSUME NEW x \in Nat, NEW y \in Nat, 1 .. x = 1 .. y, x # y PROVE FALSE
      OBVIOUS
    <3>1. x \in 1 .. x <=> x \in 1 .. y
      OBVIOUS
    <3>2. y \in 1 .. x <=> y \in 1 .. y
      OBVIOUS
    <3> QED
      BY <3>1, <3>2
  <2> QED
    BY <1>4, <1>9, <2>1, <2>2
<1>11. inbox = a \o <<Process>>
  BY <1>3, <1>6
<1> HIDE DEF a
<1>12. Process \in Messages(setup) /\ <<Process>> \in Seq(Messages(setup)) /\ DOMAIN <<Process>> = {1} /\ <<Process>>[1] = Process
  <2>1. Process \in Messages(setup)
    BY DEF Messages
  <2> QED
    BY <2>1
<1>13. /\ inbox \in Seq(Messages(setup))
       /\ \A k \in DOMAIN inbox : k \in Nat /\ ((k \in 1 .. n /\ inbox[k] = a[k]) \/ (k > n /\ inbox[k] = Process))
       /\ \A j \in DOMAIN <<Process>> : n + j \in DOMAIN inbox /\ inbox[n + j] = <<Process>>[j]
  <2>1. /\ inbox \in Seq(Messages(setup))
        /\ \A k \in DOMAIN inbox :
              /\ k \in Nat
              /\ \/ k \in DOMAIN a /\ inbox[k] = a[k]
                 \/ k > Len(a) /\ k - Len(a) \in DOMAIN <<Process>> /\ inbox[k] = <<Process>>[k - Len(a)]
        /\ \A j \in DOMAIN <<Process>> : Len(a) + j \in DOMAIN inbox /\ inbox[Len(a) + j] = <<Process>>[j]
    <3>1. inbox \in Seq(Messages(setup)) /\ Added(a, <<Process>>, inbox)
      BY <1>9, <1>11, <1>12, BoxAdded
    <3> QED
      BY <3>1 DEF Added
  <2>2. ASSUME NEW k \in DOMAIN inbox
        PROVE  k \in Nat /\ ((k \in 1 .. n /\ inbox[k] = a[k]) \/ (k > n /\ inbox[k] = Process))
    <3>1. k \in Nat /\ ((k \in 1 .. n /\ inbox[k] = a[k]) \/ (k > n /\ k - n \in {1} /\ inbox[k] = <<Process>>[k - n]))
      BY <2>1, <1>9, <1>10, <1>12
    <3> QED
      BY <3>1, <1>12
  <2> QED
    BY <2>1, <2>2, <1>10
<1>p. ~Holds(Process) /\ Process.kind # "new"
  BY DEF Holds, Process
<1>14. ASSUME NEW k \in DOMAIN inbox, Holds(inbox[k])
       PROVE  /\ inbox[k] \in Messages(setup) /\ Skip(inbox[k]) = NoResume
              /\ inbox[k].block = 1 /\ tip[inbox[k].chain] = 1
              /\ \A j \in DOMAIN inbox : j # k /\ Holds(inbox[j]) => inbox[j].chain # inbox[k].chain
  <2>1. k \in 1 .. n /\ inbox[k] = a[k]
    BY <1>13, <1>14, <1>p
  <2>2. inbox[k] \in Messages(setup) /\ inbox[k].chain = order[k] /\ inbox[k].block = 1 /\ Skip(inbox[k]) = NoResume
    BY <2>1, <1>7
  <2>3. order[k] \in known /\ tip[order[k]] = 1
    BY <1>3, <1>5, <2>1
  <2>4. ASSUME NEW j \in DOMAIN inbox, j # k, Holds(inbox[j]) PROVE inbox[j].chain # inbox[k].chain
    <3>1. j \in 1 .. n /\ inbox[j] = a[j]
      BY <1>13, <2>4, <1>p
    <3>2. inbox[j].chain = order[j]
      BY <3>1, <1>7
    <3> QED
      BY <3>1, <3>2, <2>1, <2>2, <2>4, <1>5
  <2> QED
    BY <2>2, <2>3, <2>4
<1>15. Followed
  <2> SUFFICES ASSUME NEW k \in DOMAIN inbox, inbox[k].kind = "new"
               PROVE  \E j \in DOMAIN inbox : j > k /\ inbox[j] = Process
    BY DEF Followed
  <2>1. k \in 1 .. n
    BY <1>13, <1>p
  <2>2. n + 1 \in DOMAIN inbox /\ inbox[n + 1] = Process
    BY <1>12, <1>13
  <2>3. n + 1 > k
    BY <1>4, <2>1
  <2> QED
    BY <2>2, <2>3
<1>16. tip \in [Chains -> Blocks]
  <2>1. 0 \in Blocks /\ 1 \in Blocks
    BY <1>1, SetupFacts DEF Blocks
  <2> QED
    BY <2>1, <1>3
<1> QED
  BY <1>13, <1>14, <1>15, <1>16

LEMMA InitIInv == Init => IInv
<1> SUFFICES ASSUME Init PROVE IInv
  OBVIOUS
<1>1. /\ setup \in Setups
      /\ pq = {} /\ info = [c \in Chains |-> 0] /\ resume = [c \in Chains |-> NoResume]
      /\ scanning = FALSE /\ interrupt = FALSE /\ pause = FALSE /\ current = 0
      /\ round = NoRound /\ roundPc = "none"
      /\ progress = Nothing /\ reader = [d \in Disks |-> "none"]
      /\ pool = NumBuffers /\ hashing = {}
      /\ cancelled = FALSE /\ late = FALSE /\ drained = FALSE
      /\ read = {} /\ scanned = {} /\ reported = {} /\ paused = {}
  BY Zenon DEF Init
<1>2. Disks = 1 .. setup.disks /\ IsFiniteSet(Disks)
  <2>1. setup.disks \in Nat
    BY <1>1, SetupFacts
  <2> QED
    BY <2>1, FS_Interval DEF Disks
<1>3. NumBuffers \in Nat
  BY <1>2, FS_CardinalityType, ConstantsAssumption DEF NumBuffers
<1>4. Nothing = From(setup, NoResume)
  BY DEF Nothing, From, Disks, Plots, Reads
<1>5. Types
  <2>1. progress \in KeptIn(setup)
    BY <1>1, <1>4, NothingKept
  <2>2. 0 \in Blocks /\ 0 \in Chains
    BY <1>1, SetupFacts, ChainFacts DEF Blocks
  <2>3. IsFiniteSet(hashing)
    BY <1>1, FS_EmptySet
  <2>4. round \in [chain : Chains, block : Blocks, resume : {NoResume} \cup KeptIn(setup)]
    BY <1>1, <2>2 DEF NoRound
  <2>5. reader \in [Disks -> {"none", "take", "read", "finished", "interrupted"}]
    BY <1>1
  <2>6. info \in [Chains -> Blocks] /\ resume \in [Chains -> {NoResume} \cup KeptIn(setup)]
    BY <1>1, <2>2
  <2> QED
    BY <1>1, <1>3, <2>1, <2>2, <2>3, <2>4, <2>5, <2>6, InitialBox DEF Types
<1>6. KnownReads
  BY <1>1 DEF KnownReads
<1>7. InBox
  <2> SUFFICES ASSUME NEW k \in DOMAIN inbox, Holds(inbox[k])
               PROVE  /\ Good(setup, tip, read, paused, inbox[k].chain, inbox[k].block, Skip(inbox[k]))
                      /\ \A j \in DOMAIN inbox : j # k /\ Holds(inbox[j]) => ~Same(inbox[j], inbox[k])
    BY <1>1 DEF InBox
  <2>1. /\ Skip(inbox[k]) = NoResume
        /\ inbox[k].block = 1 /\ tip[inbox[k].chain] = 1
        /\ \A j \in DOMAIN inbox : j # k /\ Holds(inbox[j]) => inbox[j].chain # inbox[k].chain
    BY InitialBox
  <2>2. Good(setup, tip, read, paused, inbox[k].chain, inbox[k].block, NoResume)
    BY <1>1, <2>1, FreshIsGood
  <2> QED
    BY <2>1, <2>2 DEF Same
<1>8. InQueue
  <2>1. tip \in [Chains -> Nat]
    BY <1>1, InitialBox, SetupFacts DEF Blocks
  <2> QED
    BY <1>1, <2>1 DEF InQueue
<1>9. InRound /\ ScannedSoFar /\ FinishedIsScanned /\ Owed
  BY <1>1 DEF InRound, ScannedSoFar, FinishedIsScanned, Owed
<1>10. Control
  BY <1>1 DEF Control
<1>11. Balance
  <2>1. Reading = {}
    BY <1>1 DEF Reading
  <2> QED
    BY <1>1, <1>3, <2>1, FS_EmptySet DEF Balance, Buffers
<1> QED
  BY <1>5, <1>6, <1>7, <1>8, <1>9, <1>10, <1>11, InitialBox DEF IInv

-----------------------------------------------------------------------------
(* What a step leaves alone.                                                 *)

LEMMA SameDisks ==
  ASSUME setup' = setup
  PROVE  /\ Disks' = Disks /\ Reads' = Reads /\ Mineable' = Mineable /\ Blocks' = Blocks
         /\ NumBuffers' = NumBuffers
         /\ \A d \in Disks : Plots(d)' = Plots(d)
  BY DEF Disks, Reads, Mineable, Blocks, NumBuffers, Plots

LEMMA SameHistory ==
  ASSUME FinishedIsScanned, UNCHANGED <<setup, scanned, reported, paused>>
  PROVE  FinishedIsScanned'
  BY DEF FinishedIsScanned, Disks, Reads, Mineable, Plots

LEMMA SameReads ==
  ASSUME KnownReads, UNCHANGED <<tip, read, hashing>>
  PROVE  KnownReads'
  BY DEF KnownReads

LEMMA SameBuffers ==
  ASSUME Balance, UNCHANGED <<setup, reader, pool, hashing, drained>>
  PROVE  Balance'
  BY DEF Balance, Buffers, Reading, NumBuffers, Disks

LEMMA SameRound ==
  ASSUME InRound, UNCHANGED <<setup, tip, read, paused, roundPc, round, progress>>
  PROVE  InRound'
  BY DEF InRound

LEMMA SameReaders ==
  ASSUME Control, UNCHANGED <<setup, scanning, interrupt, pause, current, roundPc, round, progress, reader>>
  PROVE  Control'
<1>1. ASSUME NEW d \in Disks PROVE Unread(d)' = Unread(d)
  BY DEF Unread, Plots, Reads, Mineable
<1> QED
  BY <1>1 DEF Control, Disks

LEMMA SameScan ==
  ASSUME ScannedSoFar, UNCHANGED <<setup, roundPc, round, paused, progress, reader, scanned>>
  PROVE  ScannedSoFar'
  BY DEF ScannedSoFar, Disks, Plots, Reads

LEMMA SameQueue ==
  ASSUME InQueue, UNCHANGED <<setup, tip, read, paused, pq, info, resume, roundPc, round>>
  PROVE  InQueue'
  BY DEF InQueue

LEMMA SameBox ==
  ASSUME InBox, Followed, UNCHANGED <<setup, tip, read, paused, inbox, pq, info, roundPc, round>>
  PROVE  InBox' /\ Followed'
  BY DEF InBox, Followed

\* What holds whatever the scheduler does with a message.
LEMMA HandlerRest ==
  ASSUME IInv, UNCHANGED <<setup, tip, drained, bufferVars, history, progress, reader>>
  PROVE  KnownReads' /\ Balance' /\ FinishedIsScanned'
  BY SameHistory, SameReads, SameBuffers DEF IInv, bufferVars, history

LEMMA HandlerRound ==
  ASSUME IInv, UNCHANGED <<setup, tip, drained, bufferVars, history, stateVars, roundVars>>
  PROVE  KnownReads' /\ Balance' /\ FinishedIsScanned' /\ InRound' /\ Control' /\ ScannedSoFar'
  BY HandlerRest, SameRound, SameReaders, SameScan DEF IInv, bufferVars, history, stateVars, roundVars

-----------------------------------------------------------------------------
(* The scheduler.                                                            *)

LEMMA ScheduleNewBlockKeeps ==
  ASSUME IInv, ScheduleNewBlock
  PROVE  IInv'
<1> DEFINE m == inbox[1]
<1>1. /\ inbox # << >> /\ Head(inbox).kind = "new"
      /\ pq' = pq \union {Head(inbox).chain}
      /\ info' = [info EXCEPT ![Head(inbox).chain] = Head(inbox).block]
      /\ resume' = [resume EXCEPT ![Head(inbox).chain] = NoResume]
      /\ inbox' = IF Head(inbox).initial THEN Tail(inbox) ELSE Send(Tail(inbox), <<Process>>)
      /\ UNCHANGED <<tip, setup, cancelled, drained, history, stateVars, roundVars, bufferVars>> /\ late' = FALSE
  BY DEF ScheduleNewBlock, Take
<1>2. /\ inbox' = Tail(inbox) \/ inbox' = Tail(inbox) \o <<Process>>
      /\ ~cancelled => Head(inbox).initial \/ inbox' = Tail(inbox) \o <<Process>>
  BY <1>1 DEF Send
<1>3. Types /\ InBox /\ InQueue /\ Followed /\ Owed
  BY DEF IInv
<1>4. /\ inbox' \in Seq(Messages(setup))
      /\ m = Head(inbox) /\ m \in Messages(setup)
      /\ \A k \in DOMAIN inbox' : Holds(inbox'[k]) =>
             /\ k + 1 \in DOMAIN inbox /\ inbox'[k] = inbox[k + 1] /\ inbox'[k] \in Messages(setup)
             /\ Holds(m) => ~Same(m, inbox'[k])
             /\ \A j \in DOMAIN inbox' : j # k /\ Holds(inbox'[j]) => ~Same(inbox'[j], inbox'[k])
      /\ 1 \in DOMAIN inbox
  BY <1>1, <1>2, <1>3, BoxStep
<1>5. Followed' /\ (~cancelled => Called')
  BY <1>1, <1>2, <1>3, BoxStep
<1>6. Holds(m) /\ Skip(m) = NoResume /\ m.chain \in Chains /\ m.block \in 0 .. setup.blocks
  BY <1>1, <1>3, <1>4, MessageFacts DEF Types
<1>7. /\ pq' = pq \union {m.chain} /\ info' = [info EXCEPT ![m.chain] = m.block]
      /\ resume' = [resume EXCEPT ![m.chain] = NoResume]
  BY <1>1, <1>4
<1>8. Types'
  BY <1>1, <1>3, <1>4, <1>6, <1>7, SameDisks DEF Types, stateVars, roundVars, bufferVars, history, Blocks
<1>9. /\ setup' = setup /\ tip' = tip /\ read' = read /\ paused' = paused /\ roundPc' = roundPc /\ round' = round
      /\ scanning' = scanning /\ interrupt' = interrupt /\ current' = current /\ cancelled' = cancelled
  BY <1>1 DEF roundVars, history, stateVars
<1>10. /\ Good(setup, tip, read, paused, m.chain, m.block, NoResume)
       /\ roundPc # "none" => ~Same(m, round)
  BY <1>3, <1>4, <1>6 DEF InBox
<1>11. info' \in [Chains -> Blocks] /\ info'[m.chain] = m.block /\ resume'[m.chain] = NoResume
       /\ \A c \in Chains : c # m.chain => info'[c] = info[c] /\ resume'[c] = resume[c]
  BY <1>3, <1>6, <1>7 DEF Types, Blocks
<1> HIDE DEF m
<1>12. InBox'
  <2> SUFFICES ASSUME NEW k \in DOMAIN inbox', Holds(inbox'[k])
               PROVE  /\ Good(setup, tip, read, paused, inbox'[k].chain, inbox'[k].block, Skip(inbox'[k]))
                      /\ \A j \in DOMAIN inbox' : j # k /\ Holds(inbox'[j]) => ~Same(inbox'[j], inbox'[k])
                      /\ inbox'[k].chain \in pq' => inbox'[k].block # info'[inbox'[k].chain]
                      /\ roundPc # "none" => ~Same(inbox'[k], round)
    BY <1>9 DEF InBox
  <2>1. /\ k + 1 \in DOMAIN inbox /\ inbox'[k] = inbox[k + 1] /\ ~Same(m, inbox'[k])
        /\ \A j \in DOMAIN inbox' : j # k /\ Holds(inbox'[j]) => ~Same(inbox'[j], inbox'[k])
    BY <1>4, <1>6
  <2>2. /\ Good(setup, tip, read, paused, inbox'[k].chain, inbox'[k].block, Skip(inbox'[k]))
        /\ inbox'[k].chain \in pq => inbox'[k].block # info[inbox'[k].chain]
        /\ roundPc # "none" => ~Same(inbox'[k], round)
    BY <1>3, <2>1 DEF InBox
  <2>3. inbox'[k].chain \in Chains
    BY <1>3, <1>4, MessageFacts DEF Types
  <2>4. inbox'[k].chain \in pq' => inbox'[k].block # info'[inbox'[k].chain]
    BY <1>7, <1>11, <2>1, <2>2, <2>3 DEF Same
  <2> QED
    BY <2>1, <2>2, <2>4
<1>13. InQueue'
  <2> SUFFICES ASSUME NEW c \in Chains
               PROVE  /\ info'[c] <= tip[c]
                      /\ resume'[c] # NoResume => c \in pq'
                      /\ c \in pq' => Good(setup, tip, read, paused, c, info'[c], resume'[c])
                      /\ c \in pq' /\ roundPc # "none" /\ round.chain = c => round.block # info'[c]
    BY <1>9 DEF InQueue
  <2>1. CASE c = m.chain
    BY <2>1, <1>7, <1>10, <1>11 DEF Same, Good
  <2>2. CASE c # m.chain
    BY <2>2, <1>3, <1>7, <1>11 DEF InQueue
  <2> QED
    BY <2>1, <2>2
<1>14. Owed'
  BY <1>5, <1>9 DEF Owed
<1>15. KnownReads' /\ Balance' /\ FinishedIsScanned' /\ InRound' /\ Control' /\ ScannedSoFar'
  BY <1>1, HandlerRound
<1> QED
  BY <1>5, <1>8, <1>12, <1>13, <1>14, <1>15 DEF IInv

LEMMA RescheduleBlockKeeps ==
  ASSUME IInv, RescheduleBlock
  PROVE  IInv'
<1> DEFINE m == inbox[1]
<1>1. /\ inbox # << >> /\ Head(inbox).kind = "again"
      /\ \/ /\ Head(inbox).chain \notin pq
            /\ pq' = pq \union {Head(inbox).chain}
            /\ info' = [info EXCEPT ![Head(inbox).chain] = Head(inbox).block]
            /\ resume' = [resume EXCEPT ![Head(inbox).chain] = Head(inbox).resume]
         \/ UNCHANGED queueVars
      /\ inbox' = Send(Tail(inbox), <<Process>>)
      /\ UNCHANGED <<tip, setup, cancelled, drained, history, stateVars, roundVars, bufferVars>> /\ late' = FALSE
  BY DEF RescheduleBlock, Take
<1>2. /\ inbox' = Tail(inbox) \/ inbox' = Tail(inbox) \o <<Process>>
      /\ ~cancelled => inbox' = Tail(inbox) \o <<Process>>
  BY <1>1 DEF Send
<1>3. Types /\ InBox /\ InQueue /\ Followed /\ Owed
  BY DEF IInv
<1>4. /\ inbox' \in Seq(Messages(setup))
      /\ m = Head(inbox) /\ m \in Messages(setup)
      /\ \A k \in DOMAIN inbox' : Holds(inbox'[k]) =>
             /\ k + 1 \in DOMAIN inbox /\ inbox'[k] = inbox[k + 1] /\ inbox'[k] \in Messages(setup)
             /\ Holds(m) => ~Same(m, inbox'[k])
             /\ \A j \in DOMAIN inbox' : j # k /\ Holds(inbox'[j]) => ~Same(inbox'[j], inbox'[k])
      /\ 1 \in DOMAIN inbox
  BY <1>1, <1>2, <1>3, BoxStep
<1>5. Followed' /\ (~cancelled => Called')
  BY <1>1, <1>2, <1>3, BoxStep
<1>6. /\ Holds(m) /\ Skip(m) = m.resume /\ m.resume \in KeptIn(setup)
      /\ m.chain \in Chains /\ m.block \in 0 .. setup.blocks
  BY <1>1, <1>3, <1>4, MessageFacts DEF Types
<1>7. \/ /\ m.chain \notin pq /\ pq' = pq \union {m.chain} /\ info' = [info EXCEPT ![m.chain] = m.block]
         /\ resume' = [resume EXCEPT ![m.chain] = m.resume]
      \/ pq' = pq /\ info' = info /\ resume' = resume
  BY <1>1, <1>4 DEF queueVars
<1>8. Types'
  BY <1>1, <1>3, <1>4, <1>6, <1>7, SameDisks DEF Types, stateVars, roundVars, bufferVars, history, Blocks
<1>9. /\ setup' = setup /\ tip' = tip /\ read' = read /\ paused' = paused /\ roundPc' = roundPc /\ round' = round
      /\ scanning' = scanning /\ interrupt' = interrupt /\ current' = current /\ cancelled' = cancelled
  BY <1>1 DEF roundVars, history, stateVars
<1>10. /\ Good(setup, tip, read, paused, m.chain, m.block, m.resume)
       /\ roundPc # "none" => ~Same(m, round)
  BY <1>3, <1>4, <1>6 DEF InBox
<1>11. \/ /\ info'[m.chain] = m.block /\ resume'[m.chain] = m.resume
          /\ \A c \in Chains : c # m.chain => info'[c] = info[c] /\ resume'[c] = resume[c]
          /\ pq' = pq \union {m.chain}
       \/ pq' = pq /\ info' = info /\ resume' = resume
  BY <1>3, <1>6, <1>7 DEF Types, Blocks
<1> HIDE DEF m
<1>12. InBox'
  <2> SUFFICES ASSUME NEW k \in DOMAIN inbox', Holds(inbox'[k])
               PROVE  /\ Good(setup, tip, read, paused, inbox'[k].chain, inbox'[k].block, Skip(inbox'[k]))
                      /\ \A j \in DOMAIN inbox' : j # k /\ Holds(inbox'[j]) => ~Same(inbox'[j], inbox'[k])
                      /\ inbox'[k].chain \in pq' => inbox'[k].block # info'[inbox'[k].chain]
                      /\ roundPc # "none" => ~Same(inbox'[k], round)
    BY <1>9 DEF InBox
  <2>1. /\ k + 1 \in DOMAIN inbox /\ inbox'[k] = inbox[k + 1] /\ ~Same(m, inbox'[k])
        /\ \A j \in DOMAIN inbox' : j # k /\ Holds(inbox'[j]) => ~Same(inbox'[j], inbox'[k])
    BY <1>4, <1>6
  <2>2. /\ Good(setup, tip, read, paused, inbox'[k].chain, inbox'[k].block, Skip(inbox'[k]))
        /\ inbox'[k].chain \in pq => inbox'[k].block # info[inbox'[k].chain]
        /\ roundPc # "none" => ~Same(inbox'[k], round)
    BY <1>3, <2>1 DEF InBox
  <2>3. inbox'[k].chain \in Chains
    BY <1>3, <1>4, MessageFacts DEF Types
  <2>4. inbox'[k].chain \in pq' => inbox'[k].block # info'[inbox'[k].chain]
    BY <1>11, <2>1, <2>2, <2>3 DEF Same
  <2> QED
    BY <2>1, <2>2, <2>4
<1>13. InQueue'
  <2> SUFFICES ASSUME NEW c \in Chains
               PROVE  /\ info'[c] <= tip[c]
                      /\ resume'[c] # NoResume => c \in pq'
                      /\ c \in pq' => Good(setup, tip, read, paused, c, info'[c], resume'[c])
                      /\ c \in pq' /\ roundPc # "none" /\ round.chain = c => round.block # info'[c]
    BY <1>9 DEF InQueue
  <2>1. CASE c = m.chain /\ info'[c] = m.block /\ resume'[c] = m.resume /\ c \in pq'
    BY <2>1, <1>10 DEF Same, Good
  <2>2. CASE info'[c] = info[c] /\ resume'[c] = resume[c] /\ (c \in pq' <=> c \in pq)
    BY <2>2, <1>3 DEF InQueue
  <2> QED
    BY <2>1, <2>2, <1>11
<1>14. Owed'
  BY <1>5, <1>9 DEF Owed
<1>15. KnownReads' /\ Balance' /\ FinishedIsScanned' /\ InRound' /\ Control' /\ ScannedSoFar'
  BY <1>1, HandlerRound
<1> QED
  BY <1>5, <1>8, <1>12, <1>13, <1>14, <1>15 DEF IInv

LEMMA StartBlockKeeps ==
  ASSUME IInv, StartBlock
  PROVE  IInv'
<1>1. /\ inbox # << >> /\ Head(inbox).kind = "process"
      /\ ~scanning /\ pq # {}
      /\ pq' = pq \ {Top}
      /\ scanning' = TRUE /\ interrupt' = FALSE /\ pause' = FALSE /\ current' = Top
      /\ round' = [chain |-> Top, block |-> info[Top], resume |-> resume[Top]]
      /\ roundPc' = "start"
      /\ resume' = [resume EXCEPT ![Top] = NoResume]
      /\ inbox' = Tail(inbox)
      /\ UNCHANGED <<tip, setup, cancelled, drained, history, info, progress, reader, bufferVars>> /\ late' = FALSE
  BY DEF StartBlock, Take
<1>3. Types /\ InBox /\ InQueue /\ Followed /\ Owed /\ Control
  BY DEF IInv
<1>4. /\ inbox' \in Seq(Messages(setup))
      /\ \A k \in DOMAIN inbox' : Holds(inbox'[k]) =>
             /\ k + 1 \in DOMAIN inbox /\ inbox'[k] = inbox[k + 1] /\ inbox'[k] \in Messages(setup)
             /\ \A j \in DOMAIN inbox' : j # k /\ Holds(inbox'[j]) => ~Same(inbox'[j], inbox'[k])
      /\ Followed'
  BY <1>1, <1>3, BoxStep
<1>5. Top \in pq /\ Top \in Chains /\ \A e \in pq : Top <= e
  BY <1>1, <1>3, TopFacts DEF Types
<1>6. PICK c : c = Top
  OBVIOUS
<1>7. /\ c \in pq /\ c \in Chains /\ \A e \in pq : c <= e
      /\ pq' = pq \ {c} /\ current' = c /\ round' = [chain |-> c, block |-> info[c], resume |-> resume[c]]
      /\ resume' = [resume EXCEPT ![c] = NoResume]
  BY <1>1, <1>5, <1>6
<1>8. /\ setup' = setup /\ tip' = tip /\ read' = read /\ paused' = paused /\ info' = info /\ reader' = reader
      /\ progress' = progress /\ hashing' = hashing /\ pool' = pool
  BY <1>1 DEF history, bufferVars
<1>9. round'.chain = c /\ round'.block = info[c] /\ round'.resume = resume[c]
  BY <1>7
<1>10. Types'
  <2>1. info[c] \in Blocks /\ resume[c] \in {NoResume} \cup KeptIn(setup)
    BY <1>3, <1>7 DEF Types
  <2>2. round' \in [chain : Chains, block : Blocks, resume : {NoResume} \cup KeptIn(setup)]
    BY <2>1, <1>7
  <2>3. resume' \in [Chains -> {NoResume} \cup KeptIn(setup)] /\ pq' \in SUBSET Chains
    BY <1>3, <1>7 DEF Types
  <2> QED
    BY <2>2, <2>3, <1>1, <1>3, <1>4, <1>7, <1>8, SameDisks DEF Types
<1>11. /\ resume'[c] = NoResume
       /\ \A e \in Chains : e # c => resume'[e] = resume[e]
  BY <1>3, <1>7 DEF Types
<1>12. InBox'
  <2> SUFFICES ASSUME NEW k \in DOMAIN inbox', Holds(inbox'[k])
               PROVE  /\ Good(setup, tip, read, paused, inbox'[k].chain, inbox'[k].block, Skip(inbox'[k]))
                      /\ \A j \in DOMAIN inbox' : j # k /\ Holds(inbox'[j]) => ~Same(inbox'[j], inbox'[k])
                      /\ inbox'[k].chain \in pq' => inbox'[k].block # info[inbox'[k].chain]
                      /\ ~Same(inbox'[k], round')
    BY <1>8 DEF InBox
  <2>1. /\ k + 1 \in DOMAIN inbox /\ inbox'[k] = inbox[k + 1]
        /\ \A j \in DOMAIN inbox' : j # k /\ Holds(inbox'[j]) => ~Same(inbox'[j], inbox'[k])
    BY <1>4
  <2>2. /\ Good(setup, tip, read, paused, inbox'[k].chain, inbox'[k].block, Skip(inbox'[k]))
        /\ inbox'[k].chain \in pq => inbox'[k].block # info[inbox'[k].chain]
    BY <1>3, <2>1 DEF InBox
  <2>3. ~Same(inbox'[k], round')
    BY <2>2, <1>7, <1>9 DEF Same
  <2> QED
    BY <1>7, <2>1, <2>2, <2>3
<1>13. InQueue'
  <2> SUFFICES ASSUME NEW e \in Chains
               PROVE  /\ info[e] <= tip[e]
                      /\ resume'[e] # NoResume => e \in pq'
                      /\ e \in pq' => Good(setup, tip, read, paused, e, info[e], resume'[e])
                      /\ e \in pq' => round'.chain # e
    BY <1>8 DEF InQueue
  <2>1. CASE e = c
    BY <2>1, <1>3, <1>7, <1>11 DEF InQueue
  <2>2. CASE e # c
    BY <2>2, <1>3, <1>7, <1>9, <1>11 DEF InQueue
  <2> QED
    BY <2>1, <2>2
<1>14. InRound'
  <2>1. Good(setup, tip, read, paused, c, info[c], resume[c])
    BY <1>3, <1>7 DEF InQueue
  <2> QED
    BY <2>1, <1>1, <1>8, <1>9 DEF InRound
<1>15. Owed'
  <2>1. \A e \in pq' : ~(e <= c)
    <3>1. c \in Nat /\ \A e \in pq : e \in Nat
      BY <1>3, <1>7, ChainFacts DEF Types
    <3> QED
      BY <1>7, <3>1
  <2> QED
    BY <1>1, <1>7, <2>1 DEF Owed
<1>16. Control'
  <2>1. \A d \in Disks : reader[d] = "none"
    BY <1>1, <1>3 DEF Control, Types
  <2> QED
    BY <1>1, <1>7, <1>8, <1>9, <2>1, SameDisks DEF Control
<1>17. ScannedSoFar'
  BY <1>1 DEF ScannedSoFar
<1>18. KnownReads' /\ Balance' /\ FinishedIsScanned'
  BY <1>1, HandlerRest
<1> QED
  BY <1>4, <1>10, <1>12, <1>13, <1>14, <1>15, <1>16, <1>17, <1>18 DEF IInv

LEMMA PreemptKeeps ==
  ASSUME IInv, Preempt
  PROVE  IInv'
<1>1. /\ inbox # << >> /\ Head(inbox).kind = "process"
      /\ scanning \/ pq = {}
      /\ inbox' = Tail(inbox)
      /\ UNCHANGED <<tip, setup, cancelled, drained, history, queueVars, scanning, current, roundVars, bufferVars>>
      /\ late' = FALSE
  BY DEF Preempt, Take
<1>2. IF scanning /\ pq # {}
      THEN CASE Prio(Top) = Prio(current) -> interrupt' = TRUE /\ UNCHANGED pause
             [] Prio(Top) > Prio(current) /\ ~interrupt /\ ~pause
                   -> interrupt' = TRUE /\ pause' = TRUE
             [] OTHER -> UNCHANGED <<interrupt, pause>>
      ELSE UNCHANGED <<interrupt, pause>>
  BY DEF Preempt
<1>3. Types /\ InBox /\ InQueue /\ Followed /\ Owed /\ Control
  BY DEF IInv
<1>4. /\ inbox' \in Seq(Messages(setup))
      /\ \A k \in DOMAIN inbox' : Holds(inbox'[k]) =>
             /\ k + 1 \in DOMAIN inbox /\ inbox'[k] = inbox[k + 1] /\ inbox'[k] \in Messages(setup)
             /\ \A j \in DOMAIN inbox' : j # k /\ Holds(inbox'[j]) => ~Same(inbox'[j], inbox'[k])
      /\ Followed'
  BY <1>1, <1>3, BoxStep
<1>5. /\ setup' = setup /\ tip' = tip /\ read' = read /\ paused' = paused /\ info' = info /\ reader' = reader
      /\ progress' = progress /\ hashing' = hashing /\ pool' = pool /\ pq' = pq /\ resume' = resume
      /\ round' = round /\ roundPc' = roundPc /\ scanning' = scanning /\ current' = current /\ scanned' = scanned
  BY <1>1 DEF history, bufferVars, queueVars, roundVars
\* A scan is told to stop when the best block of the queue is at least as good.
<1>6. /\ interrupt' \in BOOLEAN /\ pause' \in BOOLEAN
      /\ pause' => interrupt'
      /\ interrupt => interrupt'
      /\ scanning /\ pq # {} /\ Top <= current => interrupt'
  <2>1. interrupt \in BOOLEAN /\ pause \in BOOLEAN /\ (pause => interrupt) /\ current \in Chains
    BY <1>3 DEF Types, Control
  <2>2. CASE scanning /\ pq # {}
    <3>1. Top \in Chains
      BY <2>2, <1>3, TopFacts DEF Types
    <3>2. /\ Prio(Top) = Prio(current) <=> Top = current
          /\ Prio(Top) > Prio(current) <=> Top < current
          /\ Top \in Nat /\ current \in Nat
      BY <3>1, <2>1, ChainFacts
    <3>3. CASE Prio(Top) = Prio(current) /\ interrupt' = TRUE /\ UNCHANGED pause
      BY <3>3, <2>1
    <3>4. CASE interrupt' = TRUE /\ pause' = TRUE
      BY <3>4
    <3>5. CASE /\ ~(Prio(Top) = Prio(current)) /\ ~(Prio(Top) > Prio(current) /\ ~interrupt /\ ~pause)
               /\ UNCHANGED <<interrupt, pause>>
      <4>1. Top <= current => interrupt
        BY <3>2, <3>5, <2>1
      <4> QED
        BY <4>1, <3>5, <2>1
    <3> QED
      BY <3>3, <3>4, <3>5, <2>2, <1>2
  <2>3. CASE ~(scanning /\ pq # {})
    BY <2>1, <2>3, <1>2
  <2> QED
    BY <2>2, <2>3
<1>7. Types'
  BY <1>1, <1>3, <1>4, <1>5, <1>6, SameDisks DEF Types, Blocks
<1>8. InBox'
  <2> SUFFICES ASSUME NEW k \in DOMAIN inbox', Holds(inbox'[k])
               PROVE  /\ Good(setup, tip, read, paused, inbox'[k].chain, inbox'[k].block, Skip(inbox'[k]))
                      /\ \A j \in DOMAIN inbox' : j # k /\ Holds(inbox'[j]) => ~Same(inbox'[j], inbox'[k])
                      /\ inbox'[k].chain \in pq => inbox'[k].block # info[inbox'[k].chain]
                      /\ roundPc # "none" => ~Same(inbox'[k], round)
    BY <1>5 DEF InBox
  <2>1. /\ k + 1 \in DOMAIN inbox /\ inbox'[k] = inbox[k + 1]
        /\ \A j \in DOMAIN inbox' : j # k /\ Holds(inbox'[j]) => ~Same(inbox'[j], inbox'[k])
    BY <1>4
  <2> QED
    BY <1>3, <2>1 DEF InBox
<1>9. InQueue' /\ InRound' /\ ScannedSoFar'
  BY <1>3, <1>5, SameQueue, SameRound, SameScan DEF IInv
<1>10. Owed'
  <2>1. pq # {} => scanning
    BY <1>1
  <2>2. ASSUME scanning, NEW c \in pq, c <= current PROVE interrupt'
    <3>1. Top \in pq /\ Top <= c
      BY <1>3, <2>2, TopFacts DEF Types
    <3>2. Top \in Nat /\ c \in Nat /\ current \in Nat
      BY <3>1, <1>3, ChainFacts DEF Types
    <3> QED
      BY <3>1, <3>2, <2>2, <1>6
  <2> QED
    BY <2>1, <2>2, <1>5 DEF Owed
<1>11. Control'
  <2>1. \A d \in Disks : Unread(d)' = Unread(d)
    BY <1>5, SameDisks DEF Unread
  <2>2. /\ scanning <=> roundPc # "none"
        /\ scanning => current = round.chain
        /\ pause' => interrupt'
    BY <1>3, <1>6 DEF Control
  <2>3. ASSUME NEW d \in Disks
        PROVE  /\ reader[d] = "none" <=> roundPc # "collect"
               /\ reader[d] = "read" => Unread(d)' # {}
               /\ reader[d] = "finished" => Unread(d)' = {}
               /\ reader[d] = "interrupted" => interrupt'
    BY <1>3, <1>6, <2>1 DEF Control
  <2> QED
    BY <2>2, <2>3, <1>5, SameDisks DEF Control
<1>12. KnownReads' /\ Balance' /\ FinishedIsScanned'
  BY <1>1, <1>5, HandlerRest
<1> QED
  BY <1>4, <1>7, <1>8, <1>9, <1>10, <1>11, <1>12 DEF IInv

-----------------------------------------------------------------------------
(* The chains, the round and the stop.                                       *)

LEMMA BufferFacts ==
  ASSUME Types
  PROVE  /\ IsFiniteSet(Disks) /\ IsFiniteSet(Reading) /\ IsFiniteSet(hashing)
         /\ Cardinality(Reading) \in Nat /\ Cardinality(hashing) \in Nat
         /\ pool \in Nat /\ NumBuffers \in Nat
<1>1. setup.disks \in Nat /\ IsFiniteSet(hashing) /\ pool \in Nat
  BY SetupFacts DEF Types
<1>2. IsFiniteSet(Disks) /\ Cardinality(Disks) \in Nat
  <2>1. IsFiniteSet(1 .. setup.disks)
    BY <1>1, FS_Interval
  <2> QED
    BY <2>1, FS_CardinalityType DEF Disks
<1>3. IsFiniteSet(Reading)
  BY <1>2, FS_Subset DEF Reading
<1>4. NumBuffers \in Nat
  BY <1>2, ConstantsAssumption DEF NumBuffers
<1> QED
  BY <1>1, <1>2, <1>3, <1>4, FS_CardinalityType

LEMMA NewBlockKeeps ==
  ASSUME IInv, NEW c \in Chains, NewBlock(c)
  PROVE  IInv'
<1> DEFINE b == tip[c] + 1  m == New(c, tip[c] + 1, FALSE)
<1>1. /\ ~cancelled /\ tip[c] < setup.blocks
      /\ tip' = [tip EXCEPT ![c] = @ + 1]
      /\ inbox' = Append(inbox, m)
      /\ UNCHANGED <<queueVars, stateVars, roundVars, bufferVars, stopVars, history>>
  BY DEF NewBlock
<1>2. Types /\ InBox /\ InQueue /\ InRound /\ Followed /\ Owed /\ KnownReads
  BY DEF IInv
<1>3. /\ setup' = setup /\ read' = read /\ paused' = paused /\ info' = info /\ reader' = reader
      /\ progress' = progress /\ hashing' = hashing /\ pool' = pool /\ pq' = pq /\ resume' = resume
      /\ round' = round /\ roundPc' = roundPc /\ scanning' = scanning /\ current' = current /\ scanned' = scanned
      /\ interrupt' = interrupt /\ pause' = pause /\ cancelled' = cancelled /\ drained' = drained /\ late' = late
      /\ reported' = reported
  BY <1>1 DEF history, bufferVars, queueVars, roundVars, stateVars, stopVars
<1>4. setup \in Setups /\ setup.blocks \in Nat /\ tip \in [Chains -> 0 .. setup.blocks]
  BY <1>2, SetupFacts DEF Types, Blocks
<1>5. tip[c] \in Nat /\ b \in 0 .. setup.blocks /\ b \in Nat
  BY <1>1, <1>4
<1>6. tip' \in [Chains -> Blocks] /\ tip'[c] = b /\ \A e \in Chains : e # c => tip'[e] = tip[e]
  BY <1>1, <1>4, <1>5 DEF Blocks
<1>7. \A e \in Chains : tip[e] \in Nat /\ tip'[e] \in Nat /\ tip[e] <= tip'[e]
  BY <1>4, <1>5, <1>6
<1>8. /\ m \in Messages(setup) /\ Holds(m) /\ m.chain = c /\ m.block = b /\ Skip(m) = NoResume
      /\ m.initial = FALSE /\ m # Process
  BY <1>5 DEF New, Messages, Holds, Skip, Process
<1> HIDE DEF m, b
<1>9. /\ inbox' \in Seq(Messages(setup)) /\ inbox' = inbox \o <<m>>
      /\ Added(inbox, <<m>>, inbox')
  <2>1. inbox \in Seq(Messages(setup)) /\ <<m>> \in Seq(Messages(setup))
    BY <1>2, <1>8, InboxTypes
  <2>2. inbox' = inbox \o <<m>>
    BY <2>1, <1>1, <1>8, AppendIsConcat
  <2> QED
    BY <2>1, <2>2, BoxAdded
<1>10. /\ \A k \in DOMAIN inbox : k \in DOMAIN inbox' /\ inbox'[k] = inbox[k] /\ k \in Nat
       /\ \A k \in DOMAIN inbox' :
             k \in Nat /\ ((k \in DOMAIN inbox /\ inbox'[k] = inbox[k]) \/ (k = Len(inbox) + 1 /\ inbox'[k] = m))
  <2>1. DOMAIN <<m>> = {1} /\ <<m>>[1] = m /\ Len(inbox) \in Nat
    BY <1>9 DEF Added
  <2>2. ASSUME NEW k \in DOMAIN inbox'
        PROVE  k \in Nat /\ ((k \in DOMAIN inbox /\ inbox'[k] = inbox[k]) \/ (k = Len(inbox) + 1 /\ inbox'[k] = m))
    <3>1. k \in Nat /\ ((k \in DOMAIN inbox /\ inbox'[k] = inbox[k])
                          \/ (k - Len(inbox) \in DOMAIN <<m>> /\ inbox'[k] = <<m>>[k - Len(inbox)]))
      BY <1>9 DEF Added
    <3>2. k - Len(inbox) = 1 => k = Len(inbox) + 1
      BY <3>1, <2>1
    <3> QED
      BY <3>1, <3>2, <2>1
  <2> QED
    BY <2>2, <1>9 DEF Added
<1>11. Types'
  BY <1>2, <1>3, <1>6, <1>9, SameDisks DEF Types
\* A block that was good is: its chain knows no less.
<1>12. \A p : \A e \in Chains, x \in Nat : Good(setup, tip, read, paused, e, x, p) =>
          Good(setup, tip', read, paused, e, x, p)
  BY <1>7 DEF Good
<1>13. Good(setup, tip', read, paused, c, b, NoResume)
  <2>1. \A d, i, r : <<c, b, d, i, r>> \notin read
    <3>1. ~(b \in 0 .. tip[c])
      BY <1>5 DEF b
    <3> QED
      BY <3>1, <1>2 DEF KnownReads
  <2>2. b <= tip'[c]
    BY <1>5, <1>6
  <2> QED
    BY <2>1, <2>2, <1>4, FreshIsGood
<1>14. \A k \in DOMAIN inbox : Holds(inbox[k]) => /\ inbox[k].chain \in Chains /\ inbox[k].block \in Nat
                                                  /\ ~Same(inbox[k], m)
  <2> SUFFICES ASSUME NEW k \in DOMAIN inbox, Holds(inbox[k])
               PROVE  inbox[k].chain \in Chains /\ inbox[k].block \in Nat /\ ~Same(inbox[k], m)
    OBVIOUS
  <2>1. inbox[k].chain \in Chains /\ inbox[k].block \in 0 .. setup.blocks
    BY <1>2, <1>4, InboxTypes, MessageFacts
  <2>2. inbox[k].block \in Nat
    BY <2>1, <1>4
  <2>3. inbox[k].block <= tip[inbox[k].chain]
    BY <1>2 DEF InBox, Good
  <2> QED
    BY <2>1, <2>2, <2>3, <1>5, <1>8 DEF Same, b
<1>15. /\ c \in pq => b # info[c]
       /\ roundPc # "none" => ~Same(m, round)
  <2>1. info[c] <= tip[c] /\ info[c] \in Nat
    BY <1>2, <1>4 DEF InQueue, Types, Blocks
  <2>2. roundPc # "none" => round.block <= tip[round.chain] /\ round.block \in Nat
    <3>1. round.block \in 0 .. setup.blocks /\ roundPc \in {"none", "start", "collect"}
      BY <1>2 DEF Types, Blocks
    <3>2. round.block \in Nat
      BY <3>1, <1>4
    <3> QED
      BY <3>1, <3>2, <1>2 DEF InRound, Good
  <2> QED
    BY <2>1, <2>2, <1>5, <1>8 DEF Same, b
<1>16. InBox'
  <2> SUFFICES ASSUME NEW k \in DOMAIN inbox', Holds(inbox'[k])
               PROVE  /\ Good(setup, tip', read, paused, inbox'[k].chain, inbox'[k].block, Skip(inbox'[k]))
                      /\ \A j \in DOMAIN inbox' : j # k /\ Holds(inbox'[j]) => ~Same(inbox'[j], inbox'[k])
                      /\ inbox'[k].chain \in pq => inbox'[k].block # info[inbox'[k].chain]
                      /\ roundPc # "none" => ~Same(inbox'[k], round)
    BY <1>3 DEF InBox
  <2>1. CASE k \in DOMAIN inbox /\ inbox'[k] = inbox[k]
    <3>1. /\ Good(setup, tip, read, paused, inbox[k].chain, inbox[k].block, Skip(inbox[k]))
          /\ \A j \in DOMAIN inbox : j # k /\ Holds(inbox[j]) => ~Same(inbox[j], inbox[k])
          /\ inbox[k].chain \in pq => inbox[k].block # info[inbox[k].chain]
          /\ roundPc # "none" => ~Same(inbox[k], round)
      BY <1>2, <2>1 DEF InBox
    <3>2. Good(setup, tip', read, paused, inbox[k].chain, inbox[k].block, Skip(inbox[k]))
      BY <3>1, <2>1, <1>12, <1>14
    <3>3. ASSUME NEW j \in DOMAIN inbox', j # k, Holds(inbox'[j]) PROVE ~Same(inbox'[j], inbox'[k])
      <4>1. CASE j \in DOMAIN inbox /\ inbox'[j] = inbox[j]
        BY <4>1, <3>1, <3>3, <2>1
      <4>2. CASE inbox'[j] = m
        BY <4>2, <2>1, <1>14 DEF Same
      <4> QED
        BY <4>1, <4>2, <1>10
    <3> QED
      BY <3>1, <3>2, <3>3, <2>1
  <2>2. CASE k = Len(inbox) + 1 /\ inbox'[k] = m
    <3>1. ASSUME NEW j \in DOMAIN inbox', j # k, Holds(inbox'[j]) PROVE ~Same(inbox'[j], inbox'[k])
      <4>1. j \in DOMAIN inbox /\ inbox'[j] = inbox[j]
        BY <3>1, <2>2, <1>10
      <4> QED
        BY <4>1, <3>1, <2>2, <1>14
    <3> QED
      BY <3>1, <2>2, <1>8, <1>13, <1>15
  <2> QED
    BY <2>1, <2>2, <1>10
<1>17. InQueue'
  <2> SUFFICES ASSUME NEW e \in Chains
               PROVE  /\ info[e] <= tip'[e]
                      /\ resume[e] # NoResume => e \in pq
                      /\ e \in pq => Good(setup, tip', read, paused, e, info[e], resume[e])
                      /\ e \in pq /\ roundPc # "none" /\ round.chain = e => round.block # info[e]
    BY <1>3 DEF InQueue
  <2>1. info[e] \in Nat
    BY <1>2, <1>4 DEF Types, Blocks
  <2> QED
    BY <2>1, <1>2, <1>7, <1>12 DEF InQueue
<1>18. InRound'
  <2>1. round.block \in Nat /\ round.chain \in Chains
    <3>1. round.block \in 0 .. setup.blocks /\ round.chain \in Chains
      BY <1>2 DEF Types, Blocks
    <3> QED
      BY <3>1, <1>4
  <2> QED
    BY <2>1, <1>2, <1>3, <1>7, <1>12 DEF InRound
<1>19. Followed'
  <2> SUFFICES ASSUME NEW k \in DOMAIN inbox', inbox'[k].kind = "new", inbox'[k].initial
               PROVE  \E j \in DOMAIN inbox' : j > k /\ inbox'[j] = Process
    BY DEF Followed
  <2>1. k \in DOMAIN inbox /\ inbox'[k] = inbox[k]
    BY <1>8, <1>10
  <2>2. PICK j \in DOMAIN inbox : j > k /\ inbox[j] = Process
    BY <2>1, <1>2 DEF Followed
  <2> QED
    BY <2>2, <1>10
<1>20. Called => Called'
  BY <1>10 DEF Called
<1>21. Owed'
  BY <1>2, <1>3, <1>20 DEF Owed
<1>22. KnownReads'
  <2>1. ASSUME NEW e, NEW x, NEW d, NEW i, NEW r, <<e, x, d, i, r>> \in read
        PROVE  e \in Chains /\ x \in 0 .. tip'[e]
    <3>1. e \in Chains /\ x \in 0 .. tip[e]
      BY <2>1, <1>2 DEF KnownReads
    <3> QED
      BY <3>1, <1>7
  <2> QED
    BY <2>1, <1>2, <1>3 DEF KnownReads
<1>23. Control' /\ ScannedSoFar' /\ FinishedIsScanned' /\ Balance'
  BY <1>3, SameReaders, SameScan, SameHistory, SameBuffers DEF IInv
<1> QED
  BY <1>11, <1>16, <1>17, <1>18, <1>19, <1>21, <1>22, <1>23 DEF IInv

\* What the readers and the hashers leave alone.
LEMMA ReaderRest ==
  ASSUME IInv, UNCHANGED <<chainVars, queueVars, stateVars, round, stopVars, reported, paused>>,
         roundPc' # "none" <=> roundPc # "none"
  PROVE  /\ Followed' /\ Owed'
         /\ UNCHANGED read => InBox' /\ InQueue'
<1>1. InBox /\ InQueue /\ Followed /\ Owed
  BY DEF IInv
<1>2. /\ setup' = setup /\ tip' = tip /\ paused' = paused /\ info' = info
      /\ pq' = pq /\ resume' = resume /\ inbox' = inbox /\ cancelled' = cancelled
      /\ round' = round /\ scanning' = scanning /\ current' = current /\ interrupt' = interrupt
  BY DEF chainVars, queueVars, stateVars, stopVars
<1>3. Followed'
  BY <1>1, <1>2 DEF Followed
<1>4. Owed'
  BY <1>1, <1>2 DEF Owed, Called
<1>5. UNCHANGED read => InBox' /\ InQueue'
  BY <1>1, <1>2 DEF InBox, InQueue
<1> QED
  BY <1>3, <1>4, <1>5

LEMMA RoundStartKeeps ==
  ASSUME IInv, RoundStart
  PROVE  IInv'
<1>1. /\ roundPc = "start"
      /\ progress' = IF round.resume = NoResume THEN Nothing ELSE round.resume
      /\ reader' = [d \in Disks |-> "take"]
      /\ roundPc' = "collect"
      /\ UNCHANGED <<chainVars, queueVars, stateVars, round, bufferVars, stopVars, history>>
  BY DEF RoundStart
<1>2. Types /\ InRound /\ Control /\ KnownReads /\ Balance /\ FinishedIsScanned
  BY DEF IInv
<1>3. /\ setup' = setup /\ tip' = tip /\ inbox' = inbox /\ paused' = paused /\ info' = info /\ read' = read
      /\ pq' = pq /\ resume' = resume /\ cancelled' = cancelled /\ drained' = drained /\ late' = late
      /\ round' = round /\ scanning' = scanning /\ current' = current /\ interrupt' = interrupt /\ pause' = pause
      /\ pool' = pool /\ hashing' = hashing /\ scanned' = scanned /\ reported' = reported
  BY <1>1 DEF chainVars, queueVars, stateVars, stopVars, bufferVars, history
<1>4. /\ setup \in Setups /\ round.resume \in {NoResume} \cup KeptIn(setup)
      /\ Nothing = From(setup, NoResume)
  BY <1>2 DEF Types, Nothing, From, Disks, Plots, Reads
<1>5. progress' = From(setup, round.resume) /\ progress' \in KeptIn(setup)
  BY <1>1, <1>4, NothingKept, KeptFacts DEF From
<1>6. From(setup, progress') = progress'
  BY <1>4, <1>5, KeptFacts
<1>7. Types'
  <2>1. reader' \in [Disks -> {"none", "take", "read", "finished", "interrupted"}]
    BY <1>1
  <2> QED
    BY <2>1, <1>1, <1>2, <1>3, <1>5, SameDisks DEF Types
<1>8. InRound'
  <2>1. Good(setup, tip, read, paused, round.chain, round.block, round.resume)
    BY <1>1, <1>2 DEF InRound
  <2>2. Exact(setup, read, round.chain, round.block, progress')
    BY <2>1, <1>5, <1>6 DEF Good, Exact
  <2> QED
    BY <2>1, <2>2, <1>1, <1>3 DEF InRound, Good
<1>9. Control'
  BY <1>1, <1>2, <1>3, SameDisks DEF Control
<1>10. ScannedSoFar'
  <2> SUFFICES ASSUME <<round.chain, round.block>> \notin paused, NEW d \in Disks, NEW i \in Plots(d)
               PROVE  \A r \in 0 .. progress'[d][i] - 1 : <<round.chain, round.block, d, i, r>> \in scanned
    BY <1>3, SameDisks DEF ScannedSoFar
  <2>1. round.resume = NoResume
    BY <1>1, <1>2 DEF InRound, Good
  <2>2. progress'[d][i] = 0
    BY <2>1, <1>4, <1>5, NothingKept DEF Disks, Plots, Reads
  <2> QED
    BY <2>2
<1>11. Reading = {} /\ Reading' = {}
  BY <1>1, <1>2, <1>3, SameDisks DEF Control, Reading
<1>12. Balance'
  BY <1>2, <1>3, <1>11, SameDisks DEF Balance, Buffers
<1>13. InBox' /\ InQueue' /\ Followed' /\ Owed'
  BY <1>1, <1>3, ReaderRest
<1>14. KnownReads' /\ FinishedIsScanned'
  BY <1>2, <1>3, SameReads, SameHistory
<1> QED
  BY <1>7, <1>8, <1>9, <1>10, <1>12, <1>13, <1>14 DEF IInv

LEMMA TakeBufferKeeps ==
  ASSUME IInv, NEW d \in Disks, TakeBuffer(d)
  PROVE  IInv'
<1>1. /\ reader[d] = "take" /\ Unread(d) # {} /\ pool > 0
      /\ pool' = pool - 1
      /\ reader' = [reader EXCEPT ![d] = "read"]
      /\ UNCHANGED <<chainVars, queueVars, stateVars, round, roundPc, progress, hashing, stopVars, history>>
  BY DEF TakeBuffer
<1>2. Types /\ InRound /\ Control /\ KnownReads /\ Balance /\ FinishedIsScanned /\ ScannedSoFar
  BY DEF IInv
<1>3. /\ setup' = setup /\ tip' = tip /\ inbox' = inbox /\ paused' = paused /\ info' = info /\ read' = read
      /\ pq' = pq /\ resume' = resume /\ cancelled' = cancelled /\ drained' = drained /\ late' = late
      /\ round' = round /\ scanning' = scanning /\ current' = current /\ interrupt' = interrupt /\ pause' = pause
      /\ roundPc' = roundPc /\ progress' = progress
      /\ hashing' = hashing /\ scanned' = scanned /\ reported' = reported
  BY <1>1 DEF chainVars, queueVars, stateVars, stopVars, history
<1>4. /\ reader' \in [Disks -> {"none", "take", "read", "finished", "interrupted"}]
      /\ reader'[d] = "read" /\ \A e \in Disks : e # d => reader'[e] = reader[e]
  BY <1>1, <1>2 DEF Types
<1>5. Types'
  <2>1. pool' \in Nat
    BY <1>1, <1>2 DEF Types
  <2> QED
    BY <2>1, <1>2, <1>3, <1>4, SameDisks DEF Types
<1>6. \A e \in Disks : Unread(e)' = Unread(e)
  BY <1>3, SameDisks DEF Unread
<1>7. Control'
  <2>1. ASSUME NEW e \in Disks
        PROVE  /\ reader'[e] = "none" <=> roundPc # "collect"
               /\ reader'[e] = "read" => Unread(e) # {}
               /\ reader'[e] = "finished" => Unread(e) = {}
               /\ reader'[e] = "interrupted" => interrupt
    BY <1>1, <1>2, <1>4 DEF Control
  <2> QED
    BY <2>1, <1>2, <1>3, <1>6, SameDisks DEF Control
<1>8. ScannedSoFar'
  BY <1>1, <1>2, <1>3, <1>4, SameDisks DEF ScannedSoFar
<1>9. Balance'
  <2>1. Reading' = Reading \cup {d} /\ d \notin Reading
    BY <1>1, <1>3, <1>4, SameDisks DEF Reading
  <2>2. Cardinality(Reading') = Cardinality(Reading) + 1
    BY <2>1, <1>2, BufferFacts, FS_AddElement
  <2>3. Buffers' = Buffers
    BY <2>2, <1>1, <1>2, <1>3, BufferFacts DEF Buffers
  <2> QED
    BY <2>3, <1>2, <1>3, SameDisks DEF Balance
<1>10. InBox' /\ InQueue' /\ Followed' /\ Owed'
  BY <1>1, <1>3, ReaderRest
<1>11. KnownReads' /\ FinishedIsScanned' /\ InRound'
  BY <1>2, <1>3, SameReads, SameHistory, SameRound
<1> QED
  BY <1>5, <1>7, <1>8, <1>9, <1>10, <1>11 DEF IInv

LEMMA ReaderFinishesKeeps ==
  ASSUME IInv, NEW d \in Disks, ReaderFinishes(d)
  PROVE  IInv'
<1>1. /\ reader[d] = "take" /\ Unread(d) = {}
      /\ reader' = [reader EXCEPT ![d] = "finished"]
      /\ UNCHANGED <<chainVars, queueVars, stateVars, round, roundPc, progress, bufferVars, stopVars, history>>
  BY DEF ReaderFinishes
<1>2. Types /\ InRound /\ Control /\ KnownReads /\ Balance /\ FinishedIsScanned /\ ScannedSoFar
  BY DEF IInv
<1>3. /\ setup' = setup /\ tip' = tip /\ inbox' = inbox /\ paused' = paused /\ info' = info /\ read' = read
      /\ pq' = pq /\ resume' = resume /\ cancelled' = cancelled /\ drained' = drained /\ late' = late
      /\ round' = round /\ scanning' = scanning /\ current' = current /\ interrupt' = interrupt /\ pause' = pause
      /\ roundPc' = roundPc /\ progress' = progress /\ pool' = pool
      /\ hashing' = hashing /\ scanned' = scanned /\ reported' = reported
  BY <1>1 DEF chainVars, queueVars, stateVars, stopVars, history, bufferVars
<1>4. /\ reader' \in [Disks -> {"none", "take", "read", "finished", "interrupted"}]
      /\ reader'[d] = "finished" /\ \A e \in Disks : e # d => reader'[e] = reader[e]
  BY <1>1, <1>2 DEF Types
<1>5. Types'
  BY <1>2, <1>3, <1>4, SameDisks DEF Types
<1>6. \A e \in Disks : Unread(e)' = Unread(e)
  BY <1>3, SameDisks DEF Unread
<1>7. Control'
  <2>1. ASSUME NEW e \in Disks
        PROVE  /\ reader'[e] = "none" <=> roundPc # "collect"
               /\ reader'[e] = "read" => Unread(e) # {}
               /\ reader'[e] = "finished" => Unread(e) = {}
               /\ reader'[e] = "interrupted" => interrupt
    BY <1>1, <1>2, <1>4 DEF Control
  <2> QED
    BY <2>1, <1>2, <1>3, <1>6, SameDisks DEF Control
<1>8. ScannedSoFar'
  BY <1>1, <1>2, <1>3, <1>4, SameDisks DEF ScannedSoFar
<1>9. Balance'
  <2>1. Reading' = Reading
    BY <1>1, <1>3, <1>4, SameDisks DEF Reading
  <2> QED
    BY <2>1, <1>2, <1>3, SameDisks DEF Balance, Buffers
<1>10. InBox' /\ InQueue' /\ Followed' /\ Owed'
  BY <1>1, <1>3, ReaderRest
<1>11. KnownReads' /\ FinishedIsScanned' /\ InRound'
  BY <1>2, <1>3, SameReads, SameHistory, SameRound
<1> QED
  BY <1>5, <1>7, <1>8, <1>9, <1>10, <1>11 DEF IInv

LEMMA HashDoneKeeps ==
  ASSUME IInv, NEW id \in hashing, HashDone(id)
  PROVE  IInv'
<1>1. /\ hashing' = hashing \ {id} /\ pool' = pool + 1
      /\ UNCHANGED <<chainVars, queueVars, stateVars, roundVars, stopVars, history>>
  BY DEF HashDone
<1>2. Types /\ InRound /\ Control /\ KnownReads /\ Balance /\ FinishedIsScanned /\ ScannedSoFar
  BY DEF IInv
<1>3. /\ setup' = setup /\ tip' = tip /\ inbox' = inbox /\ paused' = paused /\ info' = info /\ read' = read
      /\ pq' = pq /\ resume' = resume /\ cancelled' = cancelled /\ drained' = drained /\ late' = late
      /\ round' = round /\ scanning' = scanning /\ current' = current /\ interrupt' = interrupt /\ pause' = pause
      /\ roundPc' = roundPc /\ progress' = progress /\ reader' = reader
      /\ scanned' = scanned /\ reported' = reported
  BY <1>1 DEF chainVars, queueVars, stateVars, stopVars, history, roundVars
<1>4. /\ IsFiniteSet(hashing') /\ Cardinality(hashing') = Cardinality(hashing) - 1
  BY <1>1, <1>2, BufferFacts, FS_RemoveElement
<1>5. Types'
  BY <1>1, <1>2, <1>3, <1>4, SameDisks DEF Types
<1>6. Reading' = Reading
  BY <1>3, SameDisks DEF Reading
<1>7. Balance'
  <2>1. Buffers' = Buffers
    BY <1>1, <1>2, <1>4, <1>6, BufferFacts DEF Buffers
  <2> QED
    BY <2>1, <1>2, <1>3, SameDisks DEF Balance
<1>8. KnownReads'
  BY <1>1, <1>2, <1>3 DEF KnownReads
<1>9. InBox' /\ InQueue' /\ Followed' /\ Owed'
  BY <1>1, <1>3, ReaderRest
<1>10. FinishedIsScanned' /\ InRound' /\ Control' /\ ScannedSoFar'
  BY <1>2, <1>3, SameHistory, SameRound, SameReaders, SameScan
<1> QED
  BY <1>5, <1>7, <1>8, <1>9, <1>10 DEF IInv

LEMMA ShutdownKeeps ==
  ASSUME IInv, Shutdown
  PROVE  IInv'
<1>1. /\ cancelled' = TRUE /\ interrupt' = TRUE
      /\ late' \in (IF inbox = << >> THEN {FALSE} ELSE BOOLEAN)
      /\ UNCHANGED <<chainVars, queueVars, scanning, pause, current, roundVars, bufferVars, setup, drained, history>>
  BY DEF Shutdown
<1>2. Types /\ InRound /\ Control /\ KnownReads /\ Balance /\ FinishedIsScanned /\ ScannedSoFar
      /\ InBox /\ InQueue /\ Followed
  BY DEF IInv
<1>3. /\ setup' = setup /\ tip' = tip /\ inbox' = inbox /\ paused' = paused /\ info' = info /\ read' = read
      /\ pq' = pq /\ resume' = resume /\ drained' = drained /\ hashing' = hashing /\ pool' = pool
      /\ round' = round /\ scanning' = scanning /\ current' = current /\ pause' = pause
      /\ roundPc' = roundPc /\ progress' = progress /\ reader' = reader
      /\ scanned' = scanned /\ reported' = reported /\ late' \in BOOLEAN
  BY <1>1 DEF chainVars, queueVars, history, roundVars, bufferVars
<1>4. Types'
  BY <1>1, <1>2, <1>3, SameDisks DEF Types
<1>5. Control'
  <2>1. \A e \in Disks : Unread(e)' = Unread(e)
    BY <1>3, SameDisks DEF Unread
  <2> QED
    BY <2>1, <1>1, <1>2, <1>3, SameDisks DEF Control
<1>6. Owed'
  BY <1>1 DEF Owed
<1>7. InBox' /\ InQueue' /\ Followed' /\ KnownReads' /\ FinishedIsScanned' /\ InRound' /\ ScannedSoFar' /\ Balance'
  BY <1>2, <1>3, SameBox, SameQueue, SameReads, SameHistory, SameRound, SameScan, SameBuffers
<1> QED
  BY <1>4, <1>5, <1>6, <1>7 DEF IInv

LEMMA DrainBuffersKeeps ==
  ASSUME IInv, DrainBuffers
  PROVE  IInv'
<1>1. /\ cancelled /\ ~drained /\ drained' = TRUE /\ pool' = 0
      /\ UNCHANGED <<chainVars, queueVars, stateVars, roundVars, hashing, setup, cancelled, late, history>>
  BY DEF DrainBuffers
<1>2. Types /\ InRound /\ Control /\ KnownReads /\ Balance /\ FinishedIsScanned /\ ScannedSoFar
      /\ InBox /\ InQueue /\ Followed
  BY DEF IInv
<1>3. /\ setup' = setup /\ tip' = tip /\ inbox' = inbox /\ paused' = paused /\ info' = info /\ read' = read
      /\ pq' = pq /\ resume' = resume /\ cancelled' = cancelled /\ late' = late
      /\ round' = round /\ scanning' = scanning /\ current' = current /\ interrupt' = interrupt /\ pause' = pause
      /\ roundPc' = roundPc /\ progress' = progress /\ reader' = reader /\ hashing' = hashing
      /\ scanned' = scanned /\ reported' = reported
  BY <1>1 DEF chainVars, queueVars, stateVars, history, roundVars
<1>4. Types'
  BY <1>1, <1>2, <1>3, SameDisks DEF Types
<1>5. Balance'
  <2>1. Reading' = Reading
    BY <1>3, SameDisks DEF Reading
  <2> QED
    BY <2>1, <1>1, <1>2, <1>3, BufferFacts, SameDisks DEF Balance, Buffers
<1>6. Owed'
  BY <1>1, <1>3 DEF Owed
<1>7. /\ InBox' /\ InQueue' /\ Followed' /\ KnownReads' /\ FinishedIsScanned' /\ InRound' /\ ScannedSoFar'
      /\ Control'
  BY <1>2, <1>3, SameBox, SameQueue, SameReads, SameHistory, SameRound, SameScan, SameReaders
<1> QED
  BY <1>4, <1>5, <1>6, <1>7 DEF IInv

-----------------------------------------------------------------------------
(* The readers.                                                              *)

LEMMA GoodElsewhere ==
  ASSUME NEW s, NEW t, NEW S, NEW T, NEW P, NEW c, NEW b, NEW p,
         \A d, i, r : <<c, b, d, i, r>> \in T <=> <<c, b, d, i, r>> \in S,
         Good(s, t, S, P, c, b, p)
  PROVE  Good(s, t, T, P, c, b, p)
BY DEF Good, Exact

\* A read of the round's block is nothing to the other blocks.
LEMMA ReadElsewhere ==
  ASSUME IInv, roundPc = "collect",
         UNCHANGED <<chainVars, queueVars, stateVars, round, roundPc, stopVars, reported, paused>>,
         read \subseteq read', hashing' \subseteq read',
         \A c, b, d, i, r : <<c, b, d, i, r>> \in read' /\ <<c, b, d, i, r>> \notin read =>
             c = round.chain /\ b = round.block
  PROVE  InBox' /\ InQueue' /\ KnownReads' /\ Followed' /\ Owed'
<1>1. Types /\ InBox /\ InQueue /\ InRound /\ KnownReads
  BY DEF IInv
<1>2. /\ setup' = setup /\ tip' = tip /\ paused' = paused /\ info' = info
      /\ pq' = pq /\ resume' = resume /\ inbox' = inbox
      /\ round' = round /\ roundPc' = roundPc
  BY DEF chainVars, queueVars, stopVars
<1>3. \A c, b, p : ~(c = round.chain /\ b = round.block) /\ Good(setup, tip, read, paused, c, b, p) =>
          Good(setup, tip, read', paused, c, b, p)
  <2> SUFFICES ASSUME NEW c, NEW b, NEW p, ~(c = round.chain /\ b = round.block),
                      Good(setup, tip, read, paused, c, b, p)
               PROVE  Good(setup, tip, read', paused, c, b, p)
    OBVIOUS
  <2>1. \A d, i, r : <<c, b, d, i, r>> \in read' <=> <<c, b, d, i, r>> \in read
    OBVIOUS
  <2> QED
    BY <2>1, GoodElsewhere
<1>4. InBox'
  <2> SUFFICES ASSUME NEW k \in DOMAIN inbox, Holds(inbox[k])
               PROVE  Good(setup, tip, read', paused, inbox[k].chain, inbox[k].block, Skip(inbox[k]))
    BY <1>1, <1>2 DEF InBox
  <2>1. /\ Good(setup, tip, read, paused, inbox[k].chain, inbox[k].block, Skip(inbox[k]))
        /\ ~(inbox[k].chain = round.chain /\ inbox[k].block = round.block)
    BY <1>1 DEF InBox, Same
  <2> QED
    BY <2>1, <1>3
<1>5. InQueue'
  <2> SUFFICES ASSUME NEW c \in Chains, c \in pq
               PROVE  Good(setup, tip, read', paused, c, info[c], resume[c])
    BY <1>1, <1>2 DEF InQueue
  <2>1. Good(setup, tip, read, paused, c, info[c], resume[c]) /\ ~(c = round.chain /\ info[c] = round.block)
    BY <1>1 DEF InQueue
  <2> QED
    BY <2>1, <1>3
<1>6. KnownReads'
  <2>1. round.chain \in Chains /\ round.block \in 0 .. tip[round.chain]
    <3>1. /\ round.chain \in Chains /\ round.block \in 0 .. setup.blocks /\ round.block <= tip[round.chain]
          /\ setup.blocks \in Nat /\ tip[round.chain] \in 0 .. setup.blocks
      BY <1>1, SetupFacts DEF Types, Blocks, InRound
    <3> QED
      BY <3>1
  <2>2. ASSUME NEW c, NEW b, NEW d, NEW i, NEW r, <<c, b, d, i, r>> \in read'
        PROVE  c \in Chains /\ b \in 0 .. tip[c]
    <3>1. CASE <<c, b, d, i, r>> \in read
      BY <3>1, <1>1 DEF KnownReads
    <3>2. CASE c = round.chain /\ b = round.block
      BY <3>2, <2>1
    <3> QED
      BY <3>1, <3>2, <2>2
  <2> QED
    BY <2>2, <1>2 DEF KnownReads
<1>7. Followed' /\ Owed'
  BY ReaderRest
<1> QED
  BY <1>4, <1>5, <1>6, <1>7

LEMMA ScansGrow ==
  ASSUME FinishedIsScanned, UNCHANGED <<setup, reported, paused>>, scanned \subseteq scanned'
  PROVE  FinishedIsScanned'
BY DEF FinishedIsScanned, Disks, Reads, Mineable, Plots

\* A reader that holds a buffer is at a plot of its disk, and has read of it
\* what the progress says.
LEMMA ReaderAt ==
  ASSUME IInv, NEW d \in Disks, reader[d] = "read"
  PROVE  /\ roundPc = "collect" /\ setup \in Setups /\ progress \in KeptIn(setup)
         /\ Plot(d) \in 1 .. Len(Reads[d]) /\ progress[d][Plot(d)] \in Nat
         /\ Reads[d][Plot(d)] \in Nat /\ progress[d][Plot(d)] < Reads[d][Plot(d)]
         /\ Exact(setup, read, round.chain, round.block, progress)
<1>1. Types /\ Control /\ InRound
  BY DEF IInv
<1>2. roundPc = "collect" /\ Unread(d) # {}
  BY <1>1 DEF Control
<1>3. setup \in Setups /\ progress \in KeptIn(setup)
  BY <1>1 DEF Types
<1>4. Plot(d) \in 1 .. Len(Reads[d]) /\ progress[d][Plot(d)] \in Nat /\ progress[d][Plot(d)] < Reads[d][Plot(d)]
  BY <1>1, <1>2, PlotFacts
<1>5. Reads[d][Plot(d)] \in Nat
  BY <1>3, <1>4, SetupFacts DEF Reads, Disks
<1> QED
  BY <1>1, <1>2, <1>3, <1>4, <1>5 DEF InRound

\* A reader moves its plot from x to y: what the round has read follows.
LEMMA ReaderMoves ==
  ASSUME NEW s \in Setups, NEW p \in KeptIn(s), NEW d \in 1 .. s.disks, NEW i \in 1 .. Len(s.reads[d]),
         NEW y \in Nat, y <= s.reads[d][i], p[d][i] <= y, NEW S, NEW c, NEW b, Exact(s, S, c, b, p),
         NEW T, T = S \cup {<<c, b, d, i, r>> : r \in p[d][i] .. y - 1}
  PROVE  Exact(s, T, c, b, [p EXCEPT ![d][i] = y])
<1> DEFINE q == [p EXCEPT ![d][i] = y]
<1>0. Moved(s, p, d, i, y, q)
  BY ProgressMoves
<1>1. /\ q \in KeptIn(s) /\ q[d][i] = y
      /\ \A e \in 1 .. s.disks : \A j \in 1 .. Len(s.reads[e]) : <<e, j>> # <<d, i>> => q[e][j] = p[e][j]
  BY <1>0 DEF Moved
<1> HIDE DEF q
<1>2. From(s, q) = q /\ From(s, p) = p /\ p[d][i] \in Nat
  BY <1>1, KeptFacts
<1> SUFFICES ASSUME NEW e \in 1 .. s.disks, NEW j \in 1 .. Len(s.reads[e]), NEW r \in 0 .. s.reads[e][j] - 1
             PROVE  <<c, b, e, j, r>> \in T <=> r < q[e][j]
  BY <1>2 DEF Exact, q
<1>3. <<c, b, e, j, r>> \in S <=> r < p[e][j]
  BY <1>2 DEF Exact
<1>4. r \in Nat
  <2>1. s.reads[e][j] \in Nat
    BY SetupFacts
  <2> QED
    BY <2>1
<1>5. CASE e = d /\ j = i
  <2>1. <<c, b, e, j, r>> \in T <=> <<c, b, e, j, r>> \in S \/ r \in p[d][i] .. y - 1
    BY <1>5
  <2> QED
    BY <2>1, <1>1, <1>2, <1>3, <1>4, <1>5
<1>6. CASE <<e, j>> # <<d, i>>
  <2>1. <<c, b, e, j, r>> \in T <=> <<c, b, e, j, r>> \in S
    BY <1>6
  <2> QED
    BY <2>1, <1>1, <1>3, <1>6
<1> QED
  BY <1>5, <1>6

LEMMA ReadBufferKeeps ==
  ASSUME IInv, NEW d \in Disks, ReadBuffer(d)
  PROVE  IInv'
<1>1. PICK i : i = Plot(d)
  OBVIOUS
<1> DEFINE x == progress[d][i]
           id == <<round.chain, round.block, d, i, x>>
<1>2. /\ reader[d] = "read"
      /\ progress' = [progress EXCEPT ![d][i] = x + 1]
      /\ read' = read \union {id}
      /\ IF interrupt
         THEN /\ reader' = [reader EXCEPT ![d] = "interrupted"]
              /\ pool' = pool + 1
              /\ UNCHANGED <<hashing, scanned>>
         ELSE /\ reader' = [reader EXCEPT ![d] = "take"]
              /\ hashing' = hashing \union {id}
              /\ scanned' = scanned \union {id}
              /\ UNCHANGED pool
      /\ UNCHANGED <<chainVars, queueVars, stateVars, round, roundPc, stopVars, reported, paused>>
  BY <1>1, Zenon DEF ReadBuffer
<1>3. Types /\ InRound /\ Control /\ KnownReads /\ Balance /\ FinishedIsScanned /\ ScannedSoFar
  BY DEF IInv
<1>4. /\ setup' = setup /\ tip' = tip /\ inbox' = inbox /\ paused' = paused /\ info' = info
      /\ pq' = pq /\ resume' = resume /\ cancelled' = cancelled /\ drained' = drained /\ late' = late
      /\ round' = round /\ scanning' = scanning /\ current' = current /\ interrupt' = interrupt /\ pause' = pause
      /\ roundPc' = roundPc /\ reported' = reported
  BY <1>2 DEF chainVars, queueVars, stateVars, stopVars
<1>5. /\ roundPc = "collect" /\ setup \in Setups /\ progress \in KeptIn(setup)
      /\ i \in 1 .. Len(Reads[d]) /\ x \in Nat /\ Reads[d][i] \in Nat /\ x < Reads[d][i]
      /\ Exact(setup, read, round.chain, round.block, progress)
  BY <1>1, <1>2, ReaderAt
<1>6. Disks = 1 .. setup.disks /\ Reads = setup.reads
  BY DEF Disks, Reads
<1>7. x + 1 \in Nat /\ x + 1 <= Reads[d][i] /\ x <= x + 1 /\ x .. (x + 1) - 1 = {x}
  BY <1>5
<1> HIDE DEF x
<1>8. /\ progress' \in KeptIn(setup) /\ progress'[d][i] = x + 1
      /\ \A e \in Disks : \A j \in Plots(e) : <<e, j>> # <<d, i>> => progress'[e][j] = progress[e][j]
      /\ \A e \in Disks : e # d => progress'[e] = progress[e]
  <2>1. Moved(setup, progress, d, i, x + 1, progress')
    BY <1>2, <1>5, <1>6, <1>7, ProgressMoves
  <2> QED
    BY <2>1, <1>6 DEF Moved, Plots
<1>9. Exact(setup, read', round.chain, round.block, progress')
  <2>1. read' = read \cup {<<round.chain, round.block, d, i, r>> : r \in x .. (x + 1) - 1}
    BY <1>2, <1>7
  <2> QED
    BY <2>1, <1>2, <1>5, <1>6, <1>7, ReaderMoves DEF x
<1>10. InRound'
  BY <1>3, <1>4, <1>5, <1>9 DEF InRound
<1>11. InBox' /\ InQueue' /\ KnownReads' /\ Followed' /\ Owed'
  <2>1. read \subseteq read' /\ hashing' \subseteq read'
    BY <1>2, <1>3 DEF KnownReads
  <2>2. \A c, b, e, j, r : <<c, b, e, j, r>> \in read' /\ <<c, b, e, j, r>> \notin read =>
             c = round.chain /\ b = round.block
    BY <1>2
  <2> QED
    BY <2>1, <2>2, <1>2, <1>5, ReadElsewhere
<1>12. /\ reader' \in [Disks -> {"none", "take", "read", "finished", "interrupted"}]
       /\ reader'[d] = IF interrupt THEN "interrupted" ELSE "take"
       /\ \A e \in Disks : e # d => reader'[e] = reader[e]
  BY <1>2, <1>3 DEF Types
<1>13. /\ IsFiniteSet(hashing') /\ pool' \in Nat
       /\ pool' + Cardinality(hashing') = pool + Cardinality(hashing) + 1
  <2>1. CASE interrupt
    BY <2>1, <1>2, <1>3, BufferFacts
  <2>2. CASE ~interrupt
    <3>1. id \notin read
      <4>1. From(setup, progress) = progress
        BY <1>5, KeptFacts
      <4>2. x \in 0 .. setup.reads[d][i] - 1 /\ ~(x < progress[d][i])
        BY <1>5, <1>6 DEF x
      <4>3. id \in read <=> x < From(setup, progress)[d][i]
        BY <4>2, <1>5, <1>6 DEF Exact
      <4> QED
        BY <4>1, <4>2, <4>3
    <3>2. id \notin hashing
      BY <3>1, <1>3 DEF KnownReads
    <3>3. hashing' = hashing \cup {id} /\ pool' = pool
      BY <2>2, <1>2
    <3> HIDE DEF id
    <3>4. IsFiniteSet(hashing') /\ Cardinality(hashing') = Cardinality(hashing) + 1
      BY <3>2, <3>3, <1>3, BufferFacts, FS_AddElement
    <3> QED
      BY <3>3, <3>4, <1>3, BufferFacts
  <2> QED
    BY <2>1, <2>2
<1>14. Types'
  BY <1>3, <1>4, <1>8, <1>12, <1>13, SameDisks DEF Types
<1>15. Balance'
  <2>1. Reading' = Reading \ {d} /\ d \in Reading
    BY <1>2, <1>4, <1>12, SameDisks DEF Reading
  <2>2. Cardinality(Reading') = Cardinality(Reading) - 1
    BY <2>1, <1>3, BufferFacts, FS_RemoveElement
  <2>3. Buffers' = Buffers
    <3>1. Cardinality(hashing') \in Nat
      BY <1>13, FS_CardinalityType
    <3> QED
      BY <3>1, <2>2, <1>3, <1>13, BufferFacts DEF Buffers
  <2> QED
    BY <2>3, <1>3, <1>4, SameDisks DEF Balance
<1>16. Control'
  <2>1. ASSUME NEW e \in Disks
        PROVE  /\ reader'[e] = "none" <=> roundPc # "collect"
               /\ reader'[e] = "read" => Unread(e)' # {}
               /\ reader'[e] = "finished" => Unread(e)' = {}
               /\ reader'[e] = "interrupted" => interrupt
    <3>1. CASE e = d
      BY <3>1, <1>5, <1>12
    <3>2. CASE e # d
      <4>1. Unread(e)' = Unread(e)
        BY <3>2, <1>4, <1>8, SameDisks DEF Unread
      <4> QED
        BY <3>2, <4>1, <1>3, <1>12 DEF Control
    <3> QED
      BY <3>1, <3>2
  <2> QED
    BY <2>1, <1>3, <1>4, SameDisks DEF Control
<1>17. scanned \subseteq scanned'
  BY <1>2
<1>18. ScannedSoFar'
  <2> SUFFICES ASSUME <<round.chain, round.block>> \notin paused, NEW e \in Disks, reader'[e] # "interrupted",
                      NEW j \in Plots(e), NEW r \in 0 .. progress'[e][j] - 1
               PROVE  <<round.chain, round.block, e, j, r>> \in scanned'
    BY <1>4, SameDisks DEF ScannedSoFar
  <2>1. reader[e] # "interrupted"
    BY <1>2, <1>12
  <2>2. \A q \in 0 .. progress[e][j] - 1 : <<round.chain, round.block, e, j, q>> \in scanned'
    BY <2>1, <1>3, <1>5, <1>17 DEF ScannedSoFar
  <2>3. CASE <<e, j>> = <<d, i>>
    <3>1. ~interrupt
      BY <2>3, <1>12
    <3>2. r \in 0 .. x
      BY <2>3, <1>5, <1>8
    <3>3. CASE r = x
      BY <3>1, <3>3, <2>3, <1>2
    <3>4. CASE r # x
      <4>1. r \in 0 .. progress[e][j] - 1
        BY <3>2, <3>4, <2>3, <1>5 DEF x
      <4> QED
        BY <4>1, <2>2
    <3> QED
      BY <3>3, <3>4
  <2>4. CASE <<e, j>> # <<d, i>>
    BY <2>2, <2>4, <1>8
  <2> QED
    BY <2>3, <2>4
<1>19. FinishedIsScanned'
  BY <1>3, <1>4, <1>17, ScansGrow
<1> QED
  BY <1>10, <1>11, <1>14, <1>15, <1>16, <1>18, <1>19 DEF IInv

LEMMA ReadFailsKeeps ==
  ASSUME IInv, NEW d \in Disks, ReadFails(d)
  PROVE  IInv'
<1>1. PICK i : i = Plot(d)
  OBVIOUS
<1> DEFINE x == progress[d][i]
           y == Reads[d][i]
           rest == {<<round.chain, round.block, d, i, r>> : r \in x .. y - 1}
<1>2. /\ reader[d] = "read"
      /\ progress' = [progress EXCEPT ![d][i] = y]
      /\ read' = read \union rest /\ scanned' = scanned \union rest
      /\ reader' = [reader EXCEPT ![d] = "take"]
      /\ pool' = pool + 1
      /\ UNCHANGED <<chainVars, queueVars, stateVars, round, roundPc, hashing, stopVars, reported, paused>>
  BY <1>1, Zenon DEF ReadFails
<1>3. Types /\ InRound /\ Control /\ KnownReads /\ Balance /\ FinishedIsScanned /\ ScannedSoFar
  BY DEF IInv
<1>4. /\ setup' = setup /\ tip' = tip /\ inbox' = inbox /\ paused' = paused /\ info' = info
      /\ pq' = pq /\ resume' = resume /\ cancelled' = cancelled /\ drained' = drained /\ late' = late
      /\ round' = round /\ scanning' = scanning /\ current' = current /\ interrupt' = interrupt /\ pause' = pause
      /\ roundPc' = roundPc /\ reported' = reported /\ hashing' = hashing
  BY <1>2 DEF chainVars, queueVars, stateVars, stopVars
<1>5. /\ roundPc = "collect" /\ setup \in Setups /\ progress \in KeptIn(setup)
      /\ i \in 1 .. Len(Reads[d]) /\ x \in Nat /\ y \in Nat /\ x < y
      /\ Exact(setup, read, round.chain, round.block, progress)
  BY <1>1, <1>2, ReaderAt
<1>6. Disks = 1 .. setup.disks /\ Reads = setup.reads
  BY DEF Disks, Reads
<1>7. y <= setup.reads[d][i] /\ x <= y
  BY <1>5, <1>6
<1> HIDE DEF x, y
<1>8. /\ progress' \in KeptIn(setup) /\ progress'[d][i] = y
      /\ \A e \in Disks : \A j \in Plots(e) : <<e, j>> # <<d, i>> => progress'[e][j] = progress[e][j]
      /\ \A e \in Disks : e # d => progress'[e] = progress[e]
  <2>1. Moved(setup, progress, d, i, y, progress')
    BY <1>2, <1>5, <1>6, <1>7, ProgressMoves
  <2> QED
    BY <2>1, <1>6 DEF Moved, Plots
<1>9. Exact(setup, read', round.chain, round.block, progress')
  BY <1>2, <1>5, <1>6, <1>7, ReaderMoves DEF x
<1>10. InRound'
  BY <1>3, <1>4, <1>5, <1>9 DEF InRound
<1>11. InBox' /\ InQueue' /\ KnownReads' /\ Followed' /\ Owed'
  <2>1. read \subseteq read' /\ hashing' \subseteq read'
    BY <1>2, <1>3, <1>4 DEF KnownReads
  <2>2. \A c, b, e, j, r : <<c, b, e, j, r>> \in read' /\ <<c, b, e, j, r>> \notin read =>
             c = round.chain /\ b = round.block
    BY <1>2
  <2> QED
    BY <2>1, <2>2, <1>2, <1>5, ReadElsewhere
<1>12. /\ reader' \in [Disks -> {"none", "take", "read", "finished", "interrupted"}]
       /\ reader'[d] = "take"
       /\ \A e \in Disks : e # d => reader'[e] = reader[e]
  BY <1>2, <1>3 DEF Types
<1>13. Types'
  <2>1. pool' \in Nat
    BY <1>2, <1>3, BufferFacts
  <2> QED
    BY <2>1, <1>3, <1>4, <1>8, <1>12, SameDisks DEF Types
<1>14. Balance'
  <2>1. Reading' = Reading \ {d} /\ d \in Reading
    BY <1>2, <1>4, <1>12, SameDisks DEF Reading
  <2>2. Cardinality(Reading') = Cardinality(Reading) - 1
    BY <2>1, <1>3, BufferFacts, FS_RemoveElement
  <2>3. Buffers' = Buffers
    BY <2>2, <1>2, <1>3, <1>4, BufferFacts DEF Buffers
  <2> QED
    BY <2>3, <1>3, <1>4, SameDisks DEF Balance
<1>15. Control'
  <2>1. ASSUME NEW e \in Disks
        PROVE  /\ reader'[e] = "none" <=> roundPc # "collect"
               /\ reader'[e] = "read" => Unread(e)' # {}
               /\ reader'[e] = "finished" => Unread(e)' = {}
               /\ reader'[e] = "interrupted" => interrupt
    <3>1. CASE e = d
      BY <3>1, <1>5, <1>12
    <3>2. CASE e # d
      <4>1. Unread(e)' = Unread(e)
        BY <3>2, <1>4, <1>8, SameDisks DEF Unread
      <4> QED
        BY <3>2, <4>1, <1>3, <1>12 DEF Control
    <3> QED
      BY <3>1, <3>2
  <2> QED
    BY <2>1, <1>3, <1>4, SameDisks DEF Control
<1>16. scanned \subseteq scanned'
  BY <1>2
<1>17. ScannedSoFar'
  <2> SUFFICES ASSUME <<round.chain, round.block>> \notin paused, NEW e \in Disks, reader'[e] # "interrupted",
                      NEW j \in Plots(e), NEW r \in 0 .. progress'[e][j] - 1
               PROVE  <<round.chain, round.block, e, j, r>> \in scanned'
    BY <1>4, SameDisks DEF ScannedSoFar
  <2>1. reader[e] # "interrupted"
    BY <1>2, <1>12
  <2>2. \A q \in 0 .. progress[e][j] - 1 : <<round.chain, round.block, e, j, q>> \in scanned'
    BY <2>1, <1>3, <1>5, <1>16 DEF ScannedSoFar
  <2>3. CASE <<e, j>> = <<d, i>>
    <3>1. r \in 0 .. y - 1
      BY <2>3, <1>8
    <3>2. CASE r \in x .. y - 1
      BY <3>2, <2>3, <1>2
    <3>3. CASE r \notin x .. y - 1
      <4>1. r \in 0 .. progress[e][j] - 1
        BY <3>1, <3>3, <2>3, <1>5 DEF x
      <4> QED
        BY <4>1, <2>2
    <3> QED
      BY <3>2, <3>3
  <2>4. CASE <<e, j>> # <<d, i>>
    BY <2>2, <2>4, <1>8
  <2> QED
    BY <2>3, <2>4
<1>18. FinishedIsScanned'
  BY <1>3, <1>4, <1>16, ScansGrow
<1> QED
  BY <1>10, <1>11, <1>13, <1>14, <1>15, <1>17, <1>18 DEF IInv

-----------------------------------------------------------------------------
(* The end of a round.                                                       *)

\* A round that ends with no reader interrupted has scanned its block, unless
\* the block was paused before.
LEMMA RoundScanned ==
  ASSUME IInv, roundPc = "collect", \A d \in Disks : reader[d] = "finished",
         <<round.chain, round.block>> \notin paused,
         NEW d \in Disks, NEW i \in Plots(d), <<d, i>> \in Mineable[round.chain],
         NEW r \in 0 .. Reads[d][i] - 1
  PROVE  <<round.chain, round.block, d, i, r>> \in scanned
<1>1. Types /\ Control /\ ScannedSoFar
  BY DEF IInv
<1>2. Unread(d) = {}
  BY <1>1 DEF Control
<1>3. ~(progress[d][i] < Reads[d][i])
  BY <1>2 DEF Unread
<1>4. progress[d][i] \in Nat /\ Reads[d][i] \in Nat
  BY <1>1, KeptFacts, SetupFacts DEF Types, Disks, Plots, Reads
<1>5. r \in 0 .. progress[d][i] - 1
  BY <1>3, <1>4
<1> QED
  BY <1>1, <1>5 DEF ScannedSoFar

LEMMA RoundEndKeeps ==
  ASSUME IInv, RoundEnd
  PROVE  IInv'
<1> DEFINE c == round.chain  b == round.block  m == Again(current, round.block, progress)
           pauses == interrupt /\ pause /\ Interrupted
           finishes == ~interrupt \/ (pause /\ ~Interrupted)
<1>1. /\ roundPc = "collect"
      /\ Disks # {} /\ \A d \in Disks : reader[d] \in {"finished", "interrupted"}
      /\ IF pauses
         THEN inbox' = Send(inbox, <<m, Process>>) /\ paused' = paused \union {<<c, b>>}
         ELSE inbox' = Send(inbox, <<Process>>) /\ paused' = paused
      /\ reported' = IF finishes THEN reported \union {<<c, b>>} ELSE reported
      /\ scanning' = FALSE
      /\ roundPc' = "none" /\ round' = NoRound
      /\ reader' = [d \in Disks |-> "none"]
      /\ UNCHANGED <<tip, queueVars, interrupt, pause, current, progress, bufferVars, stopVars, read, scanned>>
  BY Zenon DEF RoundEnd
<1>2. /\ Types /\ InBox /\ InQueue /\ InRound /\ Control /\ KnownReads /\ Balance /\ FinishedIsScanned
      /\ Followed /\ Owed
  BY DEF IInv
<1>3. /\ setup' = setup /\ tip' = tip /\ info' = info /\ pq' = pq /\ resume' = resume
      /\ cancelled' = cancelled /\ drained' = drained /\ late' = late
      /\ current' = current /\ interrupt' = interrupt /\ pause' = pause
      /\ progress' = progress /\ hashing' = hashing /\ pool' = pool /\ read' = read /\ scanned' = scanned
  BY <1>1 DEF queueVars, stopVars, bufferVars
<1>4. /\ setup \in Setups /\ c \in Chains /\ b \in 0 .. setup.blocks /\ progress \in KeptIn(setup)
      /\ current = c /\ scanning
  BY <1>1, <1>2 DEF Types, Blocks, Control
<1>5. /\ m \in Messages(setup) /\ Holds(m) /\ m.chain = c /\ m.block = b /\ Skip(m) = progress
      /\ m # Process /\ m.kind # "new" /\ Process \in Messages(setup) /\ ~Holds(Process) /\ Process.kind # "new"
  BY <1>4 DEF Again, Messages, Holds, Skip, Process
<1> HIDE DEF m
<1>6. \/ inbox' = inbox
      \/ inbox' = inbox \o <<Process>>
      \/ inbox' = inbox \o <<m, Process>> /\ pauses /\ <<c, b>> \in paused'
  BY <1>1 DEF Send
<1>7. ~cancelled => inbox' # inbox /\ (inbox' = inbox \o <<Process>> \/ inbox' = inbox \o <<m, Process>>)
  <2>1. inbox \in Seq(Messages(setup)) /\ <<Process>> \in Seq(Messages(setup)) /\ <<m, Process>> \in Seq(Messages(setup))
    BY <1>2, <1>5, InboxTypes
  <2>2. Len(inbox \o <<Process>>) = Len(inbox) + 1 /\ Len(inbox \o <<m, Process>>) = Len(inbox) + 2 /\ Len(inbox) \in Nat
    BY <2>1, ConcatProperties, LenProperties
  <2>3. inbox \o <<Process>> # inbox /\ inbox \o <<m, Process>> # inbox
    BY <2>2
  <2> QED
    BY <2>3, <1>1 DEF Send
\* The messages: those of before, a ProcessBlock, and the paused block once.
<1>8. /\ inbox' \in Seq(Messages(setup))
      /\ \A k \in DOMAIN inbox : k \in DOMAIN inbox' /\ inbox'[k] = inbox[k]
      /\ \A k \in DOMAIN inbox' :
            \/ k \in DOMAIN inbox /\ inbox'[k] = inbox[k]
            \/ inbox'[k] = Process
            \/ k = Len(inbox) + 1 /\ inbox'[k] = m /\ <<c, b>> \in paused'
      /\ ~cancelled => \E k \in DOMAIN inbox' : inbox'[k] = Process
  <2>1. inbox \in Seq(Messages(setup)) /\ <<Process>> \in Seq(Messages(setup)) /\ <<m, Process>> \in Seq(Messages(setup))
    BY <1>2, <1>5, InboxTypes
  <2>2. CASE inbox' = inbox
    BY <2>1, <2>2, <1>7
  <2>3. CASE inbox' = inbox \o <<Process>>
    <3>1. inbox' \in Seq(Messages(setup)) /\ Added(inbox, <<Process>>, inbox')
      BY <2>1, <2>3, BoxAdded
    <3>2. DOMAIN <<Process>> = {1} /\ <<Process>>[1] = Process
      OBVIOUS
    <3>3. /\ \A k \in DOMAIN inbox : k \in DOMAIN inbox' /\ inbox'[k] = inbox[k]
          /\ \A k \in DOMAIN inbox' : (k \in DOMAIN inbox /\ inbox'[k] = inbox[k]) \/ inbox'[k] = Process
      BY <3>1, <3>2 DEF Added
    <3>4. Len(inbox) + 1 \in DOMAIN inbox' /\ inbox'[Len(inbox) + 1] = Process
      BY <3>1, <3>2 DEF Added
    <3> QED
      BY <3>1, <3>3, <3>4
  <2>4. CASE inbox' = inbox \o <<m, Process>> /\ <<c, b>> \in paused'
    <3>1. inbox' \in Seq(Messages(setup)) /\ Added(inbox, <<m, Process>>, inbox')
      BY <2>1, <2>4, BoxAdded
    <3>2. DOMAIN <<m, Process>> = {1, 2} /\ <<m, Process>>[1] = m /\ <<m, Process>>[2] = Process
      OBVIOUS
    <3>3. \A k \in DOMAIN inbox : k \in DOMAIN inbox' /\ inbox'[k] = inbox[k]
      BY <3>1 DEF Added
    <3>4. ASSUME NEW k \in DOMAIN inbox'
          PROVE  \/ k \in DOMAIN inbox /\ inbox'[k] = inbox[k]
                 \/ inbox'[k] = Process
                 \/ k = Len(inbox) + 1 /\ inbox'[k] = m
      <4>1. /\ k \in Nat /\ Len(inbox) \in Nat
            /\ \/ k \in DOMAIN inbox /\ inbox'[k] = inbox[k]
               \/ k - Len(inbox) \in {1, 2} /\ inbox'[k] = <<m, Process>>[k - Len(inbox)]
        BY <3>1, <3>2 DEF Added
      <4>2. CASE k - Len(inbox) = 1 /\ inbox'[k] = <<m, Process>>[1]
        BY <4>1, <4>2, <3>2
      <4>3. CASE k - Len(inbox) = 2 /\ inbox'[k] = <<m, Process>>[2]
        BY <4>3, <3>2
      <4> QED
        BY <4>1, <4>2, <4>3
    <3>5. Len(inbox) + 2 \in DOMAIN inbox' /\ inbox'[Len(inbox) + 2] = Process
      BY <3>1, <3>2 DEF Added
    <3> QED
      BY <3>1, <3>3, <3>4, <3>5, <2>4
  <2> QED
    BY <2>2, <2>3, <2>4, <1>6
<1>9. /\ b <= tip[c] /\ Exact(setup, read, c, b, progress)
      /\ round.resume # NoResume => <<c, b>> \in paused
  BY <1>1, <1>2 DEF InRound
<1>10. paused \subseteq paused'
  BY <1>1
<1>11. \A e, x, p : Good(setup, tip, read, paused, e, x, p) => Good(setup, tip, read, paused', e, x, p)
  BY <1>10 DEF Good
<1>12. /\ roundPc' = "none" /\ round' = NoRound /\ scanning' = FALSE /\ \A d \in Disks : reader'[d] = "none"
       /\ reader' \in [Disks -> {"none", "take", "read", "finished", "interrupted"}]
  BY <1>1
<1>13. Types'
  <2>1. round' \in [chain : Chains, block : Blocks, resume : {NoResume} \cup KeptIn(setup)]
    <3>1. 0 \in Chains /\ 0 \in Blocks
      BY <1>4, ChainFacts, SetupFacts DEF Blocks
    <3> QED
      BY <3>1, <1>12 DEF NoRound
  <2> QED
    BY <2>1, <1>2, <1>3, <1>8, <1>12, SameDisks DEF Types
<1>14. InBox'
  <2> SUFFICES ASSUME NEW k \in DOMAIN inbox', Holds(inbox'[k])
               PROVE  /\ Good(setup, tip, read, paused', inbox'[k].chain, inbox'[k].block, Skip(inbox'[k]))
                      /\ \A j \in DOMAIN inbox' : j # k /\ Holds(inbox'[j]) => ~Same(inbox'[j], inbox'[k])
                      /\ inbox'[k].chain \in pq => inbox'[k].block # info[inbox'[k].chain]
    BY <1>3, <1>12 DEF InBox
  <2>1. CASE k \in DOMAIN inbox /\ inbox'[k] = inbox[k]
    <3>1. /\ Good(setup, tip, read, paused, inbox[k].chain, inbox[k].block, Skip(inbox[k]))
          /\ \A j \in DOMAIN inbox : j # k /\ Holds(inbox[j]) => ~Same(inbox[j], inbox[k])
          /\ inbox[k].chain \in pq => inbox[k].block # info[inbox[k].chain]
          /\ ~Same(inbox[k], round)
      BY <1>1, <1>2, <2>1 DEF InBox
    <3>2. ASSUME NEW j \in DOMAIN inbox', j # k, Holds(inbox'[j]) PROVE ~Same(inbox'[j], inbox'[k])
      <4>1. CASE j \in DOMAIN inbox /\ inbox'[j] = inbox[j]
        BY <4>1, <3>1, <3>2, <2>1
      <4>2. CASE inbox'[j] = m
        BY <4>2, <3>1, <2>1, <1>5 DEF Same
      <4> QED
        BY <4>1, <4>2, <3>2, <1>5, <1>8
    <3> QED
      BY <3>1, <3>2, <2>1, <1>11
  <2>2. CASE k = Len(inbox) + 1 /\ inbox'[k] = m /\ <<c, b>> \in paused'
    <3>1. Good(setup, tip, read, paused', c, b, progress)
      BY <2>2, <1>9 DEF Good
    <3>2. ASSUME NEW j \in DOMAIN inbox', j # k, Holds(inbox'[j]) PROVE ~Same(inbox'[j], inbox'[k])
      <4>1. j \in DOMAIN inbox /\ inbox'[j] = inbox[j]
        BY <3>2, <2>2, <1>5, <1>8
      <4>2. ~Same(inbox[j], round)
        BY <4>1, <3>2, <1>1, <1>2 DEF InBox
      <4> QED
        BY <4>1, <4>2, <2>2, <1>5 DEF Same
    <3>3. c \in pq => b # info[c]
      BY <1>1, <1>2, <1>4 DEF InQueue
    <3> QED
      BY <3>1, <3>2, <3>3, <2>2, <1>5
  <2> QED
    BY <2>1, <2>2, <1>5, <1>8
<1>15. InQueue'
  BY <1>2, <1>3, <1>11, <1>12 DEF InQueue
<1>16. InRound'
  BY <1>12 DEF InRound
<1>17. Followed'
  <2> SUFFICES ASSUME NEW k \in DOMAIN inbox', inbox'[k].kind = "new", inbox'[k].initial
               PROVE  \E j \in DOMAIN inbox' : j > k /\ inbox'[j] = Process
    BY DEF Followed
  <2>1. k \in DOMAIN inbox /\ inbox'[k] = inbox[k]
    BY <1>5, <1>8
  <2>2. PICK j \in DOMAIN inbox : j > k /\ inbox[j] = Process
    BY <2>1, <1>2 DEF Followed
  <2> QED
    BY <2>2, <1>8
<1>18. Owed'
  BY <1>3, <1>8, <1>12 DEF Owed, Called
<1>19. Control'
  BY <1>2, <1>3, <1>12, SameDisks DEF Control
<1>20. ScannedSoFar'
  BY <1>12 DEF ScannedSoFar
<1>21. KnownReads'
  BY <1>2, <1>3, SameReads
<1>22. Balance'
  <2>1. Reading = {} /\ Reading' = {}
    BY <1>1, <1>3, <1>12, SameDisks DEF Reading
  <2> QED
    BY <2>1, <1>2, <1>3, SameDisks DEF Balance, Buffers
<1>23. finishes => \A d \in Disks : reader[d] = "finished"
  BY <1>1, <1>2 DEF Control, Interrupted
<1>24. FinishedIsScanned'
  <2> SUFFICES ASSUME NEW x \in reported' \ paused', NEW d \in Disks, NEW i \in Plots(d),
                      <<d, i>> \in Mineable[x[1]], NEW r \in 0 .. Reads[d][i] - 1
               PROVE  <<x[1], x[2], d, i, r>> \in scanned
    BY <1>3, SameDisks DEF FinishedIsScanned
  <2>1. CASE x \in reported
    BY <2>1, <1>2, <1>10 DEF FinishedIsScanned
  <2>2. CASE x \notin reported
    <3>1. x = <<c, b>> /\ finishes
      BY <2>2, <1>1
    <3>2. x[1] = c /\ x[2] = b /\ <<c, b>> \notin paused
      BY <3>1, <1>10
    <3> QED
      BY <3>1, <3>2, <1>1, <1>23, RoundScanned
  <2> QED
    BY <2>1, <2>2
<1> QED
  BY <1>13, <1>14, <1>15, <1>16, <1>17, <1>18, <1>19, <1>20, <1>21, <1>22, <1>24 DEF IInv

-----------------------------------------------------------------------------
(* The theorems.                                                             *)

LEMMA StutterKeeps ==
  ASSUME IInv, UNCHANGED vars
  PROVE  IInv'
<1>1. /\ UNCHANGED <<chainVars, queueVars, stateVars, roundVars, bufferVars, stopVars, history>>
  BY DEF vars
<1>2. /\ setup' = setup /\ tip' = tip /\ inbox' = inbox /\ paused' = paused /\ info' = info /\ read' = read
      /\ pq' = pq /\ resume' = resume /\ cancelled' = cancelled /\ late' = late /\ drained' = drained
      /\ round' = round /\ scanning' = scanning /\ current' = current /\ interrupt' = interrupt /\ pause' = pause
      /\ roundPc' = roundPc /\ progress' = progress /\ reader' = reader /\ hashing' = hashing /\ pool' = pool
      /\ scanned' = scanned /\ reported' = reported
  BY <1>1 DEF chainVars, queueVars, stateVars, roundVars, bufferVars, stopVars, history
<1>3. Types'
  BY <1>2, SameDisks DEF IInv, Types
<1>4. InBox' /\ InQueue' /\ Followed' /\ Owed'
  BY <1>1, <1>2, ReaderRest DEF roundVars, history
<1>5. KnownReads' /\ FinishedIsScanned' /\ InRound' /\ ScannedSoFar' /\ Control' /\ Balance'
  BY <1>2, SameReads, SameHistory, SameRound, SameScan, SameReaders, SameBuffers DEF IInv
<1> QED
  BY <1>3, <1>4, <1>5 DEF IInv

LEMMA StepKeepsIInv == IInv /\ [Next]_vars => IInv'
<1> SUFFICES ASSUME IInv, [Next]_vars PROVE IInv'
  OBVIOUS
<1>1. CASE \E c \in Chains : NewBlock(c)
  BY <1>1, NewBlockKeeps
<1>2. CASE Scheduler
  BY <1>2, ScheduleNewBlockKeeps, RescheduleBlockKeeps, StartBlockKeeps, PreemptKeeps DEF Scheduler
<1>3. CASE Round
  BY <1>3, RoundStartKeeps, RoundEndKeeps DEF Round
<1>4. CASE \E d \in Disks : Reader(d)
  BY <1>4, TakeBufferKeeps, ReadBufferKeeps, ReadFailsKeeps, ReaderFinishesKeeps DEF Reader
<1>5. CASE \E id \in hashing : HashDone(id)
  BY <1>5, HashDoneKeeps
<1>6. CASE Shutdown \/ DrainBuffers
  BY <1>6, ShutdownKeeps, DrainBuffersKeeps
<1>7. CASE UNCHANGED vars
  BY <1>7, StutterKeeps
<1> QED
  BY <1>1, <1>2, <1>3, <1>4, <1>5, <1>6, <1>7 DEF Next

\* The invariant of the miner: wherever a block is - on its way to the
\* scheduler, in its queue or in the round - it is there alone, with the
\* progress that was read for it (miner.rs:757-1020, plots.rs:330-410).
THEOREM MinerInvariant == Spec => []IInv
<1> QED
  BY InitIInv, StepKeepsIInv, PTL DEF Spec

\* Every variable keeps its type, and no plot is read past its end.
THEOREM MinerTypes == Spec => []TypeOK
<1>1. IInv => TypeOK
  <2> SUFFICES ASSUME IInv PROVE TypeOK
    OBVIOUS
  <2>1. Types /\ Balance
    BY DEF IInv
  <2>2. setup \in Setups /\ progress \in KeptIn(setup)
    BY <2>1 DEF Types
  <2>3. progress \in Progress /\ \A d \in Disks : \A i \in Plots(d) : progress[d][i] <= Reads[d][i]
    BY <2>2, KeptFacts DEF Progress, Disks, Plots, Reads
  <2>4. \A c \in Chains : resume[c] = NoResume \/ resume[c] \in Progress
    <3> SUFFICES ASSUME NEW c \in Chains, resume[c] # NoResume PROVE resume[c] \in Progress
      OBVIOUS
    <3>1. resume[c] \in KeptIn(setup)
      BY <2>1 DEF Types
    <3> QED
      BY <3>1, <2>2, KeptFacts DEF Progress, Disks
  <2>5. \A k \in DOMAIN inbox : inbox[k].kind \in {"new", "again", "process"}
    <3> SUFFICES ASSUME NEW k \in DOMAIN inbox PROVE inbox[k].kind \in {"new", "again", "process"}
      OBVIOUS
    <3>1. inbox[k] \in Messages(setup)
      BY <2>1, InboxTypes
    <3> QED
      BY <3>1 DEF Messages, Process
  <2>6. pool \in 0 .. NumBuffers
    BY <2>1, BufferFacts DEF Balance, Buffers
  <2> QED
    BY <2>1, <2>3, <2>4, <2>5, <2>6 DEF Types, TypeOK
<1> QED
  BY <1>1, MinerInvariant, PTL

\* Every read buffer is in the pool, with a reader or with a hasher until the
\* shutdown drains them (plots.rs:377, :397).
THEOREM ReadBuffersConserved == Spec => []BuffersConserved
<1>1. IInv => BuffersConserved
  BY DEF IInv, Balance, Buffers, Reading, BuffersConserved
<1> QED
  BY <1>1, MinerInvariant, PTL

\* The miner never idles with a block queued: whoever fills the queue or ends a
\* round has a ProcessBlock follow (miner.rs:722-905).
THEOREM NoIdleQueue == Spec => []NeverIdleWithWork
<1>1. IInv => NeverIdleWithWork
  <2> SUFFICES ASSUME IInv, ~cancelled, inbox = << >>, ~scanning, pq # {} PROVE FALSE
    BY DEF NeverIdleWithWork
  <2>1. Called
    BY DEF IInv, Owed
  <2> QED
    BY <2>1 DEF Called
<1> QED
  BY <1>1, MinerInvariant, PTL

\* A scan does not go on undisturbed while a block that should come first is
\* queued (miner.rs:1001-1020).
THEOREM ScansYield == Spec => []YieldsToBetterBlock
<1>1. IInv => YieldsToBetterBlock
  <2> SUFFICES ASSUME IInv, ~cancelled, inbox = << >>, scanning, NEW c \in pq, Prio(c) >= Prio(current), ~interrupt
               PROVE  FALSE
    BY DEF YieldsToBetterBlock
  <2>1. c \in Chains /\ current \in Chains
    BY DEF IInv, Types
  <2>2. c <= current
    BY <2>1, ChainFacts
  <2>3. Called
    BY <2>2 DEF IInv, Owed
  <2> QED
    BY <2>3 DEF Called
<1> QED
  BY <1>1, MinerInvariant, PTL

\* A scan is taken up again where the very same block was left: the progress of
\* one block is never applied to another (miner.rs:764, :827).
THEOREM ProgressIsOwn == Spec => []ResumesOwnProgress
<1>1. IInv => ResumesOwnProgress
  <2> SUFFICES ASSUME IInv, NEW c \in Chains, resume[c] # NoResume, NEW d \in Disks, NEW i \in Plots(d),
                      NEW r \in 0 .. resume[c][d][i] - 1
               PROVE  <<c, info[c], d, i, r>> \in read
    BY DEF ResumesOwnProgress
  <2>1. Types /\ InQueue
    BY DEF IInv
  <2>2. setup \in Setups /\ resume[c] \in KeptIn(setup)
    BY <2>1 DEF Types
  <2>3. /\ From(setup, resume[c]) = resume[c]
        /\ resume[c][d][i] \in Nat /\ resume[c][d][i] <= Reads[d][i] /\ Reads[d][i] \in Nat
    BY <2>2, KeptFacts, SetupFacts DEF Disks, Plots, Reads
  <2>4. Exact(setup, read, c, info[c], resume[c])
    BY <2>1 DEF InQueue, Good
  <2>5. r \in 0 .. setup.reads[d][i] - 1 /\ r < resume[c][d][i]
    BY <2>3 DEF Reads
  <2> QED
    BY <2>3, <2>4, <2>5 DEF Exact, Disks, Plots, Reads
<1> QED
  BY <1>1, MinerInvariant, PTL

\* A block reported as finished without ever having been paused was scanned
\* completely.
THEOREM FinishedWasScanned == Spec => []FinishedIsScanned
<1>1. IInv => FinishedIsScanned
  BY DEF IInv
<1> QED
  BY <1>1, MinerInvariant, PTL
=============================================================================
