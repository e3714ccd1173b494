------------------------- MODULE RingScheduler_proofs -------------------------
(***************************************************************************)
(* Proofs about RingScheduler, for every number of paths, files, warps and  *)
(* buffers and every work size up to the size of a compress pass: first of  *)
(* the counters, then of the nonces in the ring, in the buffers and in the  *)
(* files.  The work sizes beyond it are what MCRingSchedulerLarge refutes.  *)
(***************************************************************************)
EXTENDS RingScheduler, WellFoundedInduction, TLAPS

-----------------------------------------------------------------------------
(* Numbers. *)

\* A set of naturals has a least element.
LEMMA LeastNat ==
  ASSUME NEW T \in SUBSET Nat, T # {}
  PROVE  \E x \in T : \A y \in T : x <= y
<1>1. \A x, y \in Nat : <<x, y>> \in OpToRel(<, Nat) <=> x < y
  BY DEF OpToRel
<1>2. \E x \in T : \A y \in T : ~ (<<y, x>> \in OpToRel(<, Nat))
  BY WFMin, NatLessThanWellFounded, Zenon
<1>3. \E x \in T : \A y \in T : ~ (y < x)
  BY <1>1, <1>2, Zenon
<1> QED
  BY <1>3

\* A bounded set of naturals has a greatest element.
LEMMA GreatestNat ==
  ASSUME NEW n \in Nat, NEW T \in SUBSET (0 .. n), T # {}
  PROVE  \E x \in T : \A y \in T : y <= x
<1> DEFINE U == {n - d : d \in T}
<1>0. \A d \in T : n - d \in Nat /\ d \in Int
  OBVIOUS
<1>1. U \in SUBSET Nat /\ U # {}
  BY <1>0
<1>2. PICK u \in U : \A v \in U : u <= v
  BY <1>1, LeastNat
<1>3. PICK x \in T : u = n - x
  OBVIOUS
<1>4. \A y \in T : n - x <= n - y
  BY <1>2, <1>3
<1>5. \A y \in T : y <= x
  BY <1>4, <1>0
<1> QED
  BY <1>5

\* A multiple, with its quotient.
LEMMA Multiple ==
  ASSUME NEW a \in Int, NEW n \in Nat \ {0}
  PROVE  a % n = 0 <=> \E q \in Int : a = n * q
<1>1. ASSUME a % n = 0 PROVE \E q \in Int : a = n * q
  <2>1. a = n * (a \div n) /\ a \div n \in Int
    BY <1>1
  <2> QED
    BY <2>1
<1>2. ASSUME NEW q \in Int, a = n * q PROVE a % n = 0
  BY <1>2
<1> QED
  BY <1>1, <1>2

\* Sums and differences of multiples are multiples.
LEMMA MultipleSum ==
  ASSUME NEW a \in Int, NEW b \in Int, NEW n \in Nat \ {0},
         a % n = 0, b % n = 0
  PROVE  (a + b) % n = 0 /\ (a - b) % n = 0
<1>1. PICK q \in Int : a = n * q
  BY Multiple
<1>2. PICK r \in Int : b = n * r
  BY Multiple
<1>3. a + b = n * (q + r) /\ a - b = n * (q - r)
  BY <1>1, <1>2
<1>4. q + r \in Int /\ q - r \in Int /\ a + b \in Int /\ a - b \in Int
  OBVIOUS
<1> QED
  BY <1>3, <1>4, Multiple

\* Multiples of n have gaps of n between them.
LEMMA MultipleGap ==
  ASSUME NEW a \in Int, NEW b \in Int, NEW n \in Nat \ {0},
         a % n = 0, b % n = 0, a > b - n
  PROVE  a >= b
<1>1. PICK q \in Int : a = n * q
  BY Multiple
<1>2. PICK r \in Int : b = n * r
  BY Multiple
<1>3. SUFFICES ASSUME a < b PROVE FALSE
  OBVIOUS
<1>4. q < r
  <2>1. SUFFICES ASSUME r <= q PROVE FALSE
    OBVIOUS
  <2>2. n * r <= n * q
    BY <2>1
  <2> QED
    BY <2>2, <1>1, <1>2, <1>3
<1>5. q <= r - 1
  BY <1>4
<1>6. n * q <= n * (r - 1)
  BY <1>5
<1>7. n * (r - 1) = n * r - n
  OBVIOUS
<1> QED
  BY <1>1, <1>2, <1>6, <1>7

\* a rows of n fit below b rows with one to spare.
LEMMA RowBelow ==
  ASSUME NEW a \in Nat, NEW b \in Nat, NEW n \in Nat, a < b
  PROVE  a * n + n <= b * n
<1>1. (a + 1) * n <= b * n
  <2>1. a + 1 <= b
    OBVIOUS
  <2> QED
    BY <2>1
<1>2. (a + 1) * n = a * n + n
  OBVIOUS
<1> QED
  BY <1>1, <1>2

\* The work sizes that divide into at most one pass of the compress kernel.
SmallWork == \A w \in WorkSizes : w <= C

-----------------------------------------------------------------------------
(* The operators. *)

\* What compute_ring_size takes off is a common divisor.
LEMMA GcdDivides ==
  ASSUME NEW a \in Nat \ {0}, NEW b \in Nat \ {0}
  PROVE  /\ Gcd(a, b) \in 1 .. a
         /\ a % Gcd(a, b) = 0
         /\ b % Gcd(a, b) = 0
<1> DEFINE T == {d \in 1 .. a : Divides(d, a) /\ Divides(d, b)}
<1>1. 1 \in T
  BY DEF Divides
<1>2. T \in SUBSET (0 .. a)
  OBVIOUS
<1>3. \E d \in T : \A e \in T : e <= d
  BY <1>1, <1>2, GreatestNat
<1>4. Gcd(a, b) \in T
  BY <1>3 DEF Gcd
<1> QED
  BY <1>4 DEF Divides

\* The ring has room for a work batch or for a compress pass, whatever is in it.
LEMMA RingFacts ==
  ASSUME worksize \in WorkSizes
  PROVE  /\ Gcd(worksize, C) \in 1 .. worksize
         /\ worksize % Gcd(worksize, C) = 0
         /\ C % Gcd(worksize, C) = 0
         /\ R = worksize + C - Gcd(worksize, C)
         /\ R \in Nat \ {0}
         /\ R >= C
<1>1. worksize \in Nat \ {0} /\ C \in Nat \ {0}
  BY RingAssumption
<1> QED
  BY <1>1, GcdDivides DEF R, RingSize

\* The paths that the scheduler chooses among are paths.
LEMMA NextActiveIsPath ==
  ASSUME NEW p \in Paths, NEW done
  PROVE  /\ NextActive(p, done) \in Paths
         /\ \/ NextActive(p, done) = p
            \/ done[NextActive(p, done)] < Plots[NextActive(p, done)]
<1> DEFINE later == {i \in 1 .. NumPaths :
                       done[(p + i) % NumPaths] < Plots[(p + i) % NumPaths]}
<1>1. CASE later = {}
  BY <1>1 DEF NextActive
<1>2. CASE later # {}
  <2>1. later \in SUBSET Nat
    OBVIOUS
  <2>2. PICK i \in later : \A j \in later : i <= j
    BY <1>2, <2>1, LeastNat
  <2>3. (CHOOSE k \in later : \A j \in later : k <= j) \in later
    BY <2>2
  <2>4. PICK k \in later : NextActive(p, done) = (p + k) % NumPaths
    BY <1>2, <2>3 DEF NextActive
  <2>5. NumPaths \in Nat \ {0} /\ p + k \in Nat
    BY RingAssumption DEF Paths
  <2>6. (p + k) % NumPaths \in 0 .. NumPaths - 1
    BY <2>5
  <2> QED
    BY <2>4, <2>6 DEF Paths
<1> QED
  BY <1>1, <1>2

LEMMA FirstActiveIsPath ==
  ASSUME NEW done
  PROVE  FirstActive(done) \in Paths
<1> DEFINE active == {p \in Paths : done[p] < Plots[p]}
<1>1. 0 \in Paths
  BY RingAssumption DEF Paths
<1>2. CASE done[0] < Plots[0] \/ active = {}
  BY <1>1, <1>2 DEF FirstActive
<1>3. CASE ~(done[0] < Plots[0] \/ active = {})
  <2>1. active \in SUBSET Nat /\ active # {}
    BY <1>3 DEF Paths
  <2>2. \E p \in active : \A q \in active : p <= q
    BY <2>1, LeastNat
  <2>3. (CHOOSE p \in active : \A q \in active : p <= q) \in active
    BY <2>2
  <2> QED
    BY <1>3, <2>3 DEF FirstActive
<1> QED
  BY <1>2, <1>3

\* The nonces that the complete passes of path p's file have consumed.
Consumed(p) == (warpOffset[p] * Passes + pass) * C

\* A warp that is not complete still has a whole pass ahead of it.
LEMMA PassFits ==
  ASSUME NEW p \in Paths, NEW w \in Nat, w < Warps[p],
         NEW i \in Nat, i < Passes
  PROVE  /\ (w * Passes + i) * C \in Nat
         /\ w * Passes * C = (w * Passes + 0) * C
         /\ NoncesForFile(p) \in Nat
         /\ (w * Passes + i) * C + C <= NoncesForFile(p)
         /\ (w * Passes + i + 1) * C = (w * Passes + i) * C + C
<1>1. Passes \in Nat \ {0} /\ C \in Nat \ {0} /\ Warps[p] \in Nat \ {0}
  BY RingAssumption
<1>2. w * Passes + Passes <= Warps[p] * Passes
  BY <1>1, RowBelow
<1> DEFINE x == w * Passes + i
           y == Warps[p] * Passes
<1>3. x \in Nat /\ y \in Nat /\ w * Passes \in Nat
  BY <1>1
<1>4. x < y
  BY <1>1, <1>2, <1>3
<1>5. x * C \in Nat /\ y * C \in Nat
  BY <1>1, <1>3
<1>6. NoncesForFile(p) = y * C
  BY DEF NoncesForFile
<1> HIDE DEF x, y
<1>7. x * C + C <= y * C
  BY <1>1, <1>3, <1>4, RowBelow
<1>8. (x + 1) * C = x * C + C
  BY <1>1, <1>3
<1> QED
  BY <1>1, <1>3, <1>5, <1>6, <1>7, <1>8 DEF x

-----------------------------------------------------------------------------
(* The inductive invariant: the type invariant, the count of the nonces, and  *)
(* what they need: the path in service has a warp left to make, the passes    *)
(* are counted up to the transfer, a pass has just been taken from the ring   *)
(* when a warp is transferred, and the write buffer has room for it.          *)

Offsets ==
    /\ \A p \in Paths : p # path => warpOffset[p] < Warps[p]
    /\ pc \in {"fill", "compress", "transfer"} => warpOffset[path] < Warps[path]
    /\ pc = "top" => AllDone \/ warpOffset[path] < Warps[path]

PassCount ==
    /\ pc = "transfer" => pass = Passes
    /\ pc # "transfer" => pass < Passes
    /\ pc = "flush" => pass = 0

PassTaken == pc \in {"transfer", "flush"} => avail + C <= R

BufferRoom ==
    /\ pc = "transfer" => inBuffer < Escalate
    /\ pc \in {"top", "fill", "compress"} => inBuffer < Escalate \/ stop
    /\ pc = "flush" => held

AvailDivisible == Divides(Gcd(worksize, C), avail)

RingInv ==
    /\ RingTypeOK
    /\ NoncesMatchWarps
    /\ Offsets
    /\ PassCount
    /\ PassTaken
    /\ BufferRoom
    /\ AvailDivisible

LEMMA InitInv == Init => RingInv
<1> SUFFICES ASSUME Init PROVE RingInv
  OBVIOUS
<1> DEFINE full  == {p \in Paths : resumes[p] >= Warps[p]}
           done  == [p \in Paths |-> IF p \in full THEN 1 ELSE 0]
           files == [p \in Paths |-> IF p \in full /\ 1 < Plots[p] THEN 2 ELSE 1]
           start == [p \in Paths |-> IF p \in full THEN 0 ELSE resumes[p]]
<1>0. /\ pc = "top" /\ head = 0 /\ avail = 0 /\ pass = 0 /\ held = FALSE
      /\ inBuffer = 0 /\ pool = NumBuffers /\ out = [p \in Paths |-> 0]
      /\ dead = {} /\ stop = FALSE /\ faults = 0 /\ bufPath = path
      /\ async \in BOOLEAN
  BY DEF Init
<1>1. /\ worksize \in WorkSizes /\ worksize \in Nat \ {0}
      /\ R \in Nat \ {0} /\ R >= C
      /\ C \in Nat \ {0} /\ Passes \in Nat \ {0} /\ Escalate \in Nat \ {0}
      /\ Warps \in [Paths -> Nat \ {0}] /\ Plots \in [Paths -> Nat \ {0}]
      /\ NumBuffers \in Nat \ {0} /\ MaxFaults \in Nat
      /\ Gcd(worksize, C) \in Nat \ {0}
  <2>1. worksize \in WorkSizes
    BY DEF Init
  <2> QED
    BY <2>1, RingAssumption, RingFacts
<1>2. /\ filesDone = done /\ fileNo = files /\ warpOffset = start
      /\ nonces = [p \in Paths |-> start[p] * Passes * C]
      /\ path = FirstActive(done) /\ bufStart = start[path]
      /\ gpuSeed = StartSeed(full, done, files)
  BY DEF Init
<1>3. path \in Paths /\ 0 \in Paths
  BY <1>2, FirstActiveIsPath, RingAssumption DEF Paths
<1>4. resumes \in [Paths -> Nat] /\ \A p \in Paths : resumes[p] <= Warps[p]
  BY <1>1 DEF Init
<1>5. \A p \in Paths : start[p] \in Nat /\ start[p] < Warps[p]
  BY <1>1, <1>4
<1>6. gpuSeed \in Paths \X Nat
  BY <1>2, <1>3 DEF StartSeed
<1> HIDE DEF start, files, done, full
<1>7. \A p \in Paths : /\ warpOffset[p] \in Nat
                        /\ warpOffset[p] < Warps[p]
                        /\ nonces[p] = warpOffset[p] * Passes * C
  BY <1>2, <1>5
<1>8. \A p \in Paths : /\ nonces[p] \in Nat
                        /\ nonces[p] <= NoncesForFile(p)
                        /\ nonces[p] = (warpOffset[p] * Passes + 0) * C
                        /\ NoncesForFile(p) \in Nat
  <2> TAKE p \in Paths
  <2>1. 0 < Passes /\ 0 \in Nat
    BY <1>1
  <2>2. /\ (warpOffset[p] * Passes + 0) * C \in Nat
        /\ nonces[p] = (warpOffset[p] * Passes + 0) * C
        /\ NoncesForFile(p) \in Nat
        /\ (warpOffset[p] * Passes + 0) * C + C <= NoncesForFile(p)
    BY <1>7, <2>1, PassFits
  <2> QED
    BY <2>2, <1>1
<1>9. RingTypeOK
  <2>1. /\ warpOffset \in [Paths -> Nat]
        /\ nonces \in [Paths -> Nat]
        /\ filesDone \in [Paths -> Nat]
        /\ fileNo \in [Paths -> Nat]
        /\ bufStart \in Nat
    BY <1>2, <1>3, <1>5, <1>7, <1>8 DEF start, done, files
  <2>2. Garbage \in Nonce /\ Junk \in Nonce
    BY <1>3 DEF Garbage, Junk, Nonce
  <2>3. /\ ring \in [0 .. R - 1 -> Nonce]
        /\ compressed \in SUBSET Nonce
        /\ slots \in [0 .. Escalate - 1 -> SUBSET Nonce]
    BY <2>2 DEF Init, StaleSlots
  <2>4. dma \in [state : {"none", "flying", "landed"}, slot : 0 .. Escalate - 1,
                 source : SUBSET Nonce]
    BY <1>1 DEF Init, Idle
  <2>5. /\ \A p \in Paths : warpOffset[p] <= Warps[p]
        /\ \A p \in Paths : nonces[p] <= NoncesForFile(p)
    BY <1>1, <1>7, <1>8
  <2>6. /\ head \in 0 .. R - 1 /\ avail \in 0 .. R /\ pass \in 0 .. Passes
        /\ inBuffer \in 0 .. Escalate /\ pool \in Nat /\ faults \in 0 .. MaxFaults
        /\ out \in [Paths -> Nat] /\ dead \subseteq Paths /\ bufPath \in Paths
    BY <1>0, <1>1, <1>3
  <2> QED
    BY <1>0, <1>1, <1>3, <1>6, <2>1, <2>3, <2>4, <2>5, <2>6 DEF RingTypeOK
<1>10. NoncesMatchWarps
  <2>1. nonces[path] = Least(NoncesForFile(path),
                             (warpOffset[path] * Passes + pass) * C + avail)
    BY <1>0, <1>3, <1>8 DEF Least
  <2> QED
    BY <1>7, <2>1 DEF NoncesMatchWarps
<1>11. Offsets /\ PassCount /\ PassTaken /\ BufferRoom
  BY <1>0, <1>1, <1>3, <1>7 DEF Offsets, PassCount, PassTaken, BufferRoom
<1>12. AvailDivisible
  BY <1>0, <1>1 DEF AvailDivisible, Divides
<1> QED
  BY <1>9, <1>10, <1>11, <1>12 DEF RingInv

-----------------------------------------------------------------------------
(* Every step preserves the invariant. *)

\* What the invariant says of the constants and of the path in service.
LEMMA InvFacts ==
  ASSUME RingInv
  PROVE  /\ worksize \in Nat \ {0} /\ worksize \in WorkSizes
         /\ C \in Nat \ {0} /\ Passes \in Nat \ {0} /\ Escalate \in Nat \ {0}
         /\ R \in Nat \ {0} /\ R >= C /\ R < worksize + C
         /\ Gcd(worksize, C) \in Nat \ {0}
         /\ path \in Paths /\ avail \in Nat /\ pass \in Nat
         /\ warpOffset \in [Paths -> Nat]
         /\ nonces \in [Paths -> Nat]
         /\ Warps \in [Paths -> Nat \ {0}] /\ Plots \in [Paths -> Nat \ {0}]
         /\ \A p \in Paths : NoncesForFile(p) \in Nat
         /\ nonces[path] = Least(NoncesForFile(path), Consumed(path) + avail)
<1>1. worksize \in WorkSizes
  BY DEF RingInv, RingTypeOK
<1>2. \A p \in Paths : NoncesForFile(p) \in Nat
  <2> TAKE p \in Paths
  <2>1. Warps[p] \in Nat /\ Passes \in Nat /\ C \in Nat
    BY RingAssumption
  <2>2. Warps[p] * Passes \in Nat
    BY <2>1
  <2> HIDE DEF NoncesForFile
  <2> QED
    BY <2>1, <2>2 DEF NoncesForFile
<1>3. nonces[path] = Least(NoncesForFile(path), Consumed(path) + avail)
  BY DEF RingInv, RingTypeOK, NoncesMatchWarps, Consumed
<1>4. /\ path \in Paths /\ avail \in Nat /\ pass \in Nat
      /\ warpOffset \in [Paths -> Nat] /\ nonces \in [Paths -> Nat]
  <2>1. R \in Nat /\ Passes \in Nat
    BY <1>1, RingFacts, RingAssumption
  <2>2. /\ path \in Paths /\ avail \in 0 .. R /\ pass \in 0 .. Passes
        /\ warpOffset \in [Paths -> Nat] /\ nonces \in [Paths -> Nat]
    BY DEF RingInv, RingTypeOK
  <2> QED
    BY <2>1, <2>2
<1>5. R < worksize + C
  BY <1>1, RingFacts, RingAssumption
<1> QED
  BY <1>1, <1>2, <1>3, <1>4, <1>5, RingFacts, RingAssumption

\* The scheduler goes from one phase to another and changes nothing else.
LEMMA TopInv == RingInv /\ Top => RingInv'
<1> SUFFICES ASSUME RingInv, Top PROVE RingInv'
  OBVIOUS
<1>1. UNCHANGED <<confVars, pathVars, warpOffset, nonces, head, avail, pass,
                  bufVars, slots, gpuSeed, ring, compressed, dma, pool, stop,
                  writerVars>>
  BY DEF Top
<1>2. /\ pc = "top"
      /\ pc' = IF AllDone \/ stop THEN "rest" ELSE "fill"
  BY DEF Top
<1>3. R' = R /\ Gcd(worksize, C)' = Gcd(worksize, C)
  BY <1>1 DEF R, confVars
<1>4. RingTypeOK'
  BY <1>1, <1>2, <1>3 DEF RingInv, RingTypeOK, confVars, pathVars, bufVars, writerVars
<1>5. NoncesMatchWarps'
  BY <1>1, <1>3 DEF RingInv, NoncesMatchWarps, confVars, pathVars
<1>6. Offsets' /\ PassCount' /\ PassTaken'
  BY <1>1, <1>2, <1>3 DEF RingInv, Offsets, PassCount, PassTaken, confVars, pathVars
<1>7. BufferRoom' /\ AvailDivisible'
  BY <1>1, <1>2, <1>3 DEF RingInv, BufferRoom, AvailDivisible, confVars, bufVars
<1> QED
  BY <1>4, <1>5, <1>6, <1>7 DEF RingInv

\* A batch of hashes: the count of nonces grows by what the ring gains, up to
\* the end of the file.
LEMMA FillInv == RingInv /\ Fill => RingInv'
<1> SUFFICES ASSUME RingInv, Fill PROVE RingInv'
  OBVIOUS
<1>1. /\ UNCHANGED <<confVars, pathVars, warpOffset, pass, bufVars, slots,
                     gpuSeed, compressed, dma, pool, stop, writerVars>>
      /\ pc = "fill"
  BY DEF Fill
<1>2. R' = R /\ Gcd(worksize, C)' = Gcd(worksize, C)
  BY <1>1 DEF R, confVars
<1>3. CASE CanHash /\ ~stop
  <2>1. /\ ring' = [i \in 0 .. R - 1 |->
                 LET k == (i + R - head) % R
                 IN  IF k < Batch
                     THEN <<gpuSeed[1], gpuSeed[2], nonces[path] + k>>
                     ELSE ring[i]]
        /\ head' = (head + worksize) % R
        /\ avail' = avail + worksize
        /\ nonces' = [nonces EXCEPT ![path] = @ + Batch]
        /\ pc' = pc
    BY <1>3 DEF Fill
  <2>2. /\ nonces[path] < NoncesForFile(path)
        /\ avail + worksize <= R
    BY <1>3 DEF CanHash
  <2>3. /\ Consumed(path) \in Nat
        /\ pass < Passes
    BY <1>1, InvFacts, PassFits DEF RingInv, Offsets, PassCount, Consumed
  <2>4. /\ Batch \in Nat
        /\ nonces[path] + Batch
             = Least(NoncesForFile(path), Consumed(path) + (avail + worksize))
    BY <2>2, <2>3, InvFacts DEF Batch, Least
  <2>5. nonces' \in [Paths -> Nat] /\ \A p \in Paths : nonces'[p] <= NoncesForFile(p)
    <3>1. nonces[path] + Batch <= NoncesForFile(path)
      BY <2>2, InvFacts DEF Batch
    <3>2. \A p \in Paths : nonces[p] <= NoncesForFile(p)
      BY DEF RingInv, RingTypeOK
    <3>3. nonces \in [Paths -> Nat] /\ path \in Paths
      BY InvFacts
    <3> QED
      BY <2>1, <2>4, <3>1, <3>2, <3>3
  <2>6. head' \in 0 .. R - 1 /\ avail' \in 0 .. R
    <3>1. head \in 0 .. R - 1
      BY DEF RingInv, RingTypeOK
    <3>2. R \in Nat \ {0} /\ worksize \in Nat /\ avail \in Nat
      BY InvFacts
    <3>3. (head + worksize) % R \in 0 .. R - 1
      BY <3>1, <3>2
    <3> QED
      BY <2>1, <2>2, <3>2, <3>3
  <2>7. ring' \in [0 .. R - 1 -> Nonce]
    <3>1. \A i \in 0 .. R - 1 : (i + R - head) % R \in Int
      <4>1. R \in Nat \ {0}
        BY InvFacts
      <4>2. head \in 0 .. R - 1
        BY DEF RingInv, RingTypeOK
      <4> QED
        BY <4>1, <4>2
    <3>2. gpuSeed[1] \in Paths /\ gpuSeed[2] \in Nat
      BY DEF RingInv, RingTypeOK
    <3>3. \A i \in 0 .. R - 1 : ring[i] \in Nonce
      BY DEF RingInv, RingTypeOK
    <3>4. nonces[path] \in Nat
      BY InvFacts
    <3>5. \A k \in Int : <<gpuSeed[1], gpuSeed[2], nonces[path] + k>> \in Nonce
      BY <3>2, <3>4 DEF Nonce
    <3> QED
      BY <2>1, <3>1, <3>3, <3>5
  <2>8. RingTypeOK'
    BY <1>1, <1>2, <2>1, <2>5, <2>6, <2>7
       DEF RingInv, RingTypeOK, confVars, pathVars, bufVars, writerVars
  <2>9. NoncesMatchWarps'
    <3>1. nonces'[path]
            = Least(NoncesForFile(path),
                    (warpOffset[path] * Passes + pass) * C + avail')
      BY <2>1, <2>4, InvFacts DEF Consumed
    <3>2. \A p \in Paths : p # path => nonces'[p] = nonces[p]
      BY <2>1, InvFacts
    <3> QED
      BY <1>1, <3>1, <3>2 DEF RingInv, NoncesMatchWarps, pathVars
  <2>10. AvailDivisible'
    <3>1. (avail + worksize) % Gcd(worksize, C) = 0
      BY InvFacts, RingFacts, MultipleSum DEF RingInv, AvailDivisible, Divides
    <3> QED
      BY <1>2, <2>1, <3>1 DEF AvailDivisible, Divides
  <2>11. Offsets' /\ PassCount' /\ PassTaken' /\ BufferRoom'
    BY <1>1, <2>1 DEF RingInv, Offsets, PassCount, PassTaken, BufferRoom,
                      confVars, pathVars, bufVars
  <2> QED
    BY <2>8, <2>9, <2>10, <2>11 DEF RingInv
<1>4. CASE ~(CanHash /\ ~stop)
  <2>1. pc' = "compress" /\ UNCHANGED <<ring, head, avail, nonces>>
    BY <1>4 DEF Fill
  <2>2. RingTypeOK'
    BY <1>1, <1>2, <2>1
       DEF RingInv, RingTypeOK, confVars, pathVars, bufVars, writerVars
  <2>3. NoncesMatchWarps'
    BY <1>1, <1>2, <2>1 DEF RingInv, NoncesMatchWarps, confVars, pathVars
  <2>4. Offsets' /\ PassCount' /\ PassTaken' /\ BufferRoom' /\ AvailDivisible'
    BY <1>1, <1>2, <2>1 DEF RingInv, Offsets, PassCount, PassTaken, BufferRoom,
                            AvailDivisible, confVars, pathVars, bufVars
  <2> QED
    BY <2>2, <2>3, <2>4 DEF RingInv
<1> QED
  BY <1>3, <1>4

\* The constants Garbage, Junk and Idle have the types of what they stand for.
LEMMA ConstantTypes ==
  /\ 0 \in Paths
  /\ Junk \in Nonce
  /\ StaleSlots \in [0 .. Escalate - 1 -> SUBSET Nonce]
  /\ Idle \in [state : {"none", "flying", "landed"}, slot : 0 .. Escalate - 1,
               source : SUBSET Nonce]
<1>1. 0 \in Paths /\ 0 \in 0 .. Escalate - 1
  BY RingAssumption DEF Paths
<1>2. Junk \in Nonce
  BY <1>1 DEF Junk, Nonce
<1> QED
  BY <1>1, <1>2 DEF StaleSlots, Idle

\* A pass takes from the ring what it adds to the nonces consumed.
LEMMA CompressInv == RingInv /\ Compress => RingInv'
<1> SUFFICES ASSUME RingInv, Compress PROVE RingInv'
  OBVIOUS
<1>1. /\ UNCHANGED <<confVars, pathVars, warpOffset, nonces, head, bufVars, slots,
                     gpuSeed, ring, pool, stop, writerVars>>
      /\ pc = "compress"
  BY DEF Compress
<1>2. R' = R /\ Gcd(worksize, C)' = Gcd(worksize, C)
  BY <1>1 DEF R, confVars
<1>3. CASE avail >= C /\ ~stop
  <2>1. /\ dma' = IF dma.state = "landed" THEN Idle ELSE dma
        /\ compressed' = IF pass > 0
                         THEN Xor(compressed, {PassOver(CompressStart)})
                         ELSE {PassOver(CompressStart)}
        /\ avail' = avail - C
        /\ pass' = pass + 1
        /\ pc' = IF pass + 1 = Passes THEN "transfer" ELSE "compress"
    BY <1>3 DEF Compress
  <2>2. /\ warpOffset[path] \in Nat /\ warpOffset[path] < Warps[path]
        /\ pass \in Nat /\ pass < Passes /\ path \in Paths
        /\ Passes \in Nat /\ C \in Nat \ {0} /\ avail \in Nat
    BY <1>1, InvFacts DEF RingInv, Offsets, PassCount
  <2>3. (warpOffset[path] * Passes + (pass + 1)) * C = Consumed(path) + C
    <3>1. (warpOffset[path] * Passes + pass + 1) * C
            = (warpOffset[path] * Passes + pass) * C + C
      BY <2>2, PassFits
    <3>2. warpOffset[path] * Passes + pass + 1 = warpOffset[path] * Passes + (pass + 1)
      BY <2>2
    <3> QED
      BY <3>1, <3>2 DEF Consumed
  <2>4. Consumed(path) \in Nat
    BY <2>2, PassFits DEF Consumed
  <2>5. avail' \in 0 .. R /\ pass' \in 0 .. Passes /\ avail' + C <= R
    <3>1. avail \in 0 .. R
      BY DEF RingInv, RingTypeOK
    <3> QED
      BY <1>3, <2>1, <2>2, <3>1, InvFacts
  <2>6. compressed' \in SUBSET Nonce
    <3>1. CompressStart \in 0 .. R - 1
      <4>1. R \in Nat \ {0} /\ avail \in Nat
        BY InvFacts
      <4>2. head \in 0 .. R - 1
        BY DEF RingInv, RingTypeOK
      <4>3. head + R - avail \in Int
        BY <4>1, <4>2
      <4> QED
        BY <4>1, <4>3 DEF CompressStart
    <3>2. ring[CompressStart] \in Nonce
      BY <3>1 DEF RingInv, RingTypeOK
    <3>3. PassOver(CompressStart) \in Nonce
      BY <3>2, ConstantTypes DEF PassOver
    <3>4. compressed \in SUBSET Nonce
      BY DEF RingInv, RingTypeOK
    <3> QED
      BY <2>1, <3>3, <3>4 DEF Xor
  <2>11. dma' \in [state : {"none", "flying", "landed"}, slot : 0 .. Escalate - 1,
                   source : SUBSET Nonce]
    BY <2>1, ConstantTypes DEF RingInv, RingTypeOK
  <2>7. RingTypeOK'
    BY <1>1, <1>2, <2>1, <2>5, <2>6, <2>11, ConstantTypes
       DEF RingInv, RingTypeOK, confVars, pathVars, bufVars, writerVars
  <2>8. NoncesMatchWarps'
    <3>1. Consumed(path) + avail = Consumed(path) + C + (avail - C)
      BY <2>2, <2>4
    <3>2. nonces[path] = Least(NoncesForFile(path),
                               (warpOffset[path] * Passes + pass') * C + avail')
      BY <2>1, <2>3, <3>1, InvFacts
    <3> QED
      BY <1>1, <3>2 DEF RingInv, NoncesMatchWarps, pathVars
  <2>9. Offsets' /\ PassCount' /\ PassTaken' /\ BufferRoom'
    BY <1>1, <1>2, <1>3, <2>1, <2>2, <2>5
       DEF RingInv, Offsets, PassCount, PassTaken, BufferRoom, pathVars, bufVars
  <2>10. AvailDivisible'
    <3>1. (avail - C) % Gcd(worksize, C) = 0
      BY <2>2, InvFacts, RingFacts, MultipleSum DEF RingInv, AvailDivisible, Divides
    <3> QED
      BY <1>2, <2>1, <3>1 DEF AvailDivisible, Divides
  <2> QED
    BY <2>7, <2>8, <2>9, <2>10 DEF RingInv
<1>4. CASE ~(avail >= C /\ ~stop)
  <2>1. pc' = "top" /\ UNCHANGED <<dma, compressed, avail, pass>>
    BY <1>4 DEF Compress
  <2>2. RingTypeOK'
    BY <1>1, <1>2, <2>1
       DEF RingInv, RingTypeOK, confVars, pathVars, bufVars, writerVars
  <2>3. NoncesMatchWarps'
    BY <1>1, <1>2, <2>1 DEF RingInv, NoncesMatchWarps, confVars, pathVars
  <2>4. Offsets' /\ PassCount' /\ PassTaken' /\ BufferRoom' /\ AvailDivisible'
    BY <1>1, <1>2, <2>1 DEF RingInv, Offsets, PassCount, PassTaken, BufferRoom,
                            AvailDivisible, confVars, pathVars, bufVars
  <2> QED
    BY <2>2, <2>3, <2>4 DEF RingInv
<1> QED
  BY <1>3, <1>4

\* The last pass of a warp completes it: the passes start again from nought and
\* the path's offset grows by one, which leaves the nonces consumed as they are.
LEMMA TransferInv == RingInv /\ Transfer => RingInv'
<1> SUFFICES ASSUME RingInv, Transfer PROVE RingInv'
  OBVIOUS
<1> DEFINE old == IF held THEN slots ELSE StaleSlots
<1>1. /\ pc = "transfer"
      /\ held' = TRUE
      /\ pool' = IF held THEN pool ELSE pool - 1
      /\ bufStart' = IF held THEN bufStart ELSE warpOffset[path]
      /\ bufPath' = IF held THEN bufPath ELSE path
      /\ pass' = 0
      /\ inBuffer' = inBuffer + 1
      /\ warpOffset' = [warpOffset EXCEPT ![path] = @ + 1]
      /\ pc' = IF inBuffer + 1 = Escalate \/ warpOffset[path] + 1 = Warps[path]
               THEN "flush" ELSE Continue(dma')
      /\ UNCHANGED <<confVars, pathVars, nonces, head, avail, gpuSeed, ring,
                     compressed, stop, writerVars>>
      /\ held \/ pool > 0
  BY DEF Transfer
<1>2. R' = R /\ Gcd(worksize, C)' = Gcd(worksize, C)
  BY <1>1 DEF R, confVars
<1>3. /\ warpOffset \in [Paths -> Nat] /\ path \in Paths
      /\ warpOffset[path] \in Nat /\ warpOffset[path] < Warps[path]
      /\ pass = Passes /\ inBuffer \in Nat /\ inBuffer < Escalate
      /\ Passes \in Nat \ {0} /\ C \in Nat \ {0} /\ Escalate \in Nat \ {0}
      /\ Warps \in [Paths -> Nat \ {0}]
  <2>1. warpOffset[path] < Warps[path] /\ pass = Passes /\ inBuffer < Escalate
    BY <1>1 DEF RingInv, Offsets, PassCount, BufferRoom
  <2>2. inBuffer \in 0 .. Escalate
    BY DEF RingInv, RingTypeOK
  <2> QED
    BY <2>1, <2>2, InvFacts
<1>4. pc' \in {"flush", "top", "compress"}
  BY <1>1 DEF Continue
<1>5. pc' # "flush" => /\ inBuffer + 1 < Escalate
                       /\ warpOffset[path] + 1 < Warps[path]
  BY <1>1, <1>3
<1>6. /\ warpOffset' \in [Paths -> Nat]
      /\ \A p \in Paths : warpOffset'[p] <= Warps[p]
      /\ \A p \in Paths : p # path => warpOffset'[p] = warpOffset[p]
      /\ warpOffset'[path] = warpOffset[path] + 1
  <2>1. \A p \in Paths : warpOffset[p] <= Warps[p]
    BY DEF RingInv, RingTypeOK
  <2>2. warpOffset[path] + 1 <= Warps[path]
    BY <1>3
  <2> QED
    BY <1>1, <1>3, <2>1, <2>2
<1>7. /\ slots' \in [0 .. Escalate - 1 -> SUBSET Nonce]
      /\ dma' \in [state : {"none", "flying", "landed"}, slot : 0 .. Escalate - 1,
                   source : SUBSET Nonce]
  <2>1. old \in [0 .. Escalate - 1 -> SUBSET Nonce]
    BY ConstantTypes DEF RingInv, RingTypeOK
  <2>2. compressed \in SUBSET Nonce /\ {Junk} \in SUBSET Nonce
    BY ConstantTypes DEF RingInv, RingTypeOK
  <2>3. inBuffer \in 0 .. Escalate - 1
    BY <1>3
  <2> HIDE DEF old
  <2>4. CASE async
    <3>1. /\ dma' = [state |-> "flying", slot |-> inBuffer, source |-> compressed]
          /\ slots' = [old EXCEPT ![inBuffer] = {Junk}]
      BY <2>4 DEF Transfer, old
    <3> QED
      BY <2>1, <2>2, <2>3, <3>1
  <2>5. CASE ~async
    <3>1. slots' = [old EXCEPT ![inBuffer] = compressed] /\ UNCHANGED dma
      BY <2>5 DEF Transfer, old
    <3>2. slots' \in [0 .. Escalate - 1 -> SUBSET Nonce]
      BY <2>1, <2>2, <2>3, <3>1
    <3> QED
      BY <3>1, <3>2 DEF RingInv, RingTypeOK
  <2> QED
    BY <2>4, <2>5
<1>8. RingTypeOK'
  <2>1. pool' \in Nat /\ bufStart' \in Nat /\ bufPath' \in Paths
    BY <1>1, <1>3 DEF RingInv, RingTypeOK
  <2>2. pass' \in 0 .. Passes /\ inBuffer' \in 0 .. Escalate /\ held' \in BOOLEAN
    BY <1>1, <1>3
  <2> QED
    BY <1>1, <1>2, <1>4, <1>6, <1>7, <2>1, <2>2
       DEF RingInv, RingTypeOK, confVars, pathVars, writerVars
<1>9. NoncesMatchWarps'
  <2>1. (warpOffset[path] + 1) * Passes + 0 = warpOffset[path] * Passes + Passes
    BY <1>3
  <2>2. (warpOffset'[path] * Passes + pass') * C = Consumed(path)
    BY <1>1, <1>3, <1>6, <2>1 DEF Consumed
  <2>3. nonces[path] = Least(NoncesForFile(path),
                             (warpOffset'[path] * Passes + pass') * C + avail)
    BY <2>2, InvFacts
  <2> QED
    BY <1>1, <1>6, <2>3 DEF RingInv, NoncesMatchWarps, pathVars
<1>10. Offsets' /\ PassCount' /\ PassTaken'
  BY <1>1, <1>2, <1>3, <1>4, <1>5, <1>6
     DEF RingInv, Offsets, PassCount, PassTaken, pathVars
<1>11. BufferRoom' /\ AvailDivisible'
  BY <1>1, <1>2, <1>4, <1>5 DEF RingInv, BufferRoom, AvailDivisible, Divides
<1> QED
  BY <1>8, <1>9, <1>10, <1>11 DEF RingInv

\* The files of the paths after one of them is finished, or none.
LEMMA NextSeedsType ==
  ASSUME RingInv, NEW done
  PROVE  NextSeeds(done) \in [Paths -> Nat]
<1>1. fileNo \in [Paths -> Nat]
  BY DEF RingInv, RingTypeOK
<1>2. path \in Paths
  BY InvFacts
<1>3. [fileNo EXCEPT ![path] = @ + 1] \in [Paths -> Nat]
  BY <1>1, <1>2
<1> QED
  BY <1>1, <1>3 DEF NextSeeds

\* What is left in the ring when the path changes in the middle of a file is
\* less than a pass, and the whole of it was counted: undoing it takes the count
\* back to the nonces consumed.
LEMMA UndoIsExact ==
  ASSUME SmallWork, RingInv, pc = "flush", warpOffset[path] # Warps[path]
  PROVE  Undo = warpOffset[path] * Passes * C
<1>1. /\ pass = 0 /\ avail + C <= R
      /\ worksize <= C
  BY InvFacts DEF SmallWork, RingInv, PassCount, PassTaken
<1>2. /\ avail \in Nat /\ C \in Nat \ {0} /\ Passes \in Nat \ {0} /\ R \in Nat
      /\ worksize \in Nat /\ R < worksize + C
      /\ path \in Paths
      /\ nonces[path] = Least(NoncesForFile(path), Consumed(path) + avail)
  BY InvFacts
<1>3. warpOffset[path] \in Nat /\ warpOffset[path] < Warps[path]
  <2>1. warpOffset[path] <= Warps[path]
    BY <1>2 DEF RingInv, RingTypeOK
  <2> QED
    BY <1>2, <2>1, InvFacts
<1>4. /\ Consumed(path) \in Nat
      /\ Consumed(path) = warpOffset[path] * Passes * C
      /\ Consumed(path) + C <= NoncesForFile(path)
      /\ NoncesForFile(path) \in Nat
  <2>1. 0 \in Nat /\ 0 < Passes
    BY <1>2
  <2> QED
    BY <1>1, <1>2, <1>3, <2>1, PassFits DEF Consumed
<1>5. avail < C
  BY <1>1, <1>2
<1>6. nonces[path] = Consumed(path) + avail
  BY <1>2, <1>4, <1>5 DEF Least
<1> QED
  BY <1>2, <1>4, <1>6 DEF Undo

\* The next path starts with an empty ring at its own next warp.
LEMMA FlushInv == SmallWork /\ RingInv /\ Flush => RingInv'
<1> SUFFICES ASSUME SmallWork, RingInv, Flush PROVE RingInv'
  OBVIOUS
<1> DEFINE boundary == warpOffset[path] = Warps[path]
           done     == IF boundary THEN [filesDone EXCEPT ![path] = @ + 1]
                                   ELSE filesDone
           allDone  == \A p \in Paths : done[p] >= Plots[p]
           leave    == NumPaths > 1 /\ allDone
           next     == IF NumPaths > 1 THEN NextActive(path, done) ELSE path
           discard  == ~leave /\ (next # path \/ boundary)
           files    == NextSeeds(done)
<1>1. /\ pc = "flush"
      /\ dma' = Idle
      /\ FlushBuffer(fileNo[path])
      /\ filesDone' = done
      /\ fileNo' = files
      /\ path' = next
      /\ pc' = IF leave \/ discard THEN "top" ELSE "compress"
      /\ UNCHANGED <<confVars, pass, bufPath, slots, ring, compressed, pool, dead,
                     faults>>
  BY DEF Flush
<1>2. discard => /\ avail' = 0
                 /\ head' = 0
                 /\ nonces' = [nonces EXCEPT ![path] = IF boundary THEN 0 ELSE Undo]
                 /\ warpOffset' = IF boundary THEN [warpOffset EXCEPT ![path] = 0]
                                              ELSE warpOffset
                 /\ gpuSeed' = <<next, files[next]>>
                 /\ bufStart' = warpOffset'[next]
  BY DEF Flush
<1>3. ~discard => /\ bufStart' = IF bufPath \in dead THEN bufStart
                                                    ELSE warpOffset[path]
                  /\ UNCHANGED <<avail, head, nonces, warpOffset, gpuSeed>>
  BY DEF Flush
<1>4. R' = R /\ Gcd(worksize, C)' = Gcd(worksize, C)
  BY <1>1 DEF R, confVars
<1>5. /\ path \in Paths /\ pass = 0 /\ held
      /\ warpOffset \in [Paths -> Nat] /\ nonces \in [Paths -> Nat]
      /\ Warps \in [Paths -> Nat \ {0}] /\ Plots \in [Paths -> Nat \ {0}]
      /\ Passes \in Nat \ {0} /\ C \in Nat \ {0} /\ Escalate \in Nat \ {0}
      /\ R \in Nat \ {0}
  BY <1>1, InvFacts DEF RingInv, PassCount, BufferRoom
<1>6. next \in Paths
  BY <1>5, NextActiveIsPath
<1>7. \A p \in Paths : p # path => warpOffset[p] < Warps[p]
  BY DEF RingInv, Offsets
<1>8. /\ inBuffer' = 0 \/ (stop' = TRUE /\ inBuffer' = inBuffer)
      /\ held' = FALSE
      /\ stop' \in BOOLEAN
      /\ out' \in [Paths -> Nat]
  <2>1. inBuffer' = 0 \/ (stop' = TRUE /\ inBuffer' = inBuffer)
    BY <1>1, <1>5 DEF FlushBuffer
  <2>2. held' = FALSE
    BY <1>1, <1>5 DEF FlushBuffer
  <2>3. stop' = stop \/ stop' = TRUE
    BY <1>1 DEF FlushBuffer
  <2>4. stop \in BOOLEAN /\ out \in [Paths -> Nat] /\ bufPath \in Paths
    BY DEF RingInv, RingTypeOK
  <2>5. out' = [out EXCEPT ![bufPath] = @ + 1] \/ out' = out
    BY <1>1 DEF FlushBuffer
  <2>6. stop' \in BOOLEAN
    BY <2>3, <2>4
  <2>7. [out EXCEPT ![bufPath] = @ + 1] \in [Paths -> Nat]
    BY <2>4
  <2>8. out' \in [Paths -> Nat]
    BY <2>4, <2>5, <2>7
  <2> QED
    BY <2>1, <2>2, <2>6, <2>8
<1>9. warpOffset' \in [Paths -> Nat] /\ \A p \in Paths : warpOffset'[p] <= Warps[p]
  <2>1. \A p \in Paths : warpOffset[p] <= Warps[p]
    BY DEF RingInv, RingTypeOK
  <2>2. warpOffset' = [warpOffset EXCEPT ![path] = 0] \/ warpOffset' = warpOffset
    BY <1>2, <1>3
  <2> QED
    BY <1>5, <2>1, <2>2
<1>10. ~leave => \A p \in Paths : warpOffset'[p] < Warps[p]
  <2> SUFFICES ASSUME ~leave, NEW p \in Paths PROVE warpOffset'[p] < Warps[p]
    OBVIOUS
  <2>1. CASE boundary
    <3>1. warpOffset' = [warpOffset EXCEPT ![path] = 0]
      BY <1>2, <2>1
    <3> QED
      BY <1>5, <1>7, <3>1
  <2>2. CASE ~boundary
    <3>1. warpOffset' = warpOffset
      BY <1>2, <1>3, <2>2
    <3> QED
      BY <1>5, <1>7, <1>9, <2>2, <3>1
  <2> QED
    BY <2>1, <2>2
<1>11. leave => path' = path /\ AllDone'
  <2> SUFFICES ASSUME leave PROVE path' = path /\ AllDone'
    OBVIOUS
  <2>1. NextActive(path, done) = path
    <3>1. done \in [Paths -> Nat]
      <4>1. filesDone \in [Paths -> Nat]
        BY DEF RingInv, RingTypeOK
      <4> QED
        BY <1>5, <4>1
    <3>2. \A p \in Paths : done[p] >= Plots[p]
      OBVIOUS
    <3>3. path \in Paths
      BY <1>5
    <3>4. \A p \in Paths : Plots[p] \in Nat
      BY <1>5
    <3> HIDE DEF done
    <3>5. ~(done[NextActive(path, done)] < Plots[NextActive(path, done)])
      BY <3>1, <3>2, <3>3, <3>4, NextActiveIsPath
    <3> QED
      BY <3>3, <3>5, NextActiveIsPath
  <2> QED
    BY <1>1, <2>1 DEF AllDone
<1>12. discard => \A p \in Paths : nonces'[p] = warpOffset'[p] * Passes * C
  <2> SUFFICES ASSUME discard, NEW p \in Paths
               PROVE  nonces'[p] = warpOffset'[p] * Passes * C
    OBVIOUS
  <2>1. \A q \in Paths : q # path => nonces[q] = warpOffset[q] * Passes * C
    BY DEF RingInv, NoncesMatchWarps
  <2>2. CASE p # path
    BY <1>2, <1>5, <2>1, <2>2
  <2>3. CASE p = path /\ boundary
    BY <1>2, <1>5, <2>3
  <2>4. CASE p = path /\ ~boundary
    BY <1>1, <1>2, <1>5, <2>4, UndoIsExact
  <2> QED
    BY <2>2, <2>3, <2>4
<1>13. discard => /\ nonces' \in [Paths -> Nat]
                  /\ \A p \in Paths : /\ nonces'[p] <= NoncesForFile(p)
                                      /\ nonces'[p] = (warpOffset'[p] * Passes + 0) * C
                                      /\ nonces'[p] \in Nat
                                      /\ NoncesForFile(p) \in Nat
  <2> SUFFICES ASSUME discard
               PROVE  /\ nonces' \in [Paths -> Nat]
                      /\ \A p \in Paths :
                            /\ nonces'[p] <= NoncesForFile(p)
                            /\ nonces'[p] = (warpOffset'[p] * Passes + 0) * C
                            /\ nonces'[p] \in Nat
                            /\ NoncesForFile(p) \in Nat
    OBVIOUS
  <2>1. ASSUME NEW p \in Paths
        PROVE  /\ nonces'[p] <= NoncesForFile(p)
               /\ nonces'[p] = (warpOffset'[p] * Passes + 0) * C
               /\ nonces'[p] \in Nat
               /\ NoncesForFile(p) \in Nat
    <3>1. warpOffset'[p] \in Nat /\ warpOffset'[p] < Warps[p]
      BY <1>9, <1>10
    <3>2. 0 \in Nat /\ 0 < Passes
      BY <1>5
    <3>3. /\ (warpOffset'[p] * Passes + 0) * C \in Nat
          /\ warpOffset'[p] * Passes * C = (warpOffset'[p] * Passes + 0) * C
          /\ NoncesForFile(p) \in Nat
          /\ (warpOffset'[p] * Passes + 0) * C + C <= NoncesForFile(p)
      BY <3>1, <3>2, PassFits
    <3> QED
      BY <1>5, <1>12, <3>3
  <2>2. DOMAIN nonces' = Paths /\ nonces' = [q \in Paths |-> nonces'[q]]
    BY <1>2, <1>5
  <2> QED
    BY <2>1, <2>2
<1>14. RingTypeOK'
  <2>1. /\ filesDone' \in [Paths -> Nat] /\ fileNo' \in [Paths -> Nat]
        /\ path' \in Paths
    <3>1. filesDone \in [Paths -> Nat]
      BY DEF RingInv, RingTypeOK
    <3> QED
      BY <1>1, <1>5, <1>6, <3>1, NextSeedsType
  <2>2. nonces' \in [Paths -> Nat] /\ \A p \in Paths : nonces'[p] <= NoncesForFile(p)
    <3>1. CASE discard
      BY <1>13, <3>1
    <3>2. CASE ~discard
      BY <1>3, <3>2 DEF RingInv, RingTypeOK
    <3> QED
      BY <3>1, <3>2
  <2>3. /\ head' \in 0 .. R - 1 /\ avail' \in 0 .. R
        /\ bufStart' \in Nat /\ gpuSeed' \in Paths \X Nat
    <3>1. CASE discard
      <4>1. files[next] \in Nat
        BY <1>6, NextSeedsType
      <4>2. warpOffset'[next] \in Nat
        BY <1>6, <1>9
      <4> QED
        BY <1>2, <1>5, <1>6, <3>1, <4>1, <4>2
    <3>2. CASE ~discard
      <4>1. /\ head \in 0 .. R - 1 /\ avail \in 0 .. R
            /\ bufStart \in Nat /\ gpuSeed \in Paths \X Nat
        BY DEF RingInv, RingTypeOK
      <4>2. warpOffset[path] \in Nat
        BY <1>5
      <4> QED
        BY <1>3, <3>2, <4>1, <4>2
    <3> QED
      BY <3>1, <3>2
  <2>4. inBuffer' \in 0 .. Escalate
    <3>1. inBuffer \in 0 .. Escalate
      BY DEF RingInv, RingTypeOK
    <3> QED
      BY <1>5, <1>8, <3>1
  <2>5. pc' \in {"top", "compress"}
    BY <1>1
  <2> HIDE DEF boundary, done, allDone, leave, next, discard, files
  <2> QED
    BY <1>1, <1>4, <1>8, <1>9, <2>1, <2>2, <2>3, <2>4, <2>5, ConstantTypes
       DEF RingInv, RingTypeOK, confVars
<1>15. NoncesMatchWarps'
  <2>1. CASE discard
    <3>1. pass' = 0 /\ avail' = 0 /\ path' \in Paths
      BY <1>1, <1>2, <1>5, <1>6, <2>1
    <3>2. nonces'[path'] = Least(NoncesForFile(path'),
                                 (warpOffset'[path'] * Passes + pass') * C + avail')
      BY <1>13, <2>1, <3>1 DEF Least
    <3> QED
      BY <1>12, <2>1, <3>2 DEF NoncesMatchWarps
  <2>2. CASE ~discard
    <3>1. path' = path
      BY <1>1, <1>11, <2>2
    <3> QED
      BY <1>1, <1>3, <2>2, <3>1 DEF RingInv, NoncesMatchWarps
  <2> QED
    BY <2>1, <2>2
<1>16. Offsets'
  <2>1. \A p \in Paths : p # path' => warpOffset'[p] < Warps[p]
    <3>1. CASE leave
      BY <1>3, <1>7, <1>11, <3>1
    <3>2. CASE ~leave
      BY <1>10, <3>2
    <3> QED
      BY <3>1, <3>2
  <2>2. pc' = "compress" => warpOffset'[path'] < Warps[path']
    BY <1>1, <1>6, <1>10
  <2>3. pc' = "top" => AllDone' \/ warpOffset'[path'] < Warps[path']
    BY <1>1, <1>6, <1>10, <1>11
  <2>4. pc' \in {"top", "compress"}
    BY <1>1
  <2> QED
    BY <2>1, <2>2, <2>3, <2>4 DEF Offsets
<1>17. PassCount' /\ PassTaken' /\ BufferRoom'
  <2>1. pc' \in {"top", "compress"} /\ pass' = 0
    BY <1>1, <1>5
  <2> QED
    BY <1>5, <1>8, <2>1 DEF PassCount, PassTaken, BufferRoom
<1>18. AvailDivisible'
  <2>1. avail' = 0 \/ avail' = avail
    BY <1>2, <1>3
  <2>2. 0 % Gcd(worksize, C) = 0
    BY InvFacts
  <2> QED
    BY <1>4, <2>1, <2>2 DEF RingInv, AvailDivisible, Divides
<1> QED
  BY <1>14, <1>15, <1>16, <1>17, <1>18 DEF RingInv

\* Cleaning up touches the write buffer only.
LEMMA RestInv == RingInv /\ Rest => RingInv'
<1> SUFFICES ASSUME RingInv, Rest PROVE RingInv'
  OBVIOUS
<1>1. /\ dma' = Idle
      /\ pc' = "done"
      /\ pc = "rest"
      /\ UNCHANGED <<confVars, pathVars, warpOffset, nonces, head, avail, pass,
                     bufPath, slots, gpuSeed, ring, compressed, pool, dead,
                     faults>>
  BY DEF Rest
<1>2. R' = R /\ Gcd(worksize, C)' = Gcd(worksize, C)
  BY <1>1 DEF R, confVars
<1>3. /\ inBuffer' = 0 \/ inBuffer' = inBuffer
      /\ held' = FALSE \/ held' = held
      /\ stop' = TRUE \/ stop' = stop
      /\ out' = [out EXCEPT ![bufPath] = @ + 1] \/ out' = out
      /\ bufStart' = warpOffset[bufPath] \/ bufStart' = bufStart
  BY DEF Rest, FlushBuffer
<1>4. /\ inBuffer \in 0 .. Escalate /\ held \in BOOLEAN /\ stop \in BOOLEAN
      /\ out \in [Paths -> Nat] /\ bufPath \in Paths /\ bufStart \in Nat
      /\ warpOffset \in [Paths -> Nat]
  BY DEF RingInv, RingTypeOK
<1>5. inBuffer' \in 0 .. Escalate
  BY <1>3, <1>4, RingAssumption
<1>6. held' \in BOOLEAN /\ stop' \in BOOLEAN
  BY <1>3, <1>4
<1>7. out' \in [Paths -> Nat] /\ bufStart' \in Nat
  <2>1. [out EXCEPT ![bufPath] = @ + 1] \in [Paths -> Nat]
    BY <1>4
  <2> QED
    BY <1>3, <1>4, <2>1
<1>8. RingTypeOK'
  BY <1>1, <1>2, <1>5, <1>6, <1>7, ConstantTypes
     DEF RingInv, RingTypeOK, confVars, pathVars
<1>9. NoncesMatchWarps'
  BY <1>1 DEF RingInv, NoncesMatchWarps, pathVars
<1>10. Offsets' /\ PassCount' /\ PassTaken' /\ BufferRoom' /\ AvailDivisible'
  BY <1>1, <1>2 DEF RingInv, Offsets, PassCount, PassTaken, BufferRoom,
                    AvailDivisible, pathVars
<1> QED
  BY <1>8, <1>9, <1>10 DEF RingInv

\* What the scheduler's counters depend on.
coreVars == <<confVars, pc, pathVars, warpOffset, nonces, head, avail, pass,
              bufVars, gpuSeed, ring, compressed>>

\* The GPU's DMA engine, the writers and the user leave the counters alone.
LEMMA EnvironmentInv ==
  ASSUME RingInv, UNCHANGED coreVars,
         dma' \in [state : {"none", "flying", "landed"}, slot : 0 .. Escalate - 1,
                   source : SUBSET Nonce],
         slots' \in [0 .. Escalate - 1 -> SUBSET Nonce],
         pool' \in Nat, out' \in [Paths -> Nat], dead' \subseteq Paths,
         faults' \in 0 .. MaxFaults,
         stop' = TRUE \/ stop' = stop
  PROVE  RingInv'
<1>1. R' = R /\ Gcd(worksize, C)' = Gcd(worksize, C)
  BY DEF R, coreVars, confVars
<1>2. stop' \in BOOLEAN
  BY DEF RingInv, RingTypeOK
<1>3. RingTypeOK'
  BY <1>1, <1>2 DEF RingInv, RingTypeOK, coreVars, confVars, pathVars, bufVars
<1>4. NoncesMatchWarps'
  BY <1>1 DEF RingInv, NoncesMatchWarps, coreVars, confVars, pathVars
<1>5. Offsets' /\ PassCount' /\ PassTaken'
  BY <1>1 DEF RingInv, Offsets, AllDone, PassCount, PassTaken, coreVars, confVars,
              pathVars
<1>6. BufferRoom' /\ AvailDivisible'
  BY <1>1 DEF RingInv, BufferRoom, AvailDivisible, coreVars, confVars, bufVars
<1> QED
  BY <1>3, <1>4, <1>5, <1>6 DEF RingInv

LEMMA LandInv == RingInv /\ Land => RingInv'
<1> SUFFICES ASSUME RingInv, Land PROVE RingInv'
  OBVIOUS
<1>1. /\ dma' = [dma EXCEPT !.state = "landed"]
      /\ slots' = [slots EXCEPT ![dma.slot] = compressed]
      /\ UNCHANGED <<coreVars, pool, stop, out, dead, faults>>
  BY DEF Land, coreVars, writerVars
<1>2. /\ dma \in [state : {"none", "flying", "landed"}, slot : 0 .. Escalate - 1,
                  source : SUBSET Nonce]
      /\ slots \in [0 .. Escalate - 1 -> SUBSET Nonce]
      /\ compressed \in SUBSET Nonce
      /\ pool \in Nat /\ out \in [Paths -> Nat] /\ dead \subseteq Paths
      /\ faults \in 0 .. MaxFaults
  BY DEF RingInv, RingTypeOK
<1>3. dma' \in [state : {"none", "flying", "landed"}, slot : 0 .. Escalate - 1,
                source : SUBSET Nonce]
  BY <1>1, <1>2
<1>4. slots' \in [0 .. Escalate - 1 -> SUBSET Nonce]
  BY <1>1, <1>2
<1> QED
  BY <1>1, <1>2, <1>3, <1>4, EnvironmentInv

LEMMA WriterReturnsInv ==
  ASSUME RingInv, NEW p \in Paths, WriterReturns(p)
  PROVE  RingInv'
<1>1. /\ out[p] > 0
      /\ out' = [out EXCEPT ![p] = @ - 1]
      /\ pool' = pool + 1
      /\ UNCHANGED <<coreVars, dma, slots, stop, dead, faults>>
  BY DEF WriterReturns, coreVars, writerVars
<1>2. /\ dma \in [state : {"none", "flying", "landed"}, slot : 0 .. Escalate - 1,
                  source : SUBSET Nonce]
      /\ slots \in [0 .. Escalate - 1 -> SUBSET Nonce]
      /\ pool \in Nat /\ out \in [Paths -> Nat] /\ dead \subseteq Paths
      /\ faults \in 0 .. MaxFaults
  BY DEF RingInv, RingTypeOK
<1>3. out' \in [Paths -> Nat] /\ pool' \in Nat
  BY <1>1, <1>2
<1> QED
  BY <1>1, <1>2, <1>3, EnvironmentInv

LEMMA WriterFailsInv ==
  ASSUME RingInv, NEW p \in Paths, WriterFails(p)
  PROVE  RingInv'
<1>1. /\ faults < MaxFaults
      /\ faults' = faults + 1
      /\ dead' = dead \cup {p}
      /\ out' = [out EXCEPT ![p] = 0]
      /\ stop' = TRUE
      /\ UNCHANGED <<coreVars, dma, slots, pool>>
  BY DEF WriterFails, coreVars
<1>2. /\ dma \in [state : {"none", "flying", "landed"}, slot : 0 .. Escalate - 1,
                  source : SUBSET Nonce]
      /\ slots \in [0 .. Escalate - 1 -> SUBSET Nonce]
      /\ pool \in Nat /\ out \in [Paths -> Nat] /\ dead \subseteq Paths
      /\ faults \in 0 .. MaxFaults
  BY DEF RingInv, RingTypeOK
<1>3. /\ out' \in [Paths -> Nat] /\ dead' \subseteq Paths
      /\ faults' \in 0 .. MaxFaults
  BY <1>1, <1>2, RingAssumption
<1> QED
  BY <1>1, <1>2, <1>3, EnvironmentInv

LEMMA RequestStopInv == RingInv /\ (RequestStop \/ UNCHANGED vars) => RingInv'
<1> SUFFICES ASSUME RingInv, RequestStop \/ UNCHANGED vars PROVE RingInv'
  OBVIOUS
<1>1. /\ UNCHANGED <<coreVars, dma, slots, pool, out, dead, faults>>
      /\ stop' = TRUE \/ stop' = stop
  BY DEF RequestStop, vars, coreVars, writerVars
<1>2. /\ dma \in [state : {"none", "flying", "landed"}, slot : 0 .. Escalate - 1,
                  source : SUBSET Nonce]
      /\ slots \in [0 .. Escalate - 1 -> SUBSET Nonce]
      /\ pool \in Nat /\ out \in [Paths -> Nat] /\ dead \subseteq Paths
      /\ faults \in 0 .. MaxFaults
  BY DEF RingInv, RingTypeOK
<1> QED
  BY <1>1, <1>2, EnvironmentInv

LEMMA NextInv == SmallWork /\ RingInv /\ [Next]_vars => RingInv'
<1> SUFFICES ASSUME SmallWork, RingInv, [Next]_vars PROVE RingInv'
  OBVIOUS
<1>1. CASE Top
  BY <1>1, TopInv
<1>2. CASE Fill
  BY <1>2, FillInv
<1>3. CASE Compress
  BY <1>3, CompressInv
<1>4. CASE Transfer
  BY <1>4, TransferInv
<1>5. CASE Flush
  BY <1>5, FlushInv
<1>6. CASE Rest
  BY <1>6, RestInv
<1>7. CASE Land
  BY <1>7, LandInv
<1>8. CASE \E p \in Paths : WriterReturns(p) \/ WriterFails(p)
  BY <1>8, WriterReturnsInv, WriterFailsInv
<1>9. CASE RequestStop \/ UNCHANGED vars
  BY <1>9, RequestStopInv
<1>10. CASE Finished
  BY <1>10, RequestStopInv DEF Finished
<1> QED
  BY <1>1, <1>2, <1>3, <1>4, <1>5, <1>6, <1>7, <1>8, <1>9, <1>10
     DEF Next, Scheduler

-----------------------------------------------------------------------------
(* What the data are: the strengthening of WarpsRight.                        *)

Active(p) == filesDone[p] < Plots[p]

\* The seeds are for the file after those done; later files have no warp yet.
FileOrder ==
    /\ DOMAIN written = Paths
    /\ \A p \in Paths :
        /\ DOMAIN written[p] = 1 .. Plots[p]
        /\ fileNo[p] \in 1 .. Plots[p]
        /\ filesDone[p] <= Plots[p]
        /\ Active(p) => fileNo[p] = filesDone[p] + 1
        /\ \A k \in 1 .. Plots[p] : k > fileNo[p] => DOMAIN written[p][k] = {}

\* The path in service has a file left to make, and its seed is on the GPU.
Serving ==
    /\ gpuSeed = <<path, fileNo[path]>>
    /\ pc \in {"fill", "compress", "transfer", "flush"} => Active(path)
    /\ pc = "top" => AllDone \/ Active(path)

\* Nonce n of the file in service.
NonceOf(n) == <<path, fileNo[path], n>>

\* The ring holds the nonces that follow the ones consumed, except for what pads
\* the last batch of a file;
RingHolds ==
    \A i \in 0 .. avail - 1 :
        Consumed(path) + i < NoncesForFile(path) =>
            ring[(head + R - avail + i) % R] = NonceOf(Consumed(path) + i)

\* the compressed buffer has the passes of the warp made so far;
PassesSoFar(n) == {NonceOf((warpOffset[path] * Passes + i) * C) : i \in 0 .. n - 1}

CompressedSoFar == pass > 0 => compressed = PassesSoFar(pass)

\* the write buffer held is for the warps of the path in service up to the next
\* one, and one that is lost to a failed writer ends the work;
BufferFollows ==
    /\ held => bufPath = path /\ inBuffer > 0 /\ bufStart + inBuffer = warpOffset[path]
    /\ ~held /\ (~stop \/ pc = "transfer") => inBuffer = 0
    /\ pc = "transfer" => dma.state = "none"

\* its slots hold these warps, one of them as soon as its transfer lands;
InFlight(j) == dma.state = "flying" /\ dma.slot = j

SlotsRight ==
    held => \A j \in 0 .. inBuffer - 1 :
        (IF InFlight(j) THEN compressed ELSE slots[j]) = Right(path, fileNo[path], bufStart + j)

\* and what the writers have of a file ends where the held buffer, or the next
\* warp, begins.
HandedUpTo(p, w) == DOMAIN written[p][fileNo[p]] = 0 .. w - 1

FilesContinue ==
    /\ held => HandedUpTo(path, bufStart)
    /\ ~held /\ Active(path) /\ (~stop \/ pc = "transfer") => HandedUpTo(path, warpOffset[path])
    /\ ~stop => \A p \in Paths \ {path} : Active(p) => HandedUpTo(p, warpOffset[p])

DataInv ==
    /\ FileOrder
    /\ Serving
    /\ RingHolds
    /\ CompressedSoFar
    /\ BufferFollows
    /\ SlotsRight
    /\ FilesContinue
    /\ TransferUndisturbed
    /\ WarpsRight

\* Position x of a ring of n slots, for a position at most two turns ahead.
At(x, n) == x % n

LEMMA TwoTurns ==
  ASSUME NEW n \in Nat \ {0}, NEW x \in Nat, x < 3 * n
  PROVE  At(x, n) = IF x < n THEN x ELSE IF x < 2 * n THEN x - n ELSE x - 2 * n
<1>1. CASE x < n
  BY <1>1 DEF At
<1>2. CASE ~(x < n) /\ x < 2 * n
  <2>1. x - n \in 0 .. n - 1 /\ x = (x - n) + n
    BY <1>2
  <2>2. x % n = (x - n) % n
    BY <2>1
  <2> QED
    BY <1>2, <2>1, <2>2 DEF At
<1>3. CASE ~(x < 2 * n)
  <2>1. x - 2 * n \in 0 .. n - 1 /\ x = (x - 2 * n) + 2 * n
    BY <1>3
  <2>2. x % n = (x - 2 * n) % n
    BY <2>1
  <2> QED
    BY <1>3, <2>1, <2>2 DEF At
<1> QED
  BY <1>1, <1>2, <1>3

\* Passes of one warp begin at nonces of their own.
LEMMA PassesApart ==
  ASSUME NEW w \in Nat, NEW i \in Nat, NEW j \in Nat, i < j
  PROVE  (w * Passes + i) * C # (w * Passes + j) * C
<1> DEFINE x == w * Passes + i
           y == w * Passes + j
<1>1. Passes \in Nat /\ C \in Nat \ {0}
  BY RingAssumption
<1>2. x \in Nat /\ y \in Nat /\ x < y
  BY <1>1
<1> HIDE DEF x, y
<1>3. x * C + C <= y * C
  BY <1>1, <1>2, RowBelow
<1>4. x * C \in Nat /\ y * C \in Nat
  BY <1>1, <1>2
<1>5. x * C # y * C
  BY <1>1, <1>3, <1>4
<1> QED
  BY <1>5 DEF x, y

\* The scheduler stays with a path only if it has a file left, or all are done.
LEMMA StaysOnlyIfLeft ==
  ASSUME NEW p \in Paths, NEW done \in [Paths -> Nat]
  PROVE  \/ done[NextActive(p, done)] < Plots[NextActive(p, done)]
         \/ NextActive(p, done) = p /\ \A q \in Paths : done[q] >= Plots[q]
<1> DEFINE later == {i \in 1 .. NumPaths :
                       done[(p + i) % NumPaths] < Plots[(p + i) % NumPaths]}
<1>0. NumPaths \in Nat \ {0} /\ p \in 0 .. NumPaths - 1 /\ Plots \in [Paths -> Nat \ {0}]
  BY RingAssumption DEF Paths
<1>1. CASE later = {}
  <2>1. ASSUME NEW q \in Paths PROVE done[q] >= Plots[q]
    <3> DEFINE i == IF q > p THEN q - p ELSE q + NumPaths - p
    <3>1. q \in 0 .. NumPaths - 1
      BY DEF Paths
    <3>2. i \in 1 .. NumPaths /\ (p + i = q \/ p + i = q + NumPaths) /\ p + i \in Nat
      BY <1>0, <3>1
    <3> HIDE DEF i
    <3>3. (p + i) % NumPaths = q
      <4>1. p + i < 3 * NumPaths
        BY <1>0, <3>1, <3>2
      <4>2. At(p + i, NumPaths) = q
        <5> DEFINE x == p + i
        <5>1. x \in Nat /\ x < 3 * NumPaths /\ (x = q \/ x = q + NumPaths)
          BY <3>2, <4>1
        <5> HIDE DEF x
        <5>2. At(x, NumPaths) = q
          BY <1>0, <3>1, <5>1, TwoTurns
        <5> QED
          BY <5>2 DEF x
      <4> QED
        BY <4>2 DEF At
    <3>4. ~(done[q] < Plots[q])
      BY <1>1, <3>2, <3>3
    <3> QED
      BY <1>0, <3>4
  <2> QED
    BY <1>1, <2>1 DEF NextActive
<1>2. CASE later # {}
  <2>1. later \in SUBSET Nat
    OBVIOUS
  <2>2. PICK i \in later : \A j \in later : i <= j
    BY <1>2, <2>1, LeastNat
  <2>3. (CHOOSE k \in later : \A j \in later : k <= j) \in later
    BY <2>2
  <2>4. PICK k \in later : NextActive(p, done) = (p + k) % NumPaths
    BY <1>2, <2>3 DEF NextActive
  <2> QED
    BY <2>4
<1> QED
  BY <1>1, <1>2

\* The path first in service has a file left, or all are done.
LEMMA FirstIsLeft ==
  ASSUME NEW done \in [Paths -> Nat]
  PROVE  \/ done[FirstActive(done)] < Plots[FirstActive(done)]
         \/ \A q \in Paths : done[q] >= Plots[q]
<1> DEFINE active == {p \in Paths : done[p] < Plots[p]}
<1>1. Plots \in [Paths -> Nat \ {0}]
  BY RingAssumption
<1>2. CASE active = {}
  BY <1>1, <1>2
<1>3. CASE done[0] < Plots[0]
  BY <1>3 DEF FirstActive
<1>4. CASE active # {} /\ ~(done[0] < Plots[0])
  <2>1. active \in SUBSET Nat
    BY DEF Paths
  <2>2. \E p \in active : \A q \in active : p <= q
    BY <1>4, <2>1, LeastNat
  <2>3. (CHOOSE p \in active : \A q \in active : p <= q) \in active
    BY <2>2
  <2> QED
    BY <1>4, <2>3 DEF FirstActive
<1> QED
  BY <1>2, <1>3, <1>4

LEMMA DataInit == Init => DataInv
<1> SUFFICES ASSUME Init PROVE DataInv
  OBVIOUS
<1> DEFINE full  == {p \in Paths : resumes[p] >= Warps[p]}
           done  == [p \in Paths |-> IF p \in full THEN 1 ELSE 0]
           files == [p \in Paths |-> IF p \in full /\ 1 < Plots[p] THEN 2 ELSE 1]
           start == [p \in Paths |-> IF p \in full THEN 0 ELSE resumes[p]]
<1>1. /\ filesDone = done /\ fileNo = files /\ warpOffset = start
      /\ path = FirstActive(done)
      /\ gpuSeed = StartSeed(full, done, files)
      /\ pc = "top" /\ avail = 0 /\ pass = 0 /\ held = FALSE /\ inBuffer = 0 /\ dma = Idle
      /\ written = [p \in Paths |-> [k \in 1 .. Plots[p] |->
                     [w \in 0 .. (IF k = 1 THEN resumes[p] ELSE 0) - 1 |-> Right(p, k, w)]]]
  BY DEF Init
<1>2. /\ Plots \in [Paths -> Nat \ {0}] /\ Warps \in [Paths -> Nat \ {0}]
      /\ resumes \in [Paths -> Nat] /\ 0 \in Paths
      /\ \A p \in Paths : resumes[p] \in Nat /\ resumes[p] <= Warps[p]
  <2>1. /\ resumes \in [Paths -> UNION {0 .. Warps[p] : p \in Paths}]
        /\ \A p \in Paths : resumes[p] <= Warps[p]
    BY DEF Init
  <2>2. UNION {0 .. Warps[p] : p \in Paths} \subseteq Nat
    BY RingAssumption
  <2> QED
    BY <2>1, <2>2, ConstantTypes, RingAssumption
<1>3. done \in [Paths -> Nat]
  OBVIOUS
<1>4. FileOrder
  <2>1. DOMAIN written = Paths
    BY <1>1
  <2>2. ASSUME NEW p \in Paths
        PROVE  /\ DOMAIN written[p] = 1 .. Plots[p]
               /\ fileNo[p] \in 1 .. Plots[p]
               /\ filesDone[p] <= Plots[p]
               /\ Active(p) => fileNo[p] = filesDone[p] + 1
    BY <1>1, <1>2 DEF Active
  <2>3. ASSUME NEW p \in Paths, NEW k \in 1 .. Plots[p], k > fileNo[p]
        PROVE  DOMAIN written[p][k] = {}
    <3>1. k # 1
      BY <1>2, <2>2, <2>3
    <3>2. DOMAIN written[p][k] = 0 .. 0 - 1
      BY <1>1, <3>1
    <3> QED
      BY <3>2
  <2> QED
    BY <2>1, <2>2, <2>3 DEF FileOrder
<1>5. Serving
  <2>1. gpuSeed = <<path, fileNo[path]>>
    <3>1. CASE (0 \in full /\ 1 < Plots[0]) \/ FirstActive(done) # 0
      BY <1>1, <3>1 DEF StartSeed
    <3>2. CASE ~((0 \in full /\ 1 < Plots[0]) \/ FirstActive(done) # 0)
      <4>1. gpuSeed = <<0, 1>> /\ path = 0
        BY <1>1, <3>2 DEF StartSeed
      <4>2. fileNo[0] = 1
        BY <1>1, <1>2, <3>2
      <4> QED
        BY <4>1, <4>2
    <3> QED
      BY <3>1, <3>2
  <2>2. AllDone \/ Active(path)
    <3> HIDE DEF done
    <3> QED
      BY <1>1, <1>3, FirstIsLeft DEF AllDone, Active
  <2> QED
    BY <1>1, <2>1, <2>2 DEF Serving
<1>6. FilesContinue
  <2>1. ASSUME NEW p \in Paths, Active(p) PROVE HandedUpTo(p, warpOffset[p])
    <3>1. CASE p \in full
      <4>1. fileNo[p] = 2 /\ warpOffset[p] = 0 /\ 2 \in 1 .. Plots[p]
        BY <1>1, <1>2, <2>1, <3>1 DEF Active
      <4> QED
        BY <1>1, <4>1 DEF HandedUpTo
    <3>2. CASE p \notin full
      <4>1. fileNo[p] = 1 /\ warpOffset[p] = resumes[p] /\ 1 \in 1 .. Plots[p]
        BY <1>1, <1>2, <3>2
      <4> QED
        BY <1>1, <4>1 DEF HandedUpTo
    <3> QED
      BY <3>1, <3>2
  <2>2. path \in Paths
    BY <1>1, FirstActiveIsPath
  <2> QED
    BY <1>1, <2>1, <2>2 DEF FilesContinue
<1>7. WarpsRight
  BY <1>1 DEF WarpsRight
<1>8. RingHolds /\ CompressedSoFar /\ BufferFollows /\ SlotsRight /\ TransferUndisturbed
  <2>1. dma.state = "none" /\ 0 .. avail - 1 = {}
    BY <1>1 DEF Idle
  <2> QED
    BY <1>1, <2>1 DEF RingHolds, CompressedSoFar, BufferFollows, SlotsRight, TransferUndisturbed
<1> QED
  BY <1>4, <1>5, <1>6, <1>7, <1>8 DEF DataInv

\* What a part of the invariant speaks of.
LEMMA SameFiles ==
  ASSUME UNCHANGED <<written, fileNo, filesDone>>
  PROVE  (FileOrder => FileOrder') /\ (WarpsRight => WarpsRight')
<1>1. \A p \in Paths : Active(p)' = Active(p)
  BY DEF Active
<1> QED
  BY <1>1 DEF FileOrder, WarpsRight

LEMMA SameRing ==
  ASSUME RingHolds, UNCHANGED <<worksize, path, fileNo, warpOffset, head, avail, pass, ring>>
  PROVE  RingHolds'
<1>1. R' = R /\ Consumed(path)' = Consumed(path)
  BY DEF R, Consumed
<1> QED
  BY <1>1 DEF RingHolds, NonceOf

LEMMA SameCompressed ==
  ASSUME CompressedSoFar, UNCHANGED <<path, fileNo, warpOffset, pass, compressed>>
  PROVE  CompressedSoFar'
<1>1. PassesSoFar(pass)' = PassesSoFar(pass)
  BY DEF PassesSoFar, NonceOf
<1> QED
  BY <1>1 DEF CompressedSoFar

LEMMA SameSlots ==
  ASSUME SlotsRight, UNCHANGED <<path, fileNo, held, inBuffer, bufStart, slots, dma, compressed>>
  PROVE  SlotsRight'
<1>1. \A j \in 0 .. inBuffer - 1 : InFlight(j)' = InFlight(j)
  BY DEF InFlight
<1> QED
  BY <1>1 DEF SlotsRight

LEMMA SameHanded ==
  ASSUME FilesContinue, UNCHANGED <<path, fileNo, filesDone, warpOffset, held, bufStart, written>>,
         stop' = stop \/ stop', pc' = "transfer" => pc = "transfer" \/ ~stop
  PROVE  FilesContinue'
<1>1. HandedUpTo(path, bufStart)' = HandedUpTo(path, bufStart)
  BY DEF HandedUpTo
<1>2. \A p \in Paths \cup {path} :
        /\ Active(p)' = Active(p)
        /\ HandedUpTo(p, warpOffset[p])' = HandedUpTo(p, warpOffset[p])
  BY DEF HandedUpTo, Active
<1> QED
  BY <1>1, <1>2 DEF FilesContinue

-----------------------------------------------------------------------------
(* Every step preserves it. *)

LEMMA TopData == RingInv /\ DataInv /\ Top => DataInv'
<1> SUFFICES ASSUME RingInv, DataInv, Top PROVE DataInv'
  OBVIOUS
<1>1. /\ UNCHANGED <<worksize, async, path, fileNo, filesDone, warpOffset, nonces, head, avail, pass,
                     held, inBuffer, bufStart, bufPath, slots, gpuSeed, ring, compressed, dma, pool,
                     stop, out, dead, faults, written>>
      /\ pc = "top" /\ pc' = IF AllDone \/ stop THEN "rest" ELSE "fill"
  BY DEF Top, confVars, pathVars, bufVars, writerVars
<1>2. FileOrder' /\ WarpsRight' /\ RingHolds' /\ CompressedSoFar' /\ SlotsRight' /\ FilesContinue'
  <2>1. stop' = stop \/ stop'
    BY <1>1
  <2>2. pc' = "transfer" => pc = "transfer" \/ ~stop
    BY <1>1
  <2>3. FileOrder' /\ WarpsRight'
    BY <1>1, SameFiles DEF DataInv
  <2>4. RingHolds'
    BY <1>1, SameRing DEF DataInv
  <2>5. CompressedSoFar' /\ SlotsRight'
    BY <1>1, SameCompressed, SameSlots DEF DataInv
  <2>6. FilesContinue'
    BY <1>1, <2>1, <2>2, SameHanded DEF DataInv
  <2> QED
    BY <2>3, <2>4, <2>5, <2>6
<1>3. Serving'
  <2>1. (AllDone \/ Active(path)) /\ gpuSeed = <<path, fileNo[path]>>
    BY <1>1 DEF DataInv, Serving
  <2>2. Active(path)' = Active(path)
    BY <1>1 DEF Active
  <2> QED
    BY <1>1, <2>1, <2>2 DEF Serving
<1>4. BufferFollows' /\ TransferUndisturbed'
  BY <1>1 DEF DataInv, BufferFollows, TransferUndisturbed
<1> QED
  BY <1>2, <1>3, <1>4 DEF DataInv

\* A batch of hashes goes behind what the ring holds, which it leaves as it is.
LEMMA FillData == RingInv /\ DataInv /\ Fill => DataInv'
<1> SUFFICES ASSUME RingInv, DataInv, Fill PROVE DataInv'
  OBVIOUS
<1>1. /\ UNCHANGED <<worksize, async, path, fileNo, filesDone, warpOffset, pass,
                     held, inBuffer, bufStart, bufPath, slots, gpuSeed, compressed, dma, pool,
                     stop, out, dead, faults, written>>
      /\ pc = "fill" /\ pc' \in {"fill", "compress"}
  BY DEF Fill, confVars, pathVars, bufVars, writerVars
<1>2. RingHolds'
  <2>1. CASE CanHash /\ ~stop
    <3>1. /\ ring' = [i \in 0 .. R - 1 |->
                   LET k == (i + R - head) % R
                   IN  IF k < Batch
                       THEN <<gpuSeed[1], gpuSeed[2], nonces[path] + k>>
                       ELSE ring[i]]
          /\ head' = (head + worksize) % R
          /\ avail' = avail + worksize
      BY <2>1 DEF Fill
    <3>2. /\ R \in Nat \ {0} /\ worksize \in Nat \ {0} /\ avail \in Nat
          /\ head \in 0 .. R - 1 /\ avail + worksize <= R
          /\ NoncesForFile(path) \in Nat /\ nonces[path] < NoncesForFile(path)
          /\ nonces[path] = Least(NoncesForFile(path), Consumed(path) + avail)
      <4>1. head \in 0 .. R - 1
        BY DEF RingInv, RingTypeOK
      <4> QED
        BY <2>1, <4>1, InvFacts DEF CanHash
    <3>3. Consumed(path) \in Nat
      <4>1. /\ warpOffset[path] \in Nat /\ pass \in Nat /\ path \in Paths
            /\ warpOffset[path] < Warps[path] /\ pass < Passes
        BY <1>1, InvFacts DEF RingInv, Offsets, PassCount
      <4> QED
        BY <4>1, PassFits DEF Consumed
    <3> DEFINE c == Consumed(path)
               n == NoncesForFile(path)
    <3>4. nonces[path] = c + avail
      BY <3>2, <3>3 DEF Least
    <3>5. gpuSeed[1] = path /\ gpuSeed[2] = fileNo[path]
      BY DEF DataInv, Serving
    <3>6. R' = R /\ Consumed(path)' = c
      BY <1>1 DEF R, Consumed
    <3>7. Batch \in Nat /\ Batch <= worksize /\ \A k \in 0 .. worksize - 1 : c + avail + k < n => k < Batch
      BY <3>2, <3>3, <3>4 DEF Batch
    <3>8. RingHolds
      BY DEF DataInv
    <3> HIDE DEF c, n
    <3> DEFINE m == avail + worksize
               slot(i) == (head' + R - m + i) % R
    <3>9. ASSUME NEW i \in 0 .. m - 1, c + i < n
          PROVE  ring'[slot(i)] = <<path, fileNo[path], c + i>>
      <4> DEFINE x == head + R - avail + i
                 y == head' + R - (avail + worksize) + i
                 s == At(x, R)
      <4>0. /\ At(head + worksize, R) = head'
            /\ head' = IF head + worksize < R THEN head + worksize ELSE head + worksize - R
        <5> DEFINE h == head + worksize
        <5>1. h \in Nat /\ h < 2 * R /\ h < 3 * R
          BY <3>2
        <5>2. At(h, R) = head'
          BY <3>1 DEF At
        <5> HIDE DEF h
        <5>3. At(h, R) = IF h < R THEN h ELSE h - R
          BY <3>2, <5>1, TwoTurns
        <5> QED
          BY <3>2, <5>2, <5>3 DEF h
      <4>1. x \in Nat /\ y \in Nat /\ x < 3 * R /\ (y = x \/ y = x - R)
        <5>1. CASE head + worksize < R
          BY <3>2, <3>9, <4>0, <5>1
        <5>2. CASE ~(head + worksize < R)
          BY <3>2, <3>9, <4>0, <5>2
        <5> QED
          BY <5>1, <5>2
      <4>2. At(y, R) = s /\ s \in 0 .. R - 1
        <5> HIDE DEF x, y
        <5>1. y < 3 * R
          BY <3>2, <4>1
        <5>2. At(x, R) = IF x < R THEN x ELSE IF x < 2 * R THEN x - R ELSE x - 2 * R
          BY <3>2, <4>1, TwoTurns
        <5>3. At(y, R) = IF y < R THEN y ELSE IF y < 2 * R THEN y - R ELSE y - 2 * R
          BY <3>2, <4>1, <5>1, TwoTurns
        <5> QED
          BY <3>2, <4>1, <5>2, <5>3
      <4>3. (s + R - head) % R = IF i < avail THEN R - avail + i ELSE i - avail
        <5>1. s = IF x < R THEN x ELSE IF x < 2 * R THEN x - R ELSE x - 2 * R
          <6> HIDE DEF x
          <6> QED
            BY <3>2, <4>1, TwoTurns
        <5> HIDE DEF s
        <5> DEFINE z == s + R - head
        <5>2. z \in Nat /\ z < 3 * R
          BY <3>2, <4>2
        <5>3. At(z, R) = IF z < R THEN z ELSE IF z < 2 * R THEN z - R ELSE z - 2 * R
          <6> HIDE DEF z
          <6> QED
            BY <3>2, <5>2, TwoTurns
        <5>4. CASE i < avail
          BY <3>2, <3>9, <4>2, <5>1, <5>3, <5>4 DEF At
        <5>5. CASE ~(i < avail)
          BY <3>2, <3>9, <4>2, <5>1, <5>3, <5>5 DEF At
        <5> QED
          BY <5>4, <5>5
      <4>6. slot(i) = s /\ (head + R - avail + i) % R = s
        BY <4>2 DEF At
      <4> HIDE DEF s, x, y
      <4>4. CASE i < avail
        <5>1. ~((s + R - head) % R < Batch)
          BY <3>2, <3>7, <4>3, <4>4
        <5>2. ring'[s] = ring[s]
          BY <3>1, <4>2, <5>1
        <5>3. ring[s] = <<path, fileNo[path], c + i>>
          <6>1. i \in 0 .. avail - 1
            BY <3>2, <3>9, <4>4
          <6>2. ring[(head + R - avail + i) % R] = <<path, fileNo[path], c + i>>
            BY <3>8, <3>9, <6>1 DEF RingHolds, NonceOf, c, n
          <6> QED
            BY <4>6, <6>2
        <5> QED
          BY <4>6, <5>2, <5>3
      <4>5. CASE ~(i < avail)
        <5>1. (s + R - head) % R = i - avail /\ i - avail \in 0 .. worksize - 1
          BY <3>2, <4>3, <4>5
        <5>2. c + avail + (i - avail) = c + i /\ i - avail < Batch
          BY <3>2, <3>3, <3>7, <3>9, <5>1 DEF c
        <5>3. ring'[s] = <<path, fileNo[path], nonces[path] + (i - avail)>>
          BY <3>1, <3>5, <4>2, <5>1, <5>2
        <5> QED
          BY <3>4, <4>6, <5>2, <5>3
      <4> QED
        BY <4>4, <4>5
    <3>10. NoncesForFile(path)' = n /\ path' = path /\ fileNo' = fileNo
      BY <1>1 DEF NoncesForFile, n
    <3>11. avail' = avail + worksize
      BY <3>1
    <3> HIDE DEF m, slot
    <3>12. \A i \in 0 .. m - 1 : c + i < n => ring'[slot(i)] = <<path, fileNo[path], c + i>>
      BY <3>9
    <3>13. RingHolds' <=> \A i \in 0 .. m - 1 :
                c + i < n => ring'[slot(i)] = <<path, fileNo[path], c + i>>
      BY <3>6, <3>10, <3>11 DEF RingHolds, NonceOf, m, slot
    <3> QED
      BY <3>12, <3>13
  <2>2. CASE ~(CanHash /\ ~stop)
    <3>1. UNCHANGED <<ring, head, avail>>
      BY <2>2 DEF Fill
    <3> QED
      BY <1>1, <3>1, SameRing DEF DataInv
  <2> QED
    BY <2>1, <2>2
<1>3. FileOrder' /\ WarpsRight'
  BY <1>1, SameFiles DEF DataInv
<1>4. CompressedSoFar' /\ SlotsRight'
  BY <1>1, SameCompressed, SameSlots DEF DataInv
<1>5. FilesContinue'
  <2>1. stop' = stop \/ stop'
    BY <1>1
  <2>2. pc' = "transfer" => pc = "transfer" \/ ~stop
    BY <1>1
  <2> QED
    BY <1>1, <2>1, <2>2, SameHanded DEF DataInv
<1>6. Serving'
  <2>1. Active(path) /\ gpuSeed = <<path, fileNo[path]>>
    BY <1>1 DEF DataInv, Serving
  <2>2. Active(path)' = Active(path)
    BY <1>1 DEF Active
  <2> QED
    BY <1>1, <2>1, <2>2 DEF Serving
<1>7. BufferFollows' /\ TransferUndisturbed'
  BY <1>1 DEF DataInv, BufferFollows, TransferUndisturbed
<1> QED
  BY <1>2, <1>3, <1>4, <1>5, <1>6, <1>7 DEF DataInv

\* The C slots a pass takes are successive nonces of the file in service.
LEMMA PassIsRight ==
  ASSUME RingInv, DataInv, pc = "compress", avail >= C
  PROVE  PassOver(CompressStart) = NonceOf(Consumed(path))
<1>1. /\ R \in Nat \ {0} /\ R >= C /\ avail \in 0 .. R /\ head \in 0 .. R - 1 /\ C \in Nat \ {0}
      /\ path \in Paths
  <2>1. head \in 0 .. R - 1 /\ avail \in 0 .. R
    BY DEF RingInv, RingTypeOK
  <2> QED
    BY <2>1, InvFacts
<1>2. /\ Consumed(path) \in Nat /\ Consumed(path) + C <= NoncesForFile(path)
      /\ NoncesForFile(path) \in Nat
  <2>1. /\ warpOffset[path] \in Nat /\ pass \in Nat /\ path \in Paths
        /\ warpOffset[path] < Warps[path] /\ pass < Passes
    BY InvFacts DEF RingInv, Offsets, PassCount
  <2> QED
    BY <2>1, PassFits DEF Consumed
<1> DEFINE c == Consumed(path)
           a == head + R - avail
           s == CompressStart
<1>3. a \in Nat /\ a < 2 * R /\ s = IF a < R THEN a ELSE a - R
  <2>1. a \in Nat /\ a < 2 * R
    BY <1>1
  <2> HIDE DEF a
  <2>2. At(a, R) = IF a < R THEN a ELSE a - R
    BY <1>1, <2>1, TwoTurns
  <2> QED
    BY <2>1, <2>2 DEF CompressStart, a, At
<1>4. ASSUME NEW i \in 0 .. C - 1 PROVE ring[(s + i) % R] = <<path, fileNo[path], c + i>>
  <2>1. (s + i) % R = (a + i) % R
    <3>1. CASE a < R
      BY <1>3, <3>1
    <3>2. CASE ~(a < R)
      <4>1. a + i \in Nat /\ a + i < 2 * R /\ s + i \in Nat /\ s + i < R /\ ~(a + i < R) /\ a + i - R = s + i
        BY <1>1, <1>3, <3>2
      <4> DEFINE x == a + i
                 y == s + i
      <4>2. At(x, R) = y /\ At(y, R) = y
        <5>0. x \in Nat /\ y \in Nat /\ x < 2 * R /\ ~(x < R) /\ y < R /\ x - R = y
          BY <1>1, <1>3, <4>1
        <5> HIDE DEF x, y
        <5>1. x < 3 * R /\ y < 3 * R
          BY <1>1, <5>0
        <5>2. At(x, R) = x - R
          BY <1>1, <5>0, <5>1, TwoTurns
        <5>3. At(y, R) = y
          BY <1>1, <5>0, <5>1, TwoTurns
        <5> QED
          BY <5>0, <5>2, <5>3
      <4> QED
        BY <4>2 DEF At
    <3> QED
      BY <3>1, <3>2
  <2>2. i \in 0 .. avail - 1 /\ c + i < NoncesForFile(path)
    BY <1>1, <1>2
  <2>3. ring[(a + i) % R] = <<path, fileNo[path], c + i>>
    BY <2>2 DEF DataInv, RingHolds, NonceOf
  <2> QED
    BY <2>1, <2>3
<1>5. ring[s] = <<path, fileNo[path], c>>
  <2>1. s \in 0 .. R - 1 /\ 0 \in 0 .. C - 1
    BY <1>1, <1>3
  <2>2. (s + 0) % R = s /\ c + 0 = c
    <3>1. s + 0 = s /\ s \in Nat /\ s < R
      BY <1>1, <2>1
    <3> QED
      BY <1>1, <1>2, <3>1
  <2> QED
    BY <1>4, <2>1, <2>2
<1>6. ring[s] # Garbage
  <2>1. c # -1
    BY <1>2
  <2> QED
    BY <1>5, <2>1 DEF Garbage
<1>7. ring[s][1] = path /\ ring[s][2] = fileNo[path] /\ ring[s][3] = c
  BY <1>5
<1> HIDE DEF c, s, a
<1>8. PassOver(s) = ring[s]
  BY <1>4, <1>6, <1>7 DEF PassOver
<1> QED
  BY <1>5, <1>8 DEF c, s, NonceOf

LEMMA CompressData == RingInv /\ DataInv /\ Compress => DataInv'
<1> SUFFICES ASSUME RingInv, DataInv, Compress PROVE DataInv'
  OBVIOUS
<1>1. /\ UNCHANGED <<worksize, async, path, fileNo, filesDone, warpOffset, nonces, head,
                     held, inBuffer, bufStart, bufPath, slots, gpuSeed, ring, pool,
                     stop, out, dead, faults, written>>
      /\ pc = "compress" /\ pc' \in {"compress", "transfer", "top"}
      /\ pc' = "transfer" => ~stop
  BY DEF Compress, confVars, pathVars, bufVars, writerVars
<1>2. FileOrder' /\ WarpsRight'
  BY <1>1, SameFiles DEF DataInv
<1>3. FilesContinue'
  <2>1. stop' = stop \/ stop'
    BY <1>1
  <2>2. pc' = "transfer" => pc = "transfer" \/ ~stop
    BY <1>1
  <2> QED
    BY <1>1, <2>1, <2>2, SameHanded DEF DataInv
<1>4. Serving'
  <2>1. Active(path) /\ gpuSeed = <<path, fileNo[path]>>
    BY <1>1 DEF DataInv, Serving
  <2>2. Active(path)' = Active(path)
    BY <1>1 DEF Active
  <2> QED
    BY <1>1, <2>1, <2>2 DEF Serving
<1>5. CASE avail >= C /\ ~stop
  <2>1. /\ dma.state # "flying"
        /\ dma' = IF dma.state = "landed" THEN Idle ELSE dma
        /\ compressed' = IF pass > 0
                         THEN Xor(compressed, {PassOver(CompressStart)})
                         ELSE {PassOver(CompressStart)}
        /\ avail' = avail - C
        /\ pass' = pass + 1
    BY <1>5 DEF Compress, MayCompress
  <2>2. /\ warpOffset[path] \in Nat /\ warpOffset[path] < Warps[path]
        /\ pass \in Nat /\ pass < Passes /\ path \in Paths
        /\ Passes \in Nat /\ C \in Nat \ {0} /\ avail \in Nat /\ R \in Nat \ {0} /\ head \in 0 .. R - 1
    <3>1. head \in 0 .. R - 1
      BY DEF RingInv, RingTypeOK
    <3> QED
      BY <1>1, <3>1, InvFacts DEF RingInv, Offsets, PassCount
  <2>3. Consumed(path) \in Nat /\ Consumed(path)' = Consumed(path) + C
    <3>1. /\ (warpOffset[path] * Passes + pass + 1) * C = (warpOffset[path] * Passes + pass) * C + C
          /\ (warpOffset[path] * Passes + pass) * C \in Nat
      BY <2>2, PassFits
    <3>2. warpOffset[path] * Passes + pass + 1 = warpOffset[path] * Passes + (pass + 1)
      BY <2>2
    <3> QED
      BY <1>1, <2>1, <3>1, <3>2 DEF Consumed
  <2>4. PassOver(CompressStart) = NonceOf(Consumed(path))
    BY <1>1, <1>5, PassIsRight
  <2>5. CompressedSoFar'
    <3> DEFINE at(i) == NonceOf((warpOffset[path] * Passes + i) * C)
    <3>1. NonceOf(Consumed(path)) = at(pass)
      BY DEF Consumed
    <3>2. at(pass) \notin PassesSoFar(pass)
      <4>1. ASSUME NEW i \in 0 .. pass - 1 PROVE at(i) # at(pass)
        <5>1. i \in Nat /\ i < pass
          BY <2>2
        <5>2. (warpOffset[path] * Passes + i) * C # (warpOffset[path] * Passes + pass) * C
          BY <2>2, <5>1, PassesApart
        <5> QED
          BY <5>2 DEF NonceOf
      <4> QED
        BY <4>1 DEF PassesSoFar
    <3>3. PassesSoFar(pass + 1) = PassesSoFar(pass) \cup {at(pass)}
      <4>1. 0 .. (pass + 1) - 1 = (0 .. pass - 1) \cup {pass}
        BY <2>2
      <4> QED
        BY <4>1 DEF PassesSoFar
    <3>4. compressed' = PassesSoFar(pass + 1)
      <4>1. CASE pass > 0
        <5>1. compressed = PassesSoFar(pass)
          BY <4>1 DEF DataInv, CompressedSoFar
        <5> HIDE DEF at
        <5> QED
          BY <2>1, <2>4, <3>1, <3>2, <3>3, <4>1, <5>1 DEF Xor
      <4>2. CASE ~(pass > 0)
        <5>1. PassesSoFar(pass) = {}
          BY <2>2, <4>2 DEF PassesSoFar
        <5> HIDE DEF at
        <5> QED
          BY <2>1, <2>4, <3>1, <3>3, <4>2, <5>1
      <4> QED
        BY <4>1, <4>2
    <3>5. PassesSoFar(pass)' = PassesSoFar(pass + 1)
      BY <1>1, <2>1 DEF PassesSoFar, NonceOf
    <3> QED
      BY <3>4, <3>5 DEF CompressedSoFar
  <2>6. RingHolds'
    <3>1. R' = R /\ NoncesForFile(path)' = NoncesForFile(path)
      BY <1>1 DEF R, NoncesForFile
    <3>2. ASSUME NEW i \in 0 .. (avail - C) - 1, Consumed(path) + C + i < NoncesForFile(path)
          PROVE  ring[(head + R - (avail - C) + i) % R] = NonceOf(Consumed(path) + C + i)
      <4>1. C + i \in 0 .. avail - 1
        BY <2>2
      <4>2. head + R - (avail - C) + i = head + R - avail + (C + i)
        BY <2>2
      <4>3. Consumed(path) + (C + i) = Consumed(path) + C + i
        BY <2>2, <2>3
      <4> QED
        BY <3>2, <4>1, <4>2, <4>3 DEF DataInv, RingHolds
    <3> QED
      BY <1>1, <2>1, <2>3, <3>1, <3>2 DEF RingHolds, NonceOf
  <2>7. SlotsRight'
    <3>1. \A j : ~InFlight(j) /\ ~InFlight(j)'
      BY <2>1 DEF InFlight, Idle
    <3> QED
      BY <1>1, <3>1 DEF DataInv, SlotsRight
  <2>8. BufferFollows' /\ TransferUndisturbed'
    <3>1. dma'.state # "flying"
      BY <2>1 DEF Idle
    <3>2. dma.state \in {"none", "flying", "landed"}
      BY DEF RingInv, RingTypeOK
    <3>3. dma'.state = "none"
      BY <2>1, <3>2 DEF Idle
    <3> QED
      BY <1>1, <1>5, <3>1, <3>3 DEF DataInv, BufferFollows, TransferUndisturbed
  <2> QED
    BY <1>2, <1>3, <1>4, <2>5, <2>6, <2>7, <2>8 DEF DataInv
<1>6. CASE ~(avail >= C /\ ~stop)
  <2>1. pc' = "top" /\ UNCHANGED <<dma, compressed, avail, pass>>
    BY <1>6 DEF Compress
  <2>2. RingHolds' /\ CompressedSoFar' /\ SlotsRight'
    BY <1>1, <2>1, SameRing, SameCompressed, SameSlots DEF DataInv
  <2>3. BufferFollows' /\ TransferUndisturbed'
    BY <1>1, <2>1 DEF DataInv, BufferFollows, TransferUndisturbed
  <2> QED
    BY <1>2, <1>3, <1>4, <2>2, <2>3 DEF DataInv
<1> QED
  BY <1>5, <1>6

\* A warp is complete and goes into the next slot of the buffer.
LEMMA TransferData == RingInv /\ DataInv /\ Transfer => DataInv'
<1> SUFFICES ASSUME RingInv, DataInv, Transfer PROVE DataInv'
  OBVIOUS
<1> DEFINE old == IF held THEN slots ELSE StaleSlots
           w   == warpOffset[path]
<1>1. /\ pc = "transfer" /\ held' = TRUE
      /\ bufStart' = IF held THEN bufStart ELSE w
      /\ bufPath' = IF held THEN bufPath ELSE path
      /\ pass' = 0 /\ inBuffer' = inBuffer + 1
      /\ warpOffset' = [warpOffset EXCEPT ![path] = @ + 1]
      /\ UNCHANGED <<worksize, async, path, fileNo, filesDone, nonces, head, avail, gpuSeed, ring,
                     compressed, stop, out, dead, faults, written>>
      /\ IF async
         THEN /\ dma' = [state |-> "flying", slot |-> inBuffer, source |-> compressed]
              /\ slots' = [old EXCEPT ![inBuffer] = {Junk}]
         ELSE /\ slots' = [old EXCEPT ![inBuffer] = compressed]
              /\ UNCHANGED dma
  BY DEF Transfer, confVars, pathVars, writerVars
<1>2. pc' \in {"flush", "top", "compress"}
  BY DEF Transfer, Continue
<1>3. /\ warpOffset \in [Paths -> Nat] /\ path \in Paths /\ w \in Nat /\ w < Warps[path]
      /\ pass = Passes /\ inBuffer \in 0 .. Escalate - 1
      /\ Passes \in Nat \ {0} /\ C \in Nat \ {0} /\ Escalate \in Nat \ {0}
      /\ bufStart \in Nat /\ held \in BOOLEAN
  <2>1. w < Warps[path] /\ pass = Passes /\ inBuffer < Escalate
    BY <1>1 DEF RingInv, Offsets, PassCount, BufferRoom
  <2>2. inBuffer \in 0 .. Escalate /\ bufStart \in Nat /\ held \in BOOLEAN
    BY DEF RingInv, RingTypeOK
  <2> QED
    BY <2>1, <2>2, InvFacts
<1>4. /\ held => bufPath = path /\ bufStart + inBuffer = w
      /\ ~held => inBuffer = 0
      /\ dma.state = "none"
  BY <1>1 DEF DataInv, BufferFollows
<1>5. compressed = Right(path, fileNo[path], w)
  <2>1. compressed = PassesSoFar(Passes)
    BY <1>3 DEF DataInv, CompressedSoFar
  <2> QED
    BY <2>1 DEF PassesSoFar, NonceOf, Right
<1>6. bufPath' = path /\ bufStart' + inBuffer = w /\ bufStart' \in Nat
  BY <1>1, <1>3, <1>4
<1>7. warpOffset'[path] = w + 1 /\ \A p \in Paths \ {path} : warpOffset'[p] = warpOffset[p]
  BY <1>1, <1>3
<1>8. FileOrder' /\ WarpsRight'
  BY <1>1, SameFiles DEF DataInv
<1>9. Serving'
  <2>1. Active(path) /\ gpuSeed = <<path, fileNo[path]>>
    BY <1>1 DEF DataInv, Serving
  <2>2. Active(path)' = Active(path)
    BY <1>1 DEF Active
  <2> QED
    BY <1>1, <1>2, <2>1, <2>2 DEF Serving
<1>10. RingHolds'
  <2>1. (w + 1) * Passes + 0 = w * Passes + Passes
    BY <1>3
  <2>2. Consumed(path)' = Consumed(path)
    BY <1>1, <1>3, <1>7, <2>1 DEF Consumed
  <2>3. R' = R
    BY <1>1 DEF R
  <2> QED
    BY <1>1, <2>2, <2>3 DEF DataInv, RingHolds, NonceOf
<1>11. CompressedSoFar'
  BY <1>1 DEF CompressedSoFar
<1>12. BufferFollows'
  BY <1>1, <1>2, <1>3, <1>6, <1>7 DEF BufferFollows
<1>13. SlotsRight'
  <2> SUFFICES ASSUME NEW j \in 0 .. inBuffer
               PROVE  (IF InFlight(j) THEN compressed ELSE slots[j])'
                        = Right(path, fileNo[path], bufStart' + j)
    BY <1>1, <1>3 DEF SlotsRight
  <2>1. slots \in [0 .. Escalate - 1 -> SUBSET Nonce] /\ old \in [0 .. Escalate - 1 -> SUBSET Nonce]
    BY ConstantTypes DEF RingInv, RingTypeOK
  <2>2. CASE j = inBuffer
    <3>1. bufStart' + j = w
      BY <1>6, <2>2
    <3>2. CASE async
      <4>1. InFlight(j)'
        BY <1>1, <2>2, <3>2 DEF InFlight
      <4> QED
        BY <1>1, <1>5, <3>1, <4>1
    <3>3. CASE ~async
      <4>1. ~InFlight(j)'
        BY <1>1, <1>4, <3>3 DEF InFlight
      <4> HIDE DEF old
      <4>2. slots'[j] = compressed
        BY <1>1, <1>3, <2>1, <2>2, <3>3
      <4> QED
        BY <1>5, <3>1, <4>1, <4>2
    <3> QED
      BY <3>2, <3>3
  <2>3. CASE j # inBuffer
    <3>1. j \in 0 .. inBuffer - 1 /\ held
      BY <1>3, <1>4, <2>3
    <3>2. ~InFlight(j) /\ ~InFlight(j)'
      BY <1>1, <1>4, <2>3 DEF InFlight
    <3>3. slots[j] = Right(path, fileNo[path], bufStart + j)
      BY <3>1, <3>2 DEF DataInv, SlotsRight
    <3>4. slots'[j] = old[j] /\ old = slots
      <4>1. old = slots
        BY <3>1
      <4> HIDE DEF old
      <4>2. slots'[j] = old[j]
        BY <1>1, <1>3, <2>1, <2>3, <3>1
      <4> QED
        BY <4>1, <4>2
    <3>5. bufStart' = bufStart
      BY <1>1, <3>1
    <3> QED
      BY <3>2, <3>3, <3>4, <3>5
  <2> QED
    BY <2>2, <2>3
<1>14. FilesContinue'
  <2>1. HandedUpTo(path, bufStart)'
    <3>1. DOMAIN written[path][fileNo[path]] = 0 .. bufStart' - 1
      <4>1. CASE held
        BY <1>1, <4>1 DEF DataInv, FilesContinue, HandedUpTo
      <4>2. CASE ~held
        <5>1. Active(path)
          BY <1>1 DEF DataInv, Serving
        <5> QED
          BY <1>1, <4>2, <5>1 DEF DataInv, FilesContinue, HandedUpTo
      <4> QED
        BY <4>1, <4>2
    <3> QED
      BY <1>1, <3>1 DEF HandedUpTo
  <2>2. ASSUME ~stop, NEW p \in Paths \ {path}, Active(p)' PROVE HandedUpTo(p, warpOffset[p])'
    <3>1. Active(p)
      BY <1>1, <2>2 DEF Active
    <3>2. HandedUpTo(p, warpOffset[p])
      BY <2>2, <3>1 DEF DataInv, FilesContinue
    <3> QED
      BY <1>1, <1>7, <3>2 DEF HandedUpTo
  <2> QED
    BY <1>1, <2>1, <2>2 DEF FilesContinue
<1>15. TransferUndisturbed'
  <2>1. CASE async
    BY <1>1, <1>3, <2>1 DEF TransferUndisturbed
  <2>2. CASE ~async
    BY <1>1, <1>4, <2>2 DEF TransferUndisturbed
  <2> QED
    BY <2>1, <2>2
<1> QED
  BY <1>8, <1>9, <1>10, <1>11, <1>12, <1>13, <1>14, <1>15 DEF DataInv

\* The held buffer continues the file in service up to the next warp, with that
\* file's warps, unless its writer is gone.
LEMMA BufferHandedOver ==
  ASSUME RingInv, DataInv, held, dma.state # "flying", FlushBuffer(fileNo[path])
  PROVE  /\ held' = FALSE
         /\ DOMAIN written' = Paths /\ \A p \in Paths : DOMAIN written'[p] = 1 .. Plots[p]
         /\ \A p \in Paths : \A k \in 1 .. Plots[p] :
                p # path \/ k # fileNo[path] => written'[p][k] = written[p][k]
         /\ WarpsRight'
         /\ \/ stop'
            \/ /\ stop' = stop /\ inBuffer' = 0
               /\ DOMAIN written'[path][fileNo[path]] = 0 .. warpOffset[path] - 1
<1> DEFINE f == fileNo[path]
           was == written[path][f]
           is == [w \in (DOMAIN was) \cup (bufStart .. bufStart + inBuffer - 1) |->
                    IF w >= bufStart THEN slots[w - bufStart] ELSE was[w]]
<1>1. /\ bufPath = path /\ inBuffer \in Nat /\ bufStart \in Nat
      /\ bufStart + inBuffer = warpOffset[path] /\ path \in Paths
  <2>1. inBuffer \in 0 .. Escalate /\ bufStart \in Nat
    BY DEF RingInv, RingTypeOK
  <2> QED
    BY <2>1, InvFacts DEF DataInv, BufferFollows
<1>2. /\ DOMAIN written = Paths /\ \A p \in Paths : DOMAIN written[p] = 1 .. Plots[p]
      /\ f \in 1 .. Plots[path]
  BY <1>1 DEF DataInv, FileOrder
<1>3. WarpsRight
  BY DEF DataInv
<1>4. DOMAIN was = 0 .. bufStart - 1
  BY DEF DataInv, FilesContinue, HandedUpTo
<1>5. CASE bufPath \notin dead
  <2>1. /\ held' = FALSE /\ inBuffer' = 0 /\ stop' = stop
        /\ written' = [written EXCEPT ![path][f] = is]
    BY <1>1, <1>5 DEF FlushBuffer
  <2>2. DOMAIN is = 0 .. warpOffset[path] - 1
    <3>1. (0 .. bufStart - 1) \cup (bufStart .. bufStart + inBuffer - 1) = 0 .. bufStart + inBuffer - 1
      BY <1>1
    <3> QED
      BY <1>1, <1>4, <3>1
  <2>3. ASSUME NEW w \in DOMAIN is PROVE is[w] = Right(path, f, w)
    <3>1. w \in 0 .. bufStart + inBuffer - 1
      BY <1>1, <2>2, <2>3
    <3>2. CASE w >= bufStart
      <4>1. w - bufStart \in 0 .. inBuffer - 1 /\ bufStart + (w - bufStart) = w
        BY <1>1, <3>1, <3>2
      <4>2. ~InFlight(w - bufStart)
        BY DEF InFlight
      <4>3. slots[w - bufStart] = Right(path, f, w)
        BY <4>1, <4>2 DEF DataInv, SlotsRight
      <4> QED
        BY <2>3, <3>2, <4>3
    <3>3. CASE ~(w >= bufStart)
      <4>1. w \in DOMAIN was
        BY <1>1, <1>4, <3>1, <3>3
      <4>2. was[w] = Right(path, f, w)
        BY <1>1, <1>2, <1>3, <4>1 DEF WarpsRight
      <4> QED
        BY <2>3, <3>3, <4>2
    <3> QED
      BY <3>2, <3>3
  <2> HIDE DEF is
  <2>4. /\ DOMAIN written' = Paths /\ \A p \in Paths : DOMAIN written'[p] = 1 .. Plots[p]
        /\ written'[path][f] = is
        /\ \A p \in Paths : \A k \in 1 .. Plots[p] :
              p # path \/ k # f => written'[p][k] = written[p][k]
    <3>1. /\ DOMAIN written' = Paths
          /\ written'[path] = [written[path] EXCEPT ![f] = is]
          /\ \A p \in Paths : p # path => written'[p] = written[p]
      BY <1>1, <1>2, <2>1
    <3>2. /\ DOMAIN written'[path] = 1 .. Plots[path]
          /\ written'[path][f] = is
          /\ \A k \in 1 .. Plots[path] : k # f => written'[path][k] = written[path][k]
      BY <1>1, <1>2, <3>1
    <3> QED
      BY <1>2, <3>1, <3>2
  <2> HIDE DEF f
  <2>5. WarpsRight'
    <3> SUFFICES ASSUME NEW p \in Paths, NEW k \in 1 .. Plots[p], NEW w \in DOMAIN written'[p][k]
                 PROVE  written'[p][k][w] = Right(p, k, w)
      BY DEF WarpsRight
    <3>1. CASE p = path /\ k = f
      BY <2>3, <2>4, <3>1
    <3>2. CASE p # path \/ k # f
      BY <1>3, <2>4, <3>2 DEF WarpsRight
    <3> QED
      BY <3>1, <3>2
  <2> QED
    BY <2>1, <2>2, <2>4, <2>5 DEF f
<1>6. CASE bufPath \in dead
  <2>1. held' = FALSE /\ stop' = TRUE /\ written' = written
    BY <1>6 DEF FlushBuffer
  <2> QED
    BY <1>2, <1>3, <2>1 DEF WarpsRight
<1> QED
  BY <1>5, <1>6

\* The buffer is handed over, and the next path starts with an empty ring and the
\* seed of its own file.
LEMMA FlushData == RingInv /\ DataInv /\ Flush => DataInv'
<1> SUFFICES ASSUME RingInv, DataInv, Flush PROVE DataInv'
  OBVIOUS
<1> DEFINE boundary == warpOffset[path] = Warps[path]
           done     == IF boundary THEN [filesDone EXCEPT ![path] = @ + 1]
                                   ELSE filesDone
           allDone  == \A p \in Paths : done[p] >= Plots[p]
           leave    == NumPaths > 1 /\ allDone
           next     == IF NumPaths > 1 THEN NextActive(path, done) ELSE path
           discard  == ~leave /\ (next # path \/ boundary)
           files    == NextSeeds(done)
           f        == fileNo[path]
<1>1. /\ pc = "flush" /\ dma.state # "flying" /\ dma' = Idle
      /\ FlushBuffer(f)
      /\ filesDone' = done /\ fileNo' = files /\ path' = next
      /\ pc' = IF leave \/ discard THEN "top" ELSE "compress"
      /\ UNCHANGED <<worksize, async, pass, bufPath, slots, ring, compressed, pool, dead, faults>>
  BY Zenon DEF Flush, confVars
<1>2. discard => /\ avail' = 0
                 /\ warpOffset' = IF boundary THEN [warpOffset EXCEPT ![path] = 0] ELSE warpOffset
                 /\ gpuSeed' = <<next, files[next]>>
  BY Zenon DEF Flush
<1>3. ~discard => UNCHANGED <<avail, head, warpOffset, gpuSeed>>
  BY Zenon DEF Flush
<1>4. /\ held /\ pass = 0 /\ path \in Paths
      /\ warpOffset \in [Paths -> Nat] /\ Plots \in [Paths -> Nat \ {0}]
      /\ filesDone \in [Paths -> Nat] /\ fileNo \in [Paths -> Nat]
      /\ NumPaths \in Nat \ {0}
  <2>1. filesDone \in [Paths -> Nat] /\ fileNo \in [Paths -> Nat]
    BY DEF RingInv, RingTypeOK
  <2> QED
    BY <1>1, <2>1, InvFacts, RingAssumption DEF RingInv, PassCount, BufferRoom
<1>5. /\ gpuSeed = <<path, f>> /\ Active(path) /\ filesDone[path] < Plots[path]
      /\ f = filesDone[path] + 1 /\ f \in 1 .. Plots[path]
  BY <1>1, <1>4 DEF DataInv, Serving, FileOrder, Active
<1>6. /\ held' = FALSE
      /\ DOMAIN written' = Paths /\ \A p \in Paths : DOMAIN written'[p] = 1 .. Plots[p]
      /\ \A p \in Paths : \A k \in 1 .. Plots[p] :
             p # path \/ k # f => written'[p][k] = written[p][k]
      /\ WarpsRight'
      /\ \/ stop'
         \/ /\ stop' = stop /\ inBuffer' = 0
            /\ DOMAIN written'[path][f] = 0 .. warpOffset[path] - 1
  BY <1>1, <1>4, BufferHandedOver
<1>7. /\ done \in [Paths -> Nat]
      /\ done[path] = IF boundary THEN filesDone[path] + 1 ELSE filesDone[path]
      /\ \A p \in Paths \ {path} : done[p] = filesDone[p]
  BY <1>4
<1>8. /\ files[path] = IF boundary /\ filesDone[path] + 1 < Plots[path] THEN f + 1 ELSE f
      /\ \A p \in Paths \ {path} : files[p] = fileNo[p]
  <2> HIDE DEF done, boundary
  <2> QED
    BY <1>4, <1>5, <1>7 DEF NextSeeds
<1>9. /\ next \in Paths
      /\ \/ done[next] < Plots[next]
         \/ next = path /\ allDone
  <2> HIDE DEF done
  <2>1. CASE NumPaths > 1
    BY <1>4, <1>7, <2>1, NextActiveIsPath, StaysOnlyIfLeft
  <2>2. CASE ~(NumPaths > 1)
    <3>1. \A p \in Paths : p = path
      <4>1. NumPaths = 1
        BY <1>4, <2>2
      <4>2. Paths = {0}
        BY <4>1 DEF Paths
      <4> QED
        BY <1>4, <4>2
    <3> QED
      BY <1>4, <1>7, <2>2, <3>1
  <2> QED
    BY <2>1, <2>2
<1>10. /\ leave => next = path
       /\ ~leave /\ ~discard => next = path /\ ~boundary
       /\ boundary /\ ~discard => allDone
  <2> HIDE DEF done, boundary
  <2>1. leave => next = path
    BY <1>4, <1>7, <1>9
  <2> QED
    BY <2>1
<1>11. /\ warpOffset'[path] = IF discard /\ boundary THEN 0 ELSE warpOffset[path]
       /\ \A p \in Paths \ {path} : warpOffset'[p] = warpOffset[p]
  BY <1>2, <1>3, <1>4
<1>12. /\ filesDone' = done /\ fileNo' = files /\ path' = next
       /\ \A p \in Paths : Active(p)' <=> done[p] < Plots[p]
  BY <1>1 DEF Active
<1> HIDE DEF done, files, next, boundary, f
<1>13. FileOrder'
  <2>1. ASSUME NEW p \in Paths
        PROVE  /\ fileNo'[p] \in 1 .. Plots[p]
               /\ filesDone'[p] <= Plots[p]
               /\ Active(p)' => fileNo'[p] = filesDone'[p] + 1
               /\ fileNo[p] <= fileNo'[p] /\ fileNo[p] \in Nat
    <3>1. CASE p = path
      BY <1>4, <1>5, <1>7, <1>8, <1>12, <3>1 DEF f
    <3>2. CASE p # path
      <4>1. /\ fileNo[p] \in 1 .. Plots[p] /\ filesDone[p] <= Plots[p]
            /\ Active(p) => fileNo[p] = filesDone[p] + 1
        BY DEF DataInv, FileOrder
      <4> QED
        BY <1>4, <1>7, <1>8, <1>12, <3>2, <4>1 DEF Active
    <3> QED
      BY <3>1, <3>2
  <2>2. ASSUME NEW p \in Paths, NEW k \in 1 .. Plots[p], k > fileNo'[p]
        PROVE  DOMAIN written'[p][k] = {}
    <3>1. k > fileNo[p]
      BY <2>1, <2>2
    <3>2. DOMAIN written[p][k] = {}
      BY <3>1 DEF DataInv, FileOrder
    <3>3. p # path \/ k # f
      BY <1>4, <3>1 DEF f
    <3> QED
      BY <1>6, <3>2, <3>3
  <2> QED
    BY <1>6, <2>1, <2>2 DEF FileOrder
<1>14. Serving'
  <2>1. gpuSeed' = <<path', fileNo'[path']>>
    <3>1. CASE discard
      BY <1>2, <1>12, <3>1
    <3>2. CASE ~discard
      <4>1. next = path
        BY <1>10, <3>2
      <4>2. files[path] = f
        <5>1. CASE leave
          <6>1. done[path] >= Plots[path]
            BY <1>4, <5>1
          <6> QED
            BY <1>4, <1>5, <1>7, <1>8, <6>1
        <5>2. CASE ~leave
          BY <1>8, <1>10, <3>2, <5>2
        <5> QED
          BY <5>1, <5>2
      <4> QED
        BY <1>3, <1>5, <1>12, <3>2, <4>1, <4>2
    <3> QED
      BY <3>1, <3>2
  <2>2. pc' = "compress" => Active(path)'
    <3> SUFFICES ASSUME pc' = "compress" PROVE Active(path)'
      OBVIOUS
    <3>1. next = path /\ ~boundary
      BY <1>1, <1>10
    <3>2. done[path] < Plots[path]
      BY <1>5, <1>7, <3>1
    <3> QED
      BY <1>12, <3>1, <3>2 DEF Active
  <2>3. AllDone' \/ Active(path)'
    <3>1. CASE done[next] < Plots[next]
      BY <1>12, <3>1 DEF Active
    <3>2. CASE allDone
      BY <1>12, <3>2 DEF AllDone
    <3> QED
      BY <1>9, <3>1, <3>2
  <2>4. pc' \in {"top", "compress"}
    BY <1>1
  <2> QED
    BY <2>1, <2>2, <2>3, <2>4 DEF Serving
<1>15. RingHolds'
  <2>1. CASE discard
    <3>1. 0 .. avail' - 1 = {}
      BY <1>2, <2>1
    <3> QED
      BY <3>1 DEF RingHolds
  <2>2. CASE ~discard
    <3>1. path' = path /\ fileNo'[path] = fileNo[path]
      <4>1. path' = path
        BY <1>10, <1>12, <2>2
      <4>2. gpuSeed' = gpuSeed /\ gpuSeed' = <<path', fileNo'[path']>>
        BY <1>3, <1>14, <2>2 DEF Serving
      <4> QED
        BY <1>5, <4>1, <4>2 DEF f
    <3>2. R' = R /\ Consumed(path)' = Consumed(path) /\ NoncesForFile(path)' = NoncesForFile(path)
      BY <1>1, <1>3, <2>2, <3>1 DEF R, Consumed, NoncesForFile
    <3> QED
      BY <1>1, <1>3, <2>2, <3>1, <3>2 DEF DataInv, RingHolds, NonceOf
  <2> QED
    BY <2>1, <2>2
<1>16. CompressedSoFar' /\ SlotsRight' /\ TransferUndisturbed'
  BY <1>1, <1>4, <1>6 DEF CompressedSoFar, SlotsRight, TransferUndisturbed, Idle
<1>17. BufferFollows'
  <2>1. pc' \in {"top", "compress"}
    BY <1>1
  <2>2. stop' \/ inBuffer' = 0
    BY <1>6
  <2> QED
    BY <1>6, <2>1, <2>2 DEF BufferFollows
<1>18. FilesContinue'
  <2>1. ASSUME ~stop', NEW p \in Paths, Active(p)'
        PROVE  DOMAIN written'[p][fileNo'[p]] = 0 .. warpOffset'[p] - 1
    <3>0. fileNo'[p] \in 1 .. Plots[p] /\ fileNo[p] \in 1 .. Plots[p] /\ stop' = stop
      BY <1>6, <1>13, <2>1 DEF DataInv, FileOrder
    <3>1. CASE p # path
      <4>1. Active(p)
        BY <1>7, <1>12, <2>1, <3>1 DEF Active
      <4>2. DOMAIN written[p][fileNo[p]] = 0 .. warpOffset[p] - 1
        BY <2>1, <3>0, <3>1, <4>1 DEF DataInv, FilesContinue, HandedUpTo
      <4> QED
        BY <1>6, <1>8, <1>11, <1>12, <3>0, <3>1, <4>2
    <3>2. CASE p = path /\ ~boundary
      BY <1>6, <1>8, <1>11, <1>12, <2>1, <3>2
    <3>3. CASE p = path /\ boundary
      <4>1. done[path] < Plots[path]
        BY <1>12, <2>1, <3>3
      <4>2. ~allDone
        BY <1>4, <1>7, <4>1
      <4>3. discard
        BY <1>10, <3>3, <4>2
      <4>4. fileNo'[path] = f + 1 /\ f + 1 \in 1 .. Plots[path] /\ f + 1 > f
        BY <1>4, <1>5, <1>7, <1>8, <1>12, <3>3, <4>1
      <4>5. DOMAIN written[path][f + 1] = {}
        BY <1>4, <4>4 DEF DataInv, FileOrder, f
      <4>6. written'[path][f + 1] = written[path][f + 1]
        BY <1>4, <1>5, <1>6, <4>4
      <4>7. warpOffset'[path] = 0
        BY <1>11, <3>3, <4>3
      <4>8. 0 .. 0 - 1 = {}
        OBVIOUS
      <4> QED
        BY <3>3, <4>4, <4>5, <4>6, <4>7, <4>8
    <3> QED
      BY <3>1, <3>2, <3>3
  <2>2. pc' # "transfer" /\ path' \in Paths
    BY <1>1, <1>9, <1>12
  <2> QED
    BY <1>6, <2>1, <2>2 DEF FilesContinue, HandedUpTo
<1> QED
  BY <1>6, <1>13, <1>14, <1>15, <1>16, <1>17, <1>18 DEF DataInv

\* At the end what the buffer still holds is handed over.
LEMMA RestData == RingInv /\ DataInv /\ Rest => DataInv'
<1> SUFFICES ASSUME RingInv, DataInv, Rest PROVE DataInv'
  OBVIOUS
<1>1. /\ pc = "rest" /\ pc' = "done" /\ dma.state # "flying" /\ dma' = Idle
      /\ UNCHANGED <<worksize, async, path, fileNo, filesDone, warpOffset, nonces, head, avail, pass,
                     bufPath, slots, gpuSeed, ring, compressed, pool, dead, faults>>
  BY DEF Rest, confVars, pathVars
<1>2. path \in Paths /\ held \in BOOLEAN /\ inBuffer \in Nat
  <2>1. inBuffer \in 0 .. Escalate /\ held \in BOOLEAN
    BY DEF RingInv, RingTypeOK
  <2> QED
    BY <2>1, InvFacts
<1>3. /\ held' = FALSE
      /\ DOMAIN written' = Paths /\ \A p \in Paths : DOMAIN written'[p] = 1 .. Plots[p]
      /\ \A p \in Paths : \A k \in 1 .. Plots[p] :
             p # path \/ k # fileNo[path] => written'[p][k] = written[p][k]
      /\ WarpsRight'
      /\ stop' \/ (stop' = stop /\ inBuffer' = 0 /\ (Active(path) => HandedUpTo(path, warpOffset[path])'))
  <2>1. CASE held
    <3>1. bufPath = path /\ inBuffer > 0
      BY <2>1 DEF DataInv, BufferFollows
    <3>2. FlushBuffer(fileNo[path])
      BY <3>1 DEF Rest
    <3> QED
      BY <1>1, <2>1, <3>2, BufferHandedOver DEF HandedUpTo
  <2>2. CASE ~held
    <3>1. held' = held /\ UNCHANGED <<inBuffer, written, stop>>
      BY <2>2 DEF Rest, FlushBuffer
    <3>2. WarpsRight'
      BY <3>1 DEF DataInv, WarpsRight
    <3>3. stop \/ (inBuffer = 0 /\ (Active(path) => HandedUpTo(path, warpOffset[path])))
      BY <2>2 DEF DataInv, BufferFollows, FilesContinue
    <3>4. HandedUpTo(path, warpOffset[path])' = HandedUpTo(path, warpOffset[path])
      BY <1>1, <3>1 DEF HandedUpTo
    <3>5. stop \in BOOLEAN
      BY DEF RingInv, RingTypeOK
    <3> QED
      BY <2>2, <3>1, <3>2, <3>3, <3>4, <3>5 DEF DataInv, FileOrder
  <2> QED
    BY <2>1, <2>2
<1>4. \A p : Active(p)' = Active(p)
  BY <1>1 DEF Active
<1>5. FileOrder'
  <2>1. ASSUME NEW p \in Paths, NEW k \in 1 .. Plots[p], k > fileNo[p]
        PROVE  DOMAIN written'[p][k] = {}
    <3>1. DOMAIN written[p][k] = {} /\ fileNo[p] \in Nat
      BY <2>1 DEF DataInv, FileOrder
    <3>2. p # path \/ k # fileNo[path]
      BY <2>1, <3>1
    <3> QED
      BY <1>3, <3>1, <3>2
  <2> QED
    BY <1>1, <1>3, <1>4, <2>1 DEF DataInv, FileOrder
<1>6. Serving'
  BY <1>1 DEF DataInv, Serving
<1>7. RingHolds' /\ CompressedSoFar'
  BY <1>1, SameRing, SameCompressed DEF DataInv
<1>8. BufferFollows' /\ SlotsRight' /\ TransferUndisturbed'
  BY <1>1, <1>3 DEF BufferFollows, SlotsRight, TransferUndisturbed, Idle
<1>9. FilesContinue'
  <2>1. ASSUME ~stop', NEW p \in Paths \ {path}, Active(p)
        PROVE  HandedUpTo(p, warpOffset[p])'
    <3>1. DOMAIN written[p][fileNo[p]] = 0 .. warpOffset[p] - 1
      BY <1>3, <2>1 DEF DataInv, FilesContinue, HandedUpTo
    <3>2. fileNo[p] \in 1 .. Plots[p]
      BY DEF DataInv, FileOrder
    <3> QED
      BY <1>1, <1>3, <3>1, <3>2 DEF HandedUpTo
  <2> QED
    BY <1>1, <1>3, <1>4, <2>1 DEF FilesContinue
<1> QED
  BY <1>3, <1>5, <1>6, <1>7, <1>8, <1>9 DEF DataInv

\* A transfer that lands makes its slot right.
LEMMA LandData == RingInv /\ DataInv /\ Land => DataInv'
<1> SUFFICES ASSUME RingInv, DataInv, Land PROVE DataInv'
  OBVIOUS
<1>1. /\ dma.state = "flying"
      /\ dma' = [dma EXCEPT !.state = "landed"]
      /\ slots' = [slots EXCEPT ![dma.slot] = compressed]
      /\ UNCHANGED <<worksize, async, pc, path, fileNo, filesDone, warpOffset, nonces, head, avail, pass,
                     held, inBuffer, bufStart, bufPath, gpuSeed, ring, compressed, stop, written>>
  BY DEF Land, confVars, pathVars, bufVars, writerVars
<1>2. dma'.state = "landed"
  BY <1>1 DEF RingInv, RingTypeOK
<1>3. SlotsRight'
  <2> SUFFICES ASSUME held, NEW j \in 0 .. inBuffer - 1
               PROVE  slots'[j] = Right(path, fileNo[path], bufStart + j)
    BY <1>1, <1>2 DEF SlotsRight, InFlight
  <2>1. (IF InFlight(j) THEN compressed ELSE slots[j]) = Right(path, fileNo[path], bufStart + j)
    BY DEF DataInv, SlotsRight
  <2>2. slots \in [0 .. Escalate - 1 -> SUBSET Nonce] /\ j \in 0 .. Escalate - 1
    <3>1. inBuffer \in 0 .. Escalate /\ slots \in [0 .. Escalate - 1 -> SUBSET Nonce]
      BY DEF RingInv, RingTypeOK
    <3> QED
      BY <3>1, RingAssumption
  <2>3. slots'[j] = IF InFlight(j) THEN compressed ELSE slots[j]
    BY <1>1, <2>2 DEF InFlight
  <2> QED
    BY <2>1, <2>3
<1>4. FileOrder' /\ WarpsRight' /\ RingHolds' /\ CompressedSoFar'
  BY <1>1, SameFiles, SameRing, SameCompressed DEF DataInv
<1>5. Serving'
  <2>1. Active(path)' = Active(path) /\ AllDone' = AllDone
    BY <1>1 DEF Active, AllDone
  <2> QED
    BY <1>1, <2>1 DEF DataInv, Serving
<1>6. FilesContinue'
  BY <1>1, SameHanded DEF DataInv
<1>7. BufferFollows' /\ TransferUndisturbed'
  BY <1>1, <1>2 DEF DataInv, BufferFollows, TransferUndisturbed
<1> QED
  BY <1>3, <1>4, <1>5, <1>6, <1>7 DEF DataInv

\* The writers and the user may only bring the work to its end.
LEMMA EnvironmentData ==
  ASSUME RingInv, DataInv, stop' = stop \/ stop' = TRUE,
         UNCHANGED <<worksize, pc, path, fileNo, filesDone, warpOffset, head, avail, pass, held, inBuffer,
                     bufStart, bufPath, slots, gpuSeed, ring, compressed, dma, written>>
  PROVE  DataInv'
<1>1. FileOrder' /\ WarpsRight' /\ RingHolds' /\ CompressedSoFar' /\ SlotsRight'
  BY SameFiles, SameRing, SameCompressed, SameSlots DEF DataInv
<1>2. Serving'
  <2>1. Active(path)' = Active(path) /\ AllDone' = AllDone
    BY DEF Active, AllDone
  <2> QED
    BY <2>1 DEF DataInv, Serving
<1>3. FilesContinue'
  BY SameHanded DEF DataInv
<1>4. BufferFollows' /\ TransferUndisturbed'
  BY DEF DataInv, BufferFollows, TransferUndisturbed
<1> QED
  BY <1>1, <1>2, <1>3, <1>4 DEF DataInv

LEMMA NextData == RingInv /\ DataInv /\ [Next]_vars => DataInv'
<1> SUFFICES ASSUME RingInv, DataInv, [Next]_vars PROVE DataInv'
  OBVIOUS
<1>1. CASE Top
  BY <1>1, TopData
<1>2. CASE Fill
  BY <1>2, FillData
<1>3. CASE Compress
  BY <1>3, CompressData
<1>4. CASE Transfer
  BY <1>4, TransferData
<1>5. CASE Flush
  BY <1>5, FlushData
<1>6. CASE Rest
  BY <1>6, RestData
<1>7. CASE Land
  BY <1>7, LandData
<1>8. CASE \/ RequestStop \/ Finished \/ UNCHANGED vars
           \/ \E p \in Paths : WriterReturns(p) \/ WriterFails(p)
  <2>1. /\ stop' = stop \/ stop' = TRUE
        /\ UNCHANGED <<worksize, pc, path, fileNo, filesDone, warpOffset, head, avail, pass, held, inBuffer,
                       bufStart, bufPath, slots, gpuSeed, ring, compressed, dma, written>>
    BY <1>8 DEF RequestStop, Finished, WriterReturns, WriterFails, vars, confVars, pathVars, bufVars,
                writerVars
  <2> QED
    BY <2>1, EnvironmentData
<1> QED
  BY <1>1, <1>2, <1>3, <1>4, <1>5, <1>6, <1>7, <1>8 DEF Next, Scheduler

-----------------------------------------------------------------------------
(* The theorems. *)

\* The inductive invariant holds in every state of every run.
THEOREM RingInvariant == ASSUME SmallWork PROVE Spec => []RingInv
<1>1. RingInv /\ [Next]_vars => RingInv'
  BY NextInv
<1> QED
  BY <1>1, InitInv, PTL DEF Spec

\* Type correctness, with the bounds that the scheduler relies on: it never
\* hashes past the end of a file, overfills the ring or the write buffer.
THEOREM RingTypes == ASSUME SmallWork PROVE Spec => []RingTypeOK
<1>1. RingInv => RingTypeOK
  BY DEF RingInv
<1> QED
  BY <1>1, RingInvariant, PTL

\* The nonce counters and the warp counters agree at every step, whichever path
\* is served and whatever is left in the ring when it is discarded.
THEOREM NoncesMatch == ASSUME SmallWork PROVE Spec => []NoncesMatchWarps
<1>1. RingInv => NoncesMatchWarps
  BY DEF RingInv
<1> QED
  BY <1>1, RingInvariant, PTL

\* A ring of worksize + C - gcd(worksize, C) slots is large enough: as long as a
\* file is unfinished there is room for a batch or there is a pass to compress.
LEMMA RingIsLargeEnough == RingInv => LoopAdvances
<1> SUFFICES ASSUME RingInv, pc = "fill", ~CanHash
             PROVE  avail >= C
  BY DEF LoopAdvances
<1>1. /\ C \in Nat \ {0} /\ avail \in Nat /\ worksize \in Nat \ {0}
      /\ worksize \in WorkSizes
      /\ Gcd(worksize, C) \in Nat \ {0}
      /\ path \in Paths /\ R \in Nat
      /\ nonces[path] = Least(NoncesForFile(path), Consumed(path) + avail)
  BY InvFacts
<1>2. /\ Consumed(path) \in Nat
      /\ Consumed(path) + C <= NoncesForFile(path)
      /\ NoncesForFile(path) \in Nat
  <2>1. /\ warpOffset[path] \in Nat /\ warpOffset[path] < Warps[path]
        /\ pass \in Nat /\ pass < Passes
    BY InvFacts DEF RingInv, Offsets, PassCount
  <2> QED
    BY <1>1, <2>1, PassFits DEF Consumed
<1>3. CASE avail + worksize > R
  <2>1. R = worksize + C - Gcd(worksize, C)
    BY <1>1, RingFacts
  <2>2. avail > C - Gcd(worksize, C)
    BY <1>1, <1>3, <2>1
  <2>3. avail % Gcd(worksize, C) = 0 /\ C % Gcd(worksize, C) = 0
    BY <1>1, RingFacts DEF RingInv, AvailDivisible, Divides
  <2> QED
    BY <1>1, <2>2, <2>3, MultipleGap
<1>4. CASE ~(nonces[path] < NoncesForFile(path))
  BY <1>1, <1>2, <1>4 DEF Least
<1> QED
  BY <1>1, <1>3, <1>4 DEF CanHash

\* The scheduler's loop never spins without work, for any work size up to C.
THEOREM LoopAlwaysAdvances == ASSUME SmallWork PROVE Spec => []LoopAdvances
<1> QED
  BY RingIsLargeEnough, RingInvariant, PTL

\* DataInv, what the data of the scheduler are: the ring holds the nonces that
\* follow the ones consumed, the compressed buffer the passes made so far, the
\* slots of the held buffer their warps, and the writers all warps before these.
THEOREM RingData == ASSUME SmallWork PROVE Spec => [](RingInv /\ DataInv)
<1>1. Init => RingInv /\ DataInv
  BY InitInv, DataInit
<1>2. RingInv /\ DataInv /\ [Next]_vars => RingInv' /\ DataInv'
  BY NextInv, NextData
<1> QED
  BY <1>1, <1>2, PTL DEF Spec

\* WarpsRight: for any number of paths, files and buffers, whatever the resume
\* markers say, and in every order of transfers, writers and path switches, a
\* warp handed to a writer is made of its own nonces under its own file's seed,
\* as long as no work size exceeds COMPRESS_BATCH (ring_scheduler.rs).
THEOREM WarpsAreRight == ASSUME SmallWork PROVE Spec => []WarpsRight
<1>1. RingInv /\ DataInv => WarpsRight
  BY DEF DataInv
<1> QED
  BY <1>1, RingData, PTL

\* TransferUndisturbed: a transfer in flight reads a buffer that no pass writes
\* and writes one that is still held (wait_pending in ring_scheduler.rs).
THEOREM TransfersUndisturbed == ASSUME SmallWork PROVE Spec => []TransferUndisturbed
<1>1. RingInv /\ DataInv => TransferUndisturbed
  BY DEF DataInv
<1> QED
  BY <1>1, RingData, PTL

\* HandedInOrder: the held buffer begins where the writer's file ends, so that
\* the writer's check for a gap never fires, even after a lost buffer.
THEOREM BuffersInOrder == ASSUME SmallWork PROVE Spec => []HandedInOrder
<1>1. RingInv /\ DataInv => HandedInOrder
  BY DEF DataInv, FilesContinue, BufferFollows, HandedUpTo, HandedInOrder
<1> QED
  BY <1>1, RingData, PTL

=============================================================================
