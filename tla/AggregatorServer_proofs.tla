----------------------- MODULE AggregatorServer_proofs -----------------------
(* The aggregator's server.  First what the times of time_bending.rs promise  *)
(* for every precision, quality and base target: the search finds the exact  *)
(* root, and a better quality never has the later time.  Then the invariant  *)
(* of the cache, the statistics and the rows of the database.                *)
EXTENDS AggregatorServer, SequencesExt, WellFoundedInduction, TLAPS

-----------------------------------------------------------------------------
(* Numbers. *)

\* A set of naturals has a least element.
LEMMA LeastNat ==
  ASSUME NEW T \in SUBSET Nat, T # {}
  PROVE  \E x \in T : \A y \in T : x <= y
<1>1. \A x, y \in Nat : <<x, y>> \in OpToRel(<, Nat) <=> x < y
  BY DEF OpToRel
<1>2. \E x \in T : \A y \in T : ~ (<<y, x>> \in OpToRel(<, Nat))
  BY WFMin, NatLessThanWellFounded, Zenon
<1>3. \E x \in T : \A y \in T : ~ (y < x)
  BY <1>1, <1>2, Zenon
<1> QED
  BY <1>3

\* A bounded set of naturals has a greatest element.
LEMMA GreatestNat ==
  ASSUME NEW n \in Nat, NEW T \in SUBSET (0 .. n), T # {}
  PROVE  \E x \in T : \A y \in T : y <= x
<1> DEFINE U == {n - d : d \in T}
<1>0. \A d \in T : n - d \in Nat /\ d \in Int
  OBVIOUS
<1>1. U \in SUBSET Nat /\ U # {}
  BY <1>0
<1>2. PICK u \in U : \A v \in U : u <= v
  BY <1>1, LeastNat
<1>3. PICK x \in T : u = n - x
  OBVIOUS
<1>4. \A y \in T : n - x <= n - y
  BY <1>2, <1>3
<1>5. \A y \in T : y <= x
  BY <1>4, <1>0
<1> QED
  BY <1>5

\* Division keeps the order.
LEMMA QuotientMonotone ==
  ASSUME NEW a \in Nat, NEW b \in Nat, NEW c \in Nat \ {0}, a <= b
  PROVE  a \div c <= b \div c
OBVIOUS

-----------------------------------------------------------------------------
(* The set of a sequence's elements. *)

\* Append adds one element.
LEMMA ElementsOfAppend ==
  ASSUME NEW S, NEW s \in Seq(S), NEW e \in S
  PROVE  ToSet(Append(s, e)) = ToSet(s) \cup {e}
<1>1. /\ DOMAIN Append(s, e) = 1 .. Len(s) + 1 /\ DOMAIN s = 1 .. Len(s) /\ Len(s) \in Nat
      /\ \A i \in 1 .. Len(s) : Append(s, e)[i] = s[i]
      /\ Append(s, e)[Len(s) + 1] = e
  OBVIOUS
<1> QED
  BY <1>1 DEF ToSet

\* The elements are the head and those of the tail.
LEMMA ElementsOfTail ==
  ASSUME NEW S, NEW s \in Seq(S), s # <<>>
  PROVE  ToSet(s) = {Head(s)} \cup ToSet(Tail(s))
<1>1. /\ Len(s) \in Nat \ {0} /\ DOMAIN s = 1 .. Len(s) /\ Head(s) = s[1]
      /\ DOMAIN Tail(s) = 1 .. Len(s) - 1
      /\ \A i \in 1 .. Len(s) - 1 : Tail(s)[i] = s[i + 1]
  OBVIOUS
<1>2. ASSUME NEW x \in ToSet(s) PROVE x \in {Head(s)} \cup ToSet(Tail(s))
  <2>1. PICK i \in 1 .. Len(s) : x = s[i]
    BY <1>1 DEF ToSet
  <2>2. CASE i = 1
    BY <1>1, <2>1, <2>2
  <2>3. CASE i # 1
    <3>1. i - 1 \in 1 .. Len(s) - 1 /\ s[i] = Tail(s)[i - 1]
      BY <1>1, <2>1, <2>3
    <3> QED
      BY <1>1, <2>1, <3>1 DEF ToSet
  <2> QED
    BY <2>2, <2>3
<1>3. ASSUME NEW x \in {Head(s)} \cup ToSet(Tail(s)) PROVE x \in ToSet(s)
  <2>1. CASE x = Head(s)
    BY <1>1, <2>1 DEF ToSet
  <2>2. CASE x \in ToSet(Tail(s))
    <3>1. PICK i \in 1 .. Len(s) - 1 : x = Tail(s)[i]
      BY <1>1, <2>2 DEF ToSet
    <3>2. i + 1 \in 1 .. Len(s) /\ x = s[i + 1]
      BY <1>1, <3>1
    <3> QED
      BY <1>1, <3>2 DEF ToSet
  <2> QED
    BY <1>3, <2>1, <2>2
<1> QED
  BY <1>2, <1>3

\* A product keeps the order of its arguments.
LEMMA ProductMonotone ==
  ASSUME NEW a \in Nat, NEW b \in Nat, NEW c \in Nat, NEW d \in Nat, a <= b, c <= d
  PROVE  a * c <= b * d
<1>1. a * c <= b * c
  OBVIOUS
<1>2. b * c <= b * d
  OBVIOUS
<1>3. a * c \in Nat /\ b * c \in Nat /\ b * d \in Nat
  OBVIOUS
<1> QED
  BY <1>1, <1>2, <1>3

LEMMA CubeMonotone ==
  ASSUME NEW a \in Nat, NEW b \in Nat, a <= b
  PROVE  Cube(a) \in Nat /\ Cube(b) \in Nat /\ Cube(a) <= Cube(b)
<1>1. a * a \in Nat /\ b * b \in Nat /\ a * a <= b * b
  BY ProductMonotone
<1>2. (a * a) * a <= (b * b) * b
  BY <1>1, ProductMonotone
<1>3. (a * a) * a \in Nat /\ (b * b) * b \in Nat
  BY <1>1
<1> QED
  BY <1>2, <1>3 DEF Cube

\* The root of a number grows with it (time_bending.rs:27).
LEMMA RootMonotone ==
  ASSUME NEW x \in Nat, NEW y \in Nat, x <= y, NEW r, NEW s, IsRoot(r, x), IsRoot(s, y)
  PROVE  r <= s
<1>1. r \in Nat /\ s \in Nat /\ Cube(r) <= x /\ y < Cube(s + 1)
  BY DEF IsRoot
<1>2. SUFFICES ASSUME s + 1 <= r PROVE FALSE
  BY <1>1
<1>3. Cube(s + 1) <= Cube(r) /\ Cube(s + 1) \in Nat /\ Cube(r) \in Nat
  BY <1>1, <1>2, CubeMonotone
<1> QED
  BY <1>1, <1>3

\* There is one root only: whatever the search ends with, it is the same.
THEOREM RootUnique ==
  ASSUME NEW x \in Nat, NEW r, NEW s, IsRoot(r, x), IsRoot(s, x)
  PROVE  r = s
<1>1. r <= s /\ s <= r
  BY RootMonotone
<1> QED
  BY <1>1 DEF IsRoot

-----------------------------------------------------------------------------
(* The search.                                                               *)

\* The root of x is between the bounds of the search.
Between(x, b) ==
    /\ b \in [lo : Nat, hi : Nat] /\ b.lo <= b.hi
    /\ Cube(b.lo) <= x /\ x < Cube(b.hi + 1)

\* Every round keeps the root between the bounds and brings them closer, and
\* when they meet they are the root: the loop ends, and with the exact root
\* rounded down (time_bending.rs:35).
THEOREM SearchFindsRoot ==
  ASSUME NEW x \in Nat, NEW b, Between(x, b)
  PROVE  /\ b.lo < b.hi => /\ Between(x, Bisect(x, b))
                           /\ Bisect(x, b).hi - Bisect(x, b).lo < b.hi - b.lo
         /\ b.lo = b.hi => IsRoot(b.lo, x)
<1>1. b \in [lo : Nat, hi : Nat] /\ b.lo \in Nat /\ b.hi \in Nat
  BY DEF Between
<1>2. ASSUME b.lo < b.hi
      PROVE  /\ Between(x, Bisect(x, b))
             /\ Bisect(x, b).hi - Bisect(x, b).lo < b.hi - b.lo
  <2> DEFINE m == Mid(b)
  <2>1. m \in Nat /\ b.lo < m /\ m <= b.hi
    BY <1>1, <1>2 DEF Mid
  <2>2. CASE Cube(m) <= x
    <3>1. /\ Bisect(x, b) \in [lo : Nat, hi : Nat]
          /\ Bisect(x, b).lo = m /\ Bisect(x, b).hi = b.hi
      BY <1>1, <2>1, <2>2 DEF Bisect
    <3> QED
      BY <1>1, <2>1, <2>2, <3>1 DEF Between
  <2>3. CASE ~(Cube(m) <= x)
    <3>1. /\ Bisect(x, b) \in [lo : Nat, hi : Nat]
          /\ Bisect(x, b).lo = b.lo /\ Bisect(x, b).hi = m - 1
      BY <1>1, <2>1, <2>3 DEF Bisect
    <3>2. Cube(m) \in Nat /\ (m - 1) + 1 = m
      BY <2>1, CubeMonotone
    <3>3. x < Cube((m - 1) + 1)
      BY <2>3, <3>2
    <3> QED
      BY <1>1, <2>1, <3>1, <3>3 DEF Between
  <2> QED
    BY <2>2, <2>3
<1>3. b.lo = b.hi => IsRoot(b.lo, x)
  BY <1>1 DEF Between, IsRoot
<1> QED
  BY <1>2, <1>3

\* The search starts with the root between its bounds: upper is the first power
\* of two whose cube is not below x, and half of it is still below x.
LEMMA SearchStarts ==
  ASSUME NEW x \in Nat, NEW upper \in Nat \ {0}, x <= Cube(upper),
         upper = 1 \/ Cube(upper \div 2) < x
  PROVE  Between(x, [lo |-> upper \div 2, hi |-> upper])
<1>1. upper \div 2 \in Nat /\ upper \div 2 <= upper
  OBVIOUS
<1>2. Cube(upper \div 2) <= x
  <2>1. CASE upper = 1
    <3>1. upper \div 2 = 0
      BY <2>1
    <3> QED
      BY <3>1 DEF Cube
  <2>2. CASE Cube(upper \div 2) < x
    <3>1. Cube(upper \div 2) \in Nat
      BY <1>1, CubeMonotone
    <3> QED
      BY <2>2, <3>1
  <2> QED
    BY <2>1, <2>2
<1>3. Cube(upper) < Cube(upper + 1)
  <2>1. upper * upper \in Nat /\ upper * upper <= (upper + 1) * (upper + 1)
    BY ProductMonotone
  <2>2. (upper * upper) * upper < (upper * upper) * upper + upper * upper
    OBVIOUS
  <2>3. (upper * upper) * (upper + 1) = (upper * upper) * upper + upper * upper
    OBVIOUS
  <2>4. (upper * upper) * (upper + 1) <= ((upper + 1) * (upper + 1)) * (upper + 1)
    BY <2>1, ProductMonotone
  <2> QED
    BY <2>2, <2>3, <2>4 DEF Cube
<1>4. Cube(upper) \in Nat /\ Cube(upper + 1) \in Nat
  BY CubeMonotone
<1> QED
  BY <1>1, <1>2, <1>3, <1>4 DEF Between

-----------------------------------------------------------------------------
(* The times.                                                                *)

LEMMA RatioMonotone ==
  ASSUME NEW p \in Nat, NEW q \in Nat, NEW base \in Nat \ {0}, p <= q
  PROVE  Ratio(p, base) \in Nat /\ Ratio(q, base) \in Nat /\ Ratio(p, base) <= Ratio(q, base)
<1>1. 2^(3 * P) \in Nat
  BY PowersAssumption
<1>2. p * 2^(3 * P) \in Nat /\ q * 2^(3 * P) \in Nat /\ p * 2^(3 * P) <= q * 2^(3 * P)
  BY <1>1, ProductMonotone
<1> QED
  BY <1>2, QuotientMonotone DEF Ratio

LEMMA TimeMonotone ==
  ASSUME NEW scale \in Nat, NEW r \in Nat, NEW s \in Nat, r <= s
  PROVE  TimeOf(scale, r) <= TimeOf(scale, s)
<1> DEFINE unit == 2^(P + Q)
<1>1. unit \in Nat \ {0}
  BY PowersAssumption
<1> HIDE DEF unit
<1>2. scale * r \in Nat /\ scale * s \in Nat /\ scale * r <= scale * s
  BY ProductMonotone
<1>3. unit \div 2 \in Nat
  BY <1>1
<1>4. /\ scale * r + unit \div 2 \in Nat /\ scale * s + unit \div 2 \in Nat
      /\ scale * r + unit \div 2 <= scale * s + unit \div 2
  BY <1>2, <1>3
<1>5. (scale * r + unit \div 2) \div unit <= (scale * s + unit \div 2) \div unit
  BY <1>1, <1>4, QuotientMonotone
<1> QED
  BY <1>5 DEF TimeOf, Rounded, unit

\* The better of two qualities never has the later time: dividing, rooting,
\* scaling and rounding keep their order, at every precision and base target
\* (time_bending.rs:76).  What a dashboard shows ranks miners as the raw
\* qualities do.
THEOREM BetterIsSooner ==
  ASSUME NEW p \in Nat, NEW q \in Nat, p <= q, NEW base \in Nat \ {0},
         NEW scale \in Nat, NEW r, NEW s,
         IsRoot(r, Ratio(p, base)), IsRoot(s, Ratio(q, base))
  PROVE  TimeOf(scale, r) <= TimeOf(scale, s)
<1>1. /\ Ratio(p, base) \in Nat /\ Ratio(q, base) \in Nat
      /\ Ratio(p, base) <= Ratio(q, base)
  BY RatioMonotone
<1>2. r <= s
  BY <1>1, RootMonotone
<1>3. r \in Nat /\ s \in Nat
  BY DEF IsRoot
<1> QED
  BY <1>2, <1>3, TimeMonotone
-----------------------------------------------------------------------------
(* The loops are recursive functions; that there are such functions, and     *)
(* that any of them gives the root, takes an argument of its own.            *)

\* The naturals reached from h by doubling: in every set closed under it.
Closed(D) == D \subseteq Nat /\ \A d \in D : 2 * d \in D
Doubles(h) == {n \in Nat : \A D \in SUBSET Nat : h \in D /\ Closed(D) => n \in D}

LEMMA DoublesStep ==
  ASSUME NEW h \in Nat
  PROVE  /\ h \in Doubles(h)
         /\ \A n \in Doubles(h) : n \in Nat /\ h <= n
         /\ \A n \in Nat : n \in Doubles(h) <=> n = h \/ n \in Doubles(2 * h)
<1>1. h \in Doubles(h)
  BY DEF Doubles
<1>2. ASSUME NEW n \in Doubles(h) PROVE n \in Nat /\ h <= n
  <2> DEFINE D == {m \in Nat : h <= m}
  <2>1. D \in SUBSET Nat /\ h \in D /\ Closed(D)
    BY DEF Closed
  <2>2. n \in D
    BY <1>2, <2>1 DEF Doubles
  <2> QED
    BY <2>2
<1>3. ASSUME NEW n \in Doubles(h), n # h PROVE n \in Doubles(2 * h)
  <2>1. SUFFICES ASSUME NEW D \in SUBSET Nat, 2 * h \in D, Closed(D) PROVE n \in D
    BY <1>2 DEF Doubles
  <2> DEFINE E == D \cup {h}
  <2>2. E \in SUBSET Nat /\ h \in E /\ Closed(E)
    BY <2>1 DEF Closed
  <2>3. n \in E
    BY <1>3, <2>2 DEF Doubles
  <2> QED
    BY <1>3, <2>3
<1>4. ASSUME NEW n \in Doubles(2 * h) PROVE n \in Doubles(h)
  <2>1. SUFFICES ASSUME NEW D \in SUBSET Nat, h \in D, Closed(D) PROVE n \in D
    BY <1>4 DEF Doubles
  <2>2. 2 * h \in D
    BY <2>1 DEF Closed
  <2> QED
    BY <1>4, <2>1, <2>2 DEF Doubles
<1> QED
  BY <1>1, <1>2, <1>3, <1>4

\* A function that doubles until the cube is large enough, and one that halves
\* the interval until it is closed.
IsDoubling(f, x) == f = [h \in Nat |-> IF Cube(h) < x THEN f[2 * h] ELSE h]
Intervals == [lo : Nat, hi : Nat]
IsSearch(f, x) == f = [b \in Intervals |-> IF b.lo < b.hi THEN f[Bisect(x, b)] ELSE b.lo]

LEMMA CubeAbove ==
  ASSUME NEW n \in Nat
  PROVE  Cube(n) \in Nat /\ n <= Cube(n)
<1>1. CASE n = 0
  BY <1>1 DEF Cube
<1>2. CASE n # 0
  <2>1. n * n \in Nat /\ 1 * 1 <= n * n
    BY <1>2, ProductMonotone
  <2>2. 1 * n <= (n * n) * n
    BY <2>1, ProductMonotone
  <2> QED
    BY <2>1, <2>2, CubeMonotone DEF Cube
<1> QED
  BY <1>1, <1>2

\* There is a doubling: it takes the least of the doubles that is large enough.
LEMMA DoublingExists ==
  ASSUME NEW x \in Nat
  PROVE  \E f : IsDoubling(f, x)
<1> DEFINE Enough(h) == {m \in Doubles(h) : ~(Cube(m) < x)}
           f == [h \in Nat |-> CHOOSE m \in Enough(h) : \A n \in Enough(h) : m <= n]
<1>1. ASSUME NEW h \in Nat PROVE f[h] = IF Cube(h) < x THEN f[2 * h] ELSE h
  <2>1. CASE Cube(h) < x
    <3>1. Enough(h) = Enough(2 * h)
      BY <2>1, DoublesStep
    <3> QED
      BY <2>1, <3>1
  <2>2. CASE ~(Cube(h) < x)
    <3>1. h \in Enough(h) /\ \A n \in Enough(h) : n \in Nat /\ h <= n
      BY <2>2, DoublesStep
    <3>2. \A m \in Enough(h) : (\A n \in Enough(h) : m <= n) => m = h
      BY <3>1
    <3> HIDE DEF Enough
    <3>3. (CHOOSE m \in Enough(h) : \A n \in Enough(h) : m <= n) = h
      BY <3>1, <3>2, Zenon
    <3> QED
      BY <2>2, <3>3
  <2> QED
    BY <2>1, <2>2
<1>2. f = [h \in Nat |-> f[h]]
  OBVIOUS
<1> HIDE DEF f
<1>3. f = [h \in Nat |-> IF Cube(h) < x THEN f[2 * h] ELSE h]
  BY <1>1, <1>2, Zenon
<1> QED
  BY <1>3 DEF IsDoubling

\* Any doubling stops at the first power of two whose cube is not below x: were
\* there a place from which it does not, there would be a last one.
LEMMA DoublingRight ==
  ASSUME NEW x \in Nat, NEW f, IsDoubling(f, x)
  PROVE  f[1] \in Nat \ {0} /\ x <= Cube(f[1]) /\ (f[1] = 1 \/ Cube(f[1] \div 2) < x)
<1> DEFINE Starts(h) == h = 1 \/ Cube(h \div 2) < x
           Right(u) == u \in Nat \ {0} /\ x <= Cube(u) /\ Starts(u)
           Bad == {h \in 1 .. x : Starts(h) /\ ~Right(f[h])}
<1>1. \A h \in Nat : f[h] = IF Cube(h) < x THEN f[2 * h] ELSE h
  BY Zenon DEF IsDoubling
<1>2. ASSUME NEW h \in Nat \ {0}, Starts(h), ~(Cube(h) < x) PROVE Right(f[h])
  <2>1. f[h] = h /\ Cube(h) \in Nat
    BY <1>1, <1>2, CubeAbove
  <2> QED
    BY <1>2, <2>1
<1>3. ASSUME NEW h \in Nat \ {0}, Starts(h), h > x PROVE Right(f[h])
  BY <1>2, <1>3, CubeAbove
<1>4. Bad = {}
  <2>1. SUFFICES ASSUME Bad # {} PROVE FALSE
    OBVIOUS
  <2>2. Bad \in SUBSET (0 .. x)
    OBVIOUS
  <2> HIDE DEF Bad
  <2>3. PICK h \in Bad : \A g \in Bad : g <= h
    BY <2>1, <2>2, GreatestNat
  <2> USE DEF Bad
  <2>4. h \in Nat \ {0} /\ Starts(h) /\ ~Right(f[h]) /\ h <= x
    BY <2>3
  <2>5. Cube(h) < x
    BY <1>2, <2>4
  <2>6. f[h] = f[2 * h] /\ 2 * h \in Nat \ {0} /\ (2 * h) \div 2 = h
    BY <1>1, <2>4, <2>5
  <2>7. Starts(2 * h)
    BY <2>5, <2>6
  <2>8. ~Right(f[2 * h])
    BY <2>4, <2>6
  <2>9. ~(2 * h > x)
    BY <1>3, <2>6, <2>7, <2>8
  <2>10. 2 * h \in Bad
    BY <2>6, <2>7, <2>8, <2>9
  <2>11. 2 * h <= h
    BY <2>3, <2>10
  <2> QED
    BY <2>4, <2>11
<1>5. 1 \in Nat \ {0} /\ Starts(1)
  OBVIOUS
<1>6. Right(f[1])
  <2>1. CASE 1 > x
    BY <1>3, <1>5, <2>1
  <2>2. CASE ~(1 > x)
    BY <1>4, <1>5, <2>2
  <2> QED
    BY <2>1, <2>2
<1> QED
  BY <1>6

LEMMA BisectInterval ==
  ASSUME NEW x \in Nat, NEW b \in Intervals, b.lo < b.hi
  PROVE  /\ Mid(b) \in Nat /\ b.lo < Mid(b) /\ Mid(b) <= b.hi
         /\ Bisect(x, b) \in Intervals
         /\ Cube(Mid(b)) <= x => Bisect(x, b).lo = Mid(b) /\ Bisect(x, b).hi = b.hi
         /\ ~(Cube(Mid(b)) <= x) => Bisect(x, b).lo = b.lo /\ Bisect(x, b).hi = Mid(b) - 1
<1>1. Mid(b) \in Nat /\ b.lo < Mid(b) /\ Mid(b) <= b.hi
  BY DEF Mid, Intervals
<1>2. Mid(b) - 1 \in Nat
  BY <1>1 DEF Intervals
<1> QED
  BY <1>1, <1>2 DEF Bisect, Intervals

\* There is a search: it takes the greatest number of the interval whose cube
\* is not above x, or the lower end.
LEMMA SearchExists ==
  ASSUME NEW x \in Nat
  PROVE  \E f : IsSearch(f, x)
<1> DEFINE Below(b) == {m \in b.lo .. b.hi : m = b.lo \/ Cube(m) <= x}
           f == [b \in Intervals |->
                    IF b.lo < b.hi THEN CHOOSE m \in Below(b) : \A n \in Below(b) : n <= m ELSE b.lo]
<1>1. ASSUME NEW b \in Intervals, b.lo < b.hi PROVE f[b] = f[Bisect(x, b)]
  <2> DEFINE c == Bisect(x, b)
  <2>1. b.lo \in Nat /\ b.hi \in Nat /\ c \in Intervals /\ c.lo \in Nat /\ c.hi \in Nat
    BY <1>1, BisectInterval DEF Intervals
  <2>2. f[b] = CHOOSE m \in Below(b) : \A n \in Below(b) : n <= m
    BY <1>1
  <2>3. c.lo <= c.hi
    BY <1>1, <2>1, BisectInterval
  <2>4. f[c] = CHOOSE m \in Below(c) : \A n \in Below(c) : n <= m
    <3>1. CASE c.lo < c.hi
      BY <2>1, <3>1
    <3>2. CASE ~(c.lo < c.hi)
      <4>1. f[c] = c.lo /\ c.lo = c.hi
        BY <2>1, <2>3, <3>2
      <4>2. \A m : m \in Below(c) <=> m = c.lo
        BY <2>1, <4>1
      <4>3. \A m \in Below(c) : (\A n \in Below(c) : n <= m) <=> m = c.lo
        BY <2>1, <4>2
      <4>4. c.lo \in Below(c)
        BY <4>2
      <4> HIDE DEF Below, c, f
      <4>5. (CHOOSE m \in Below(c) : \A n \in Below(c) : n <= m) = c.lo
        BY <4>3, <4>4, Zenon
      <4> QED
        BY <4>1, <4>5
    <3> QED
      BY <3>1, <3>2
  <2>5. \A m : (m \in Below(b) /\ \A n \in Below(b) : n <= m)
               <=> (m \in Below(c) /\ \A n \in Below(c) : n <= m)
    <3>1. CASE Cube(Mid(b)) <= x
      <4>1. c.lo = Mid(b) /\ c.hi = b.hi /\ Mid(b) \in Nat /\ b.lo < Mid(b) /\ Mid(b) <= b.hi
        BY <1>1, <3>1, BisectInterval
      <4>2. Mid(b) \in Below(b) /\ Mid(b) \in Below(c)
        BY <2>1, <3>1, <4>1
      <4>3. \A m : m \in Below(c) <=> m \in Below(b) /\ Mid(b) <= m
        BY <2>1, <3>1, <4>1
      <4>4. \A m \in Below(b) : m \in Nat
        BY <2>1
      <4> HIDE DEF Below, c, f
      <4> QED
        BY <4>1, <4>2, <4>3, <4>4
    <3>2. CASE ~(Cube(Mid(b)) <= x)
      <4>1. c.lo = b.lo /\ c.hi = Mid(b) - 1 /\ Mid(b) \in Nat /\ b.lo < Mid(b) /\ Mid(b) <= b.hi
        BY <1>1, <3>2, BisectInterval
      <4>2. \A m \in Nat : Mid(b) <= m => ~(Cube(m) <= x)
        BY <3>2, <4>1, CubeMonotone
      <4>3. \A m : m \in Below(c) <=> m \in Below(b)
        BY <2>1, <4>1, <4>2
      <4> HIDE DEF Below, c, f
      <4> QED
        BY <4>3
    <3> QED
      BY <3>1, <3>2
  <2> HIDE DEF Below, c, f
  <2>6. (CHOOSE m \in Below(b) : \A n \in Below(b) : n <= m)
          = CHOOSE m \in Below(c) : \A n \in Below(c) : n <= m
    BY <2>5, Zenon
  <2>7. f[b] = f[c]
    BY <2>2, <2>4, <2>6
  <2> QED
    BY <2>7 DEF c
<1>2. \A b \in Intervals : f[b] = IF b.lo < b.hi THEN f[Bisect(x, b)] ELSE b.lo
  <2>1. ASSUME NEW b \in Intervals, ~(b.lo < b.hi) PROVE f[b] = b.lo
    BY <2>1
  <2> HIDE DEF f
  <2> QED
    BY <1>1, <2>1
<1>3. f = [b \in Intervals |-> f[b]]
  OBVIOUS
<1> HIDE DEF f
<1>4. f = [b \in Intervals |-> IF b.lo < b.hi THEN f[Bisect(x, b)] ELSE b.lo]
  BY <1>2, <1>3, Zenon
<1> QED
  BY <1>4 DEF IsSearch

\* Any search ends at the root: were there intervals at which it does not, a
\* shortest of them would have a round that leads to a shorter one.
LEMMA SearchRight ==
  ASSUME NEW x \in Nat, NEW f, IsSearch(f, x), NEW b, Between(x, b)
  PROVE  IsRoot(f[b], x)
<1> DEFINE Bad == {n \in Nat : \E c \in Intervals :
                       Between(x, c) /\ c.hi - c.lo = n /\ ~IsRoot(f[c], x)}
<1>1. \A c \in Intervals : f[c] = IF c.lo < c.hi THEN f[Bisect(x, c)] ELSE c.lo
  BY Zenon DEF IsSearch
<1>2. \A c : Between(x, c) => c \in Intervals /\ c.lo \in Nat /\ c.hi \in Nat /\ c.lo <= c.hi
  BY DEF Between, Intervals
<1>3. Bad = {}
  <2>1. SUFFICES ASSUME Bad # {} PROVE FALSE
    OBVIOUS
  <2>2. Bad \in SUBSET Nat
    OBVIOUS
  <2> HIDE DEF Bad
  <2>3. PICK n \in Bad : \A m \in Bad : n <= m
    BY <2>1, <2>2, LeastNat
  <2> USE DEF Bad
  <2>4. PICK c \in Intervals : Between(x, c) /\ c.hi - c.lo = n /\ ~IsRoot(f[c], x)
    BY <2>3
  <2>5. CASE c.lo < c.hi
    <3> DEFINE d == Bisect(x, c)
    <3>1. Between(x, d) /\ d.hi - d.lo < c.hi - c.lo
      BY <2>4, <2>5, SearchFindsRoot
    <3>2. ~IsRoot(f[d], x)
      BY <1>1, <2>4, <2>5
    <3>3. d \in Intervals /\ d.lo \in Nat /\ d.hi \in Nat /\ d.lo <= d.hi
      BY <1>2, <3>1
    <3> HIDE DEF d
    <3>4. d.hi - d.lo \in Bad
      BY <3>1, <3>2, <3>3
    <3>5. n <= d.hi - d.lo
      BY <2>3, <3>4
    <3> QED
      BY <1>2, <2>4, <3>1, <3>3, <3>5
  <2>6. CASE ~(c.lo < c.hi)
    <3>1. c.lo = c.hi /\ f[c] = c.lo
      BY <1>1, <1>2, <2>4, <2>6
    <3> QED
      BY <2>4, <3>1, SearchFindsRoot
  <2> QED
    BY <2>5, <2>6
<1>4. SUFFICES ASSUME ~IsRoot(f[b], x) PROVE FALSE
  OBVIOUS
<1>5. b.hi - b.lo \in Nat /\ b \in Intervals
  BY <1>2
<1>6. b.hi - b.lo \in Bad
  BY <1>4, <1>5
<1> QED
  BY <1>3, <1>6

\* The root of every number is found, exactly (time_bending.rs:27).
THEOREM RootIsExact ==
  ASSUME NEW x \in Nat
  PROVE  IsRoot(int_cuberoot(x), x)
<1> DEFINE double == CHOOSE f : f = [h \in Nat |-> IF Cube(h) < x THEN f[2 * h] ELSE h]
           search == CHOOSE f : f = [b \in [lo : Nat, hi : Nat] |->
                                        IF b.lo < b.hi THEN f[Bisect(x, b)] ELSE b.lo]
<1>1. IsDoubling(double, x)
  <2>1. \E f : f = [h \in Nat |-> IF Cube(h) < x THEN f[2 * h] ELSE h]
    BY DoublingExists, Zenon DEF IsDoubling
  <2> QED
    BY <2>1, Zenon DEF IsDoubling
<1>2. IsSearch(search, x)
  <2>1. \E f : f = [b \in [lo : Nat, hi : Nat] |->
                       IF b.lo < b.hi THEN f[Bisect(x, b)] ELSE b.lo]
    BY SearchExists, Zenon DEF IsSearch, Intervals
  <2> QED
    BY <2>1, Zenon DEF IsSearch, Intervals
<1>3. Upper(x) = double[1]
  BY Zenon DEF Upper
<1>4. int_cuberoot(x) = search[[lo |-> Upper(x) \div 2, hi |-> Upper(x)]]
  BY Zenon DEF int_cuberoot
<1> HIDE DEF double, search
<1>5. /\ Upper(x) \in Nat \ {0} /\ x <= Cube(Upper(x))
      /\ Upper(x) = 1 \/ Cube(Upper(x) \div 2) < x
  BY <1>1, <1>3, DoublingRight
<1>6. Between(x, [lo |-> Upper(x) \div 2, hi |-> Upper(x)])
  BY <1>5, SearchStarts
<1> QED
  BY <1>2, <1>4, <1>6, SearchRight

\* The scale is a number: it is calculated once, of the block time.
LEMMA ScaleType == QScale \in Nat
<1> DEFINE root == int_cuberoot(BlockTime * 2^(3 * Q))
           mean == (root * Gamma) \div 2^Q
           time == BlockTime * 2^(2 * Q)
<1>1. /\ 2^Q \in Nat \ {0} /\ 2^(2 * Q) \in Nat /\ 2^(3 * Q) \in Nat
      /\ BlockTime \in Nat /\ Gamma \in Nat
  BY PowersAssumption, BlockTimeAssumption
<1>2. BlockTime * 2^(3 * Q) \in Nat /\ time \in Nat
  BY <1>1
<1>3. root \in Nat
  BY <1>2, RootIsExact DEF IsRoot
<1>4. mean > 0
  BY ScaleAssumption
<1> HIDE DEF root, time
<1>5. root * Gamma \in Nat
  BY <1>1, <1>3
<1>6. mean \in Nat
  BY <1>1, <1>5
<1> HIDE DEF mean
<1>7. Rounded(time, mean) \in Nat
  <2>1. mean \div 2 \in Nat /\ mean \in Nat \ {0}
    BY <1>4, <1>6
  <2>2. time + mean \div 2 \in Nat
    BY <1>2, <2>1
  <2> QED
    BY <2>1, <2>2 DEF Rounded
<1> QED
  BY <1>7 DEF QScale, Scale, root, mean, time

\* The times shown follow the qualities, with the roots the search finds: of two
\* qualities of a block, the better never has the later time (time_bending.rs:76).
THEOREM TimesFollowQualities ==
  ASSUME NEW p \in Nat, NEW q \in Nat, p <= q, NEW base \in Nat \ {0}
  PROVE  /\ IsRoot(int_cuberoot(Ratio(p, base)), Ratio(p, base))
         /\ PocTime(p, base) <= PocTime(q, base)
<1>1. Ratio(p, base) \in Nat /\ Ratio(q, base) \in Nat
  BY RatioMonotone
<1>2. /\ IsRoot(int_cuberoot(Ratio(p, base)), Ratio(p, base))
      /\ IsRoot(int_cuberoot(Ratio(q, base)), Ratio(q, base))
  BY <1>1, RootIsExact
<1>3. TimeOf(QScale, int_cuberoot(Ratio(p, base))) <= TimeOf(QScale, int_cuberoot(Ratio(q, base)))
  BY <1>2, ScaleType, BetterIsSooner
<1>4. TimeOf(QScale, int_cuberoot(Ratio(q, base))) \in Nat
  <2> DEFINE r == int_cuberoot(Ratio(q, base))
             unit == 2^(P + Q)
  <2>1. r \in Nat
    BY <1>2 DEF IsRoot
  <2>2. unit \in Nat \ {0}
    BY PowersAssumption
  <2> HIDE DEF r, unit
  <2>3. QScale * r \in Nat /\ unit \div 2 \in Nat
    BY <2>1, <2>2, ScaleType
  <2>4. QScale * r + unit \div 2 \in Nat
    BY <2>3
  <2>5. (QScale * r + unit \div 2) \div unit \in Nat
    BY <2>2, <2>4
  <2> QED
    BY <2>5 DEF TimeOf, Rounded, r, unit
<1>5. PocTime(p, base) <= PocTime(q, base)
  <2>1. CASE p = 0
    BY <1>4, <2>1 DEF PocTime
  <2>2. CASE p # 0
    <3>1. q # 0
      BY <2>2
    <3> QED
      BY <1>3, <2>2, <3>1 DEF PocTime
  <2> QED
    BY <2>1, <2>2
<1> QED
  BY <1>2, <1>5

-----------------------------------------------------------------------------
(* The inductive invariant of the server.                                    *)

\* The cache is not ahead of the upstream, and no answer on its way to the cache
\* is older than what is in it: only the holder of the lock stores.
CacheBehind ==
    /\ cache.block <= tip
    /\ \A r \in Pollers : pc[r] = "store" => cache.block <= got[r] /\ got[r] <= tip

\* A server that loads its rows has taken no request yet.
StartsQuiet ==
    loading # {} =>
        /\ channel = << >>
        /\ \A s \in Submitters : saving[s] = NoSub
        /\ \A r \in Pollers : pc[r] = "idle"

\* A miner's best is of its block.
OfItsBlock(m) == m # NoMiner => m.height \in DOMAIN m.perBlock /\ m.best >= m.perBlock[m.height]
AllOfTheirBlock == \A k \in Miners : OfItsBlock(miners[k])

\* A quality for the row of miner k at height h, q or better, is on its way.
Is(x, k, h, q) == x.miner = k /\ x.height = h /\ x.quality <= q
Underway(onWay, queue, k, h, q) ==
    \/ \E s \in Submitters : onWay[s] # NoSub /\ Is(onWay[s], k, h, q)
    \/ \E x \in ToSet(queue) : x.kind = "save" /\ Is(x, k, h, q)

\* The row is there, with q or better.
InTable(table, k, h, q) == <<k, h>> \in DOMAIN table /\ table[<<k, h>>] <= q

\* Every quality of the statistics that was neither expired nor refused is in
\* the table or on its way there.
Due(k, h) == h >= cut /\ <<k, h>> \notin unsaved
Kept(k, h, q) == Underway(saving, channel, k, h, q) \/ InTable(rows, k, h, q)
RowsBacked ==
    \A k \in Miners : \A h \in DOMAIN miners[k].perBlock :
        Due(k, h) => Kept(k, h, miners[k].perBlock[h])

IInv == TypeOK /\ NoHerd /\ CacheBehind /\ StartsQuiet /\ AllOfTheirBlock /\ RowsBacked

-----------------------------------------------------------------------------
(* What record_submission makes of a miner's statistics.                     *)

LEMMA InfoType ==
  ASSUME NEW m \in Infos
  PROVE  /\ DOMAIN m.perBlock \in SUBSET Heights
         /\ \A h \in DOMAIN m.perBlock : m.perBlock[h] \in Qualities /\ m.perBlock[h] \in Nat
         /\ m # NoMiner => /\ m.height \in Heights /\ m.best \in Qualities /\ m.best \in Nat
                           /\ m = [height |-> m.height, best |-> m.best, perBlock |-> m.perBlock]
<1>1. CASE m = NoMiner
  <2>1. DOMAIN m.perBlock = {}
    BY <1>1 DEF NoMiner
  <2> QED
    BY <1>1, <2>1
<1>2. CASE m \in [height : Heights, best : Qualities, perBlock : Tables(Heights)]
  <2>1. PICK S \in SUBSET Heights : m.perBlock \in [S -> Qualities]
    BY <1>2 DEF Tables
  <2> QED
    BY <1>2, <2>1, QualitiesAssumption
<1> QED
  BY <1>1, <1>2 DEF Infos

\* The block submitted for is the miner's, with the better of what was known for
\* it and the new quality; of other blocks it keeps what it keeps.
LEMMA RecordedIs ==
  ASSUME NEW m \in Infos, NEW h \in Heights, NEW q \in Qualities
  PROVE  LET n == Recorded(m, h, q) IN
         /\ n \in Infos
         /\ h \in DOMAIN n.perBlock
         /\ n.perBlock[h] <= q
         /\ n.perBlock[h] = q \/ (h \in DOMAIN m.perBlock /\ n.perBlock[h] = m.perBlock[h])
         /\ \A g \in DOMAIN n.perBlock \ {h} : g \in DOMAIN m.perBlock /\ n.perBlock[g] = m.perBlock[g]
         /\ OfItsBlock(m) => OfItsBlock(n)
<1> DEFINE n == Recorded(m, h, q)
           known == IF h \in DOMAIN m.perBlock /\ m.perBlock[h] < q THEN m.perBlock[h] ELSE q
           all == With(m.perBlock, h, known)
           kept == {g \in DOMAIN all : g > h - Window}
<1>0. h \in Nat /\ q \in Nat /\ Window \in Nat \ {0}
  BY HeightsAssumption, QualitiesAssumption, BoundsAssumption
<1>1. CASE m = NoMiner
  <2> DEFINE one == With(m.perBlock, h, q)
  <2>1. n = [height |-> h, best |-> q, perBlock |-> one]
    BY <1>1 DEF Recorded
  <2>2. DOMAIN m.perBlock = {}
    BY <1>1 DEF NoMiner
  <2>3. one \in [{h} -> Qualities] /\ one[h] = q /\ DOMAIN one = {h}
    BY <2>2 DEF With
  <2> HIDE DEF one
  <2>4. n \in Infos
    BY <2>1, <2>3 DEF Infos, Tables
  <2>5. n.height = h /\ n.best = q /\ n.perBlock = one
    BY <2>1
  <2> HIDE DEF n
  <2> QED
    BY <1>0, <2>3, <2>4, <2>5 DEF OfItsBlock, n
<1>2. CASE m # NoMiner
  <2>1. /\ DOMAIN m.perBlock \in SUBSET Heights
        /\ \A g \in DOMAIN m.perBlock : m.perBlock[g] \in Qualities /\ m.perBlock[g] \in Nat
        /\ m.best \in Qualities /\ m.best \in Nat
    BY <1>2, InfoType
  <2>2. known \in Qualities /\ known \in Nat /\ known <= q
    BY <1>0, <2>1
  <2>3. /\ n.height = h
        /\ n.best = IF h = m.height /\ m.best < q THEN m.best ELSE q
        /\ n.perBlock = Restrict(all, kept)
        /\ n = [height |-> n.height, best |-> n.best, perBlock |-> n.perBlock]
    BY <1>2 DEF Recorded
  <2>4. known = q \/ (h \in DOMAIN m.perBlock /\ known = m.perBlock[h])
    OBVIOUS
  <2>5. m.perBlock[h] <= known \/ known = q
    BY <1>0, <2>1
  <2>6. OfItsBlock(m) => n.best >= known
    <3>1. CASE h = m.height /\ m.best < q
      <4>1. n.best = m.best
        BY <2>3, <3>1
      <4>2. OfItsBlock(m) => h \in DOMAIN m.perBlock /\ m.best >= m.perBlock[h]
        BY <1>2, <3>1 DEF OfItsBlock
      <4>3. OfItsBlock(m) => m.perBlock[h] < q /\ m.perBlock[h] \in Nat
        BY <1>0, <2>1, <3>1, <4>2
      <4> QED
        BY <4>1, <4>2, <4>3
    <3>2. CASE ~(h = m.height /\ m.best < q)
      <4>1. n.best = q
        BY <2>3, <3>2
      <4> QED
        BY <1>0, <2>2, <4>1
    <3> QED
      BY <3>1, <3>2
  <2> HIDE DEF known
  <2>7. /\ DOMAIN all = {h} \cup DOMAIN m.perBlock
        /\ all[h] = known
        /\ \A g \in DOMAIN m.perBlock \ {h} : all[g] = m.perBlock[g]
    BY DEF With
  <2> HIDE DEF all
  <2>8. kept \in SUBSET ({h} \cup DOMAIN m.perBlock) /\ h \in kept
    BY <1>0, <2>7
  <2> HIDE DEF kept
  <2>9. DOMAIN n.perBlock = kept /\ \A g \in kept : n.perBlock[g] = all[g]
    BY <2>3 DEF Restrict
  <2>10. \A g \in kept : n.perBlock[g] \in Qualities /\ g \in Heights
    BY <2>1, <2>2, <2>7, <2>8, <2>9
  <2>11. n.perBlock \in [kept -> Qualities]
    BY <2>3, <2>9, <2>10 DEF Restrict
  <2>12. n.perBlock \in Tables(Heights)
    BY <2>10, <2>11 DEF Tables
  <2>13. n.best \in Qualities
    BY <2>1, <2>3
  <2> HIDE DEF n
  <2>14. n \in Infos
    BY <2>3, <2>12, <2>13 DEF Infos
  <2>15. n.perBlock[h] = known
    BY <2>7, <2>8, <2>9
  <2>16. OfItsBlock(m) => OfItsBlock(n)
    BY <2>3, <2>6, <2>8, <2>9, <2>15 DEF OfItsBlock
  <2> QED
    BY <2>2, <2>4, <2>7, <2>8, <2>9, <2>14, <2>15, <2>16 DEF n
<1> QED
  BY <1>1, <1>2

-----------------------------------------------------------------------------
(* Types.                                                                    *)

\* A table over some keys, pointwise.
LEMMA TableType ==
  ASSUME NEW keys, NEW t
  PROVE  t \in Tables(keys) <=> /\ DOMAIN t \in SUBSET keys /\ t = [x \in DOMAIN t |-> t[x]]
                                /\ \A x \in DOMAIN t : t[x] \in Qualities
<1>1. ASSUME t \in Tables(keys)
      PROVE  /\ DOMAIN t \in SUBSET keys /\ t = [x \in DOMAIN t |-> t[x]]
             /\ \A x \in DOMAIN t : t[x] \in Qualities
  <2>1. PICK S \in SUBSET keys : t \in [S -> Qualities]
    BY <1>1 DEF Tables
  <2> QED
    BY <2>1
<1>2. ASSUME DOMAIN t \in SUBSET keys, t = [x \in DOMAIN t |-> t[x]],
             \A x \in DOMAIN t : t[x] \in Qualities
      PROVE  t \in Tables(keys)
  <2>1. t \in [DOMAIN t -> Qualities]
    BY <1>2
  <2> QED
    BY <1>2, <2>1 DEF Tables
<1> QED
  BY <1>1, <1>2

LEMMA UpsertIs ==
  ASSUME rows \in Tables(Miners \X Heights), NEW x \in Saves
  PROVE  LET row == <<x.miner, x.height>> IN
         /\ Upsert(x) \in Tables(Miners \X Heights)
         /\ row \in DOMAIN Upsert(x) /\ Upsert(x)[row] <= x.quality
         /\ \A y \in DOMAIN rows : y \in DOMAIN Upsert(x) /\ Upsert(x)[y] <= rows[y]
<1> DEFINE row == <<x.miner, x.height>>
           value == IF row \in DOMAIN rows /\ rows[row] <= x.quality THEN rows[row] ELSE x.quality
<1>1. x.quality \in Qualities /\ x.quality \in Nat /\ row \in Miners \X Heights
  BY QualitiesAssumption DEF Saves
<1>2. /\ DOMAIN rows \in SUBSET (Miners \X Heights)
      /\ \A y \in DOMAIN rows : rows[y] \in Qualities /\ rows[y] \in Nat
  BY TableType, QualitiesAssumption
<1>3. /\ value \in Qualities /\ value \in Nat /\ value <= x.quality
      /\ row \in DOMAIN rows => value <= rows[row]
  BY <1>1, <1>2
<1>4. Upsert(x) = With(rows, row, value)
  BY DEF Upsert
<1> HIDE DEF row, value
<1>5. /\ DOMAIN Upsert(x) = DOMAIN rows \cup {row}
      /\ Upsert(x) = [y \in DOMAIN rows \cup {row} |-> IF y = row THEN value ELSE rows[y]]
  BY <1>4 DEF With
<1>6. /\ Upsert(x)[row] = value
      /\ \A y \in DOMAIN rows \ {row} : Upsert(x)[y] = rows[y]
  BY <1>5
<1>7. \A y \in DOMAIN Upsert(x) : Upsert(x)[y] \in Qualities
  BY <1>2, <1>3, <1>5, <1>6
<1>8. Upsert(x) = [y \in DOMAIN Upsert(x) |-> Upsert(x)[y]]
  BY <1>5
<1>9. DOMAIN Upsert(x) \in SUBSET (Miners \X Heights)
  BY <1>1, <1>2, <1>5
<1>10. Upsert(x) \in Tables(Miners \X Heights)
  BY <1>7, <1>8, <1>9, TableType
<1>11. \A y \in DOMAIN rows : y \in DOMAIN Upsert(x) /\ Upsert(x)[y] <= rows[y]
  BY <1>2, <1>3, <1>5, <1>6
<1> QED
  BY <1>3, <1>5, <1>6, <1>10, <1>11 DEF row

LEMMA RestrictedTable ==
  ASSUME NEW keys, NEW t \in Tables(keys), NEW S \in SUBSET DOMAIN t
  PROVE  /\ Restrict(t, S) \in Tables(keys) /\ DOMAIN Restrict(t, S) = S
         /\ \A x \in S : Restrict(t, S)[x] = t[x]
<1>1. /\ DOMAIN Restrict(t, S) = S
      /\ \A x \in S : Restrict(t, S)[x] = t[x]
      /\ Restrict(t, S) = [x \in DOMAIN Restrict(t, S) |-> Restrict(t, S)[x]]
  BY DEF Restrict
<1>2. DOMAIN t \in SUBSET keys /\ \A x \in DOMAIN t : t[x] \in Qualities
  BY TableType
<1> QED
  BY <1>1, <1>2, TableType

LEMMA InitTypes ==
  ASSUME Init
  PROVE  TypeOK
<1>1. DOMAIN rows = {} /\ rows \in Tables(Miners \X Heights)
  <2>1. DOMAIN rows = {} /\ rows = [x \in DOMAIN rows |-> rows[x]]
    BY DEF Init
  <2> QED
    BY <2>1, TableType
<1>2. cache \in [block : Heights \union {NoBlock}, age : 0 .. TTL]
  BY BoundsAssumption DEF Init
<1>3. miners \in [Miners -> Infos] /\ saving \in [Submitters -> Saves \union {NoSub}]
  BY DEF Init, Infos
<1>4. channel \in Seq(Saves \cup Cleanups)
  BY DEF Init
<1>5. pc \in [Pollers -> {"idle", "lock", "ask", "store", "height", "target", "current"}]
  BY DEF Init
<1> QED
  BY <1>1, <1>2, <1>3, <1>4, <1>5, HeightsAssumption, BoundsAssumption DEF Init, TypeOK

Places == {"idle", "lock", "ask", "store", "height", "target", "current"}

\* The part of the types that is about pollers: the only one their steps touch.
PollerTypes ==
    /\ cache \in [block : Heights \union {NoBlock}, age : 0 .. TTL]
    /\ lock \in Pollers \union {Free}
    /\ pc \in [Pollers -> Places]
    /\ got \in [Pollers -> Heights \union {NoBlock}]
    /\ \A r \in Pollers : pc[r] \in {"store", "height", "target", "current"} => got[r] # NoBlock
    /\ {height, target, current} \subseteq Heights \union {NoBlock}

\* Those that are about the rest.
DataTypes ==
    /\ tip \in Heights
    /\ miners \in [Miners -> Infos]
    /\ saving \in [Submitters -> Saves \union {NoSub}]
    /\ rows \in Tables(Miners \X Heights)
    /\ loading \subseteq DOMAIN rows
    /\ unsaved \subseteq Miners \X Heights /\ cut \in Nat
    /\ subs \in 0 .. MaxSubs

LEMMA TypesSplit ==
  TypeOK <=> /\ PollerTypes /\ DataTypes
             /\ channel \in Seq(Saves \union Cleanups) /\ faults \in 0 .. MaxFaults
BY DEF TypeOK, PollerTypes, DataTypes, Places

LEMMA FailureType ==
  ASSUME faults \in 0 .. MaxFaults, faults < MaxFaults, faults' = faults + 1
  PROVE  faults' \in 0 .. MaxFaults
BY BoundsAssumption

\* A poller's step keeps the types: it has a block when it stores it.
LEMMA PollerKeepsTypes ==
  ASSUME TypeOK, NEW r \in Pollers, Poll(r) \/ AnswerFails(r) \/ Handle(r)
  PROVE  TypeOK'
<1>1. PollerTypes /\ DataTypes /\ channel \in Seq(Saves \union Cleanups) /\ faults \in 0 .. MaxFaults
  BY TypesSplit
<1>2. UNCHANGED <<tip, miners, saving, rows, subs, unsaved, cut, loading>>
  BY DEF Poll, AnswerFails, Handle, Acquire, Answer, Store, UpdateHeight, UpdateBaseTarget,
         StoreHeight, AtPoller
<1>3. DataTypes'
  BY <1>1, <1>2 DEF DataTypes
<1>4. First \in Heights /\ NoBlock \notin Heights /\ tip \in Heights /\ tip # NoBlock /\ 0 \in 0 .. TTL
  BY <1>1, HeightsAssumption, BoundsAssumption DEF NoBlock, DataTypes
<1>5. CASE Poll(r)
  <2>1. PollerTypes'
    BY <1>1, <1>4, <1>5 DEF Poll, AtPoller, Go, Fresh, PollerTypes, Places, cacheVars, statusVars
  <2>2. UNCHANGED <<channel, faults>>
    BY <1>5 DEF Poll
  <2> QED
    BY <1>1, <1>3, <2>1, <2>2, TypesSplit DEF TypeOK, DataTypes, PollerTypes, Places
<1>6. CASE Acquire(r)
  <2>1. PollerTypes'
    BY <1>1, <1>4, <1>6 DEF Acquire, AtPoller, Go, Fresh, PollerTypes, Places, statusVars
  <2>2. UNCHANGED <<channel, faults>>
    BY <1>6 DEF Acquire
  <2> QED
    BY <1>1, <1>3, <2>1, <2>2 DEF TypeOK, DataTypes, PollerTypes, Places
<1>7. CASE Answer(r)
  <2>1. PollerTypes'
    BY <1>1, <1>4, <1>7 DEF Answer, AtPoller, Go, PollerTypes, Places, cacheVars, statusVars
  <2>2. UNCHANGED <<channel, faults>>
    BY <1>7 DEF Answer
  <2> QED
    BY <1>1, <1>3, <2>1, <2>2 DEF TypeOK, DataTypes, PollerTypes, Places
<1>8. CASE AnswerFails(r)
  <2>1. PollerTypes'
    BY <1>1, <1>4, <1>8 DEF AnswerFails, AtPoller, Go, PollerTypes, Places, statusVars
  <2>2. channel' = channel /\ faults' \in 0 .. MaxFaults
    BY <1>1, <1>8, FailureType DEF AnswerFails
  <2> QED
    BY <1>1, <1>3, <2>1, <2>2 DEF TypeOK, DataTypes, PollerTypes, Places
<1>9. CASE Store(r)
  <2>1. PollerTypes'
    BY <1>1, <1>4, <1>9 DEF Store, AtPoller, Go, PollerTypes, Places, statusVars
  <2>2. UNCHANGED <<channel, faults>>
    BY <1>9 DEF Store
  <2> QED
    BY <1>1, <1>3, <2>1, <2>2 DEF TypeOK, DataTypes, PollerTypes, Places
<1>10. CASE UpdateHeight(r)
  <2>1. PollerTypes'
    BY <1>1, <1>4, <1>10 DEF UpdateHeight, AtPoller, Go, PollerTypes, Places, cacheVars
  <2>2. UNCHANGED <<channel, faults>>
    BY <1>10 DEF UpdateHeight
  <2> QED
    BY <1>1, <1>3, <2>1, <2>2 DEF TypeOK, DataTypes, PollerTypes, Places
<1>11. CASE UpdateBaseTarget(r)
  <2>1. PollerTypes'
    BY <1>1, <1>4, <1>11 DEF UpdateBaseTarget, AtPoller, Go, PollerTypes, Places, cacheVars
  <2>2. UNCHANGED <<channel, faults>>
    BY <1>11 DEF UpdateBaseTarget
  <2> QED
    BY <1>1, <1>3, <2>1, <2>2 DEF TypeOK, DataTypes, PollerTypes, Places
<1>12. CASE StoreHeight(r)
  <2>1. PollerTypes'
    BY <1>1, <1>4, <1>12 DEF StoreHeight, AtPoller, Go, PollerTypes, Places, cacheVars
  <2>2. got[r] \in Heights
    BY <1>1, <1>12 DEF StoreHeight, AtPoller, PollerTypes
  <2>3. Cleanup(got[r]) \in Saves \cup Cleanups
    BY <2>2 DEF Cleanup, Cleanups
  <2>4. channel' \in Seq(Saves \union Cleanups) /\ faults' = faults
    BY <1>1, <1>12, <2>3 DEF StoreHeight
  <2> QED
    BY <1>1, <1>3, <2>1, <2>4 DEF TypeOK, DataTypes, PollerTypes, Places
<1> QED
  BY <1>5, <1>6, <1>7, <1>8, <1>9, <1>10, <1>11, <1>12 DEF Handle

\* The rows that remain are rows; a cutoff is a number.
LEMMA CleanUpIs ==
  ASSUME TypeOK, CleanUp
  PROVE  LET cutoff == Head(channel).height - Retention IN
         /\ channel # << >> /\ Head(channel) \in Cleanups /\ channel' = Tail(channel)
         /\ cutoff \in Int /\ cut' \in Nat /\ cut' >= cutoff /\ cut' >= cut
         /\ rows' \in Tables(Miners \X Heights)
         /\ \A k \in Miners : \A h \in Heights :
                <<k, h>> \in DOMAIN rows /\ h >= cutoff =>
                    <<k, h>> \in DOMAIN rows' /\ rows'[<<k, h>>] = rows[<<k, h>>]
<1> DEFINE cutoff == Head(channel).height - Retention
           left == DOMAIN rows \ Expired(cutoff)
<1>1. channel # << >> /\ Head(channel).kind = "cleanup" /\ channel' = Tail(channel)
  BY DEF CleanUp, WriterTakes
<1>2. Head(channel) \in Saves \cup Cleanups
  BY <1>1 DEF TypeOK
<1>3. Head(channel) \in Cleanups
  BY <1>1, <1>2 DEF Saves
<1>4. Head(channel).height \in Nat /\ Retention \in Nat
  BY <1>3, HeightsAssumption, BoundsAssumption DEF Cleanups
<1>5. cutoff \in Int /\ cut \in Nat
  BY <1>4 DEF TypeOK
<1>6. rows' = Restrict(rows, left) /\ cut' = IF cutoff > cut THEN cutoff ELSE cut
  BY Zenon DEF CleanUp
<1> HIDE DEF cutoff
<1>7. cut' \in Nat /\ cut' >= cutoff /\ cut' >= cut
  BY <1>5, <1>6
<1>8. left \in SUBSET DOMAIN rows
  OBVIOUS
<1>9. \A k \in Miners : \A h \in Heights : <<k, h>> \in DOMAIN rows /\ h >= cutoff => <<k, h>> \in left
  BY <1>5, HeightsAssumption DEF Expired
<1> HIDE DEF left
<1>10. /\ rows' \in Tables(Miners \X Heights) /\ DOMAIN rows' = left
       /\ \A x \in left : rows'[x] = rows[x]
  BY <1>6, <1>8, RestrictedTable DEF TypeOK
<1> QED
  BY <1>1, <1>3, <1>5, <1>7, <1>9, <1>10 DEF cutoff

\* A row that is loaded is a quality of its miner and height.
LEMMA LoadIs ==
  ASSUME TypeOK, NEW x \in loading, Load(x)
  PROVE  /\ x \in DOMAIN rows /\ x[1] \in Miners /\ x[2] \in Heights /\ x = <<x[1], x[2]>>
         /\ rows[x] \in Qualities
         /\ loading' \in SUBSET loading
         /\ miners' = [miners EXCEPT ![x[1]] = Recorded(miners[x[1]], x[2], rows[x])]
         /\ UNCHANGED <<tip, cache, lock, pc, got, height, target, current, saving,
                        channel, rows, unsaved, cut, subs, faults>>
<1>1. x \in DOMAIN rows /\ DOMAIN rows \in SUBSET (Miners \X Heights)
      /\ \A y \in DOMAIN rows : rows[y] \in Qualities
  BY TableType DEF TypeOK
<1>2. x \in Miners \X Heights
  BY <1>1
<1> QED
  BY <1>1, <1>2 DEF Load, cacheVars, statusVars, dbVars

LEMMA RecordIs ==
  ASSUME TypeOK, NEW s \in Submitters, NEW k \in Miners, NEW h \in Heights, NEW q \in Qualities,
         Record(s, k, h, q)
  PROVE  /\ loading = {} /\ saving[s] = NoSub /\ subs' \in 0 .. MaxSubs
         /\ miners' = [miners EXCEPT ![k] = Recorded(miners[k], h, q)]
         /\ saving' = [saving EXCEPT ![s] = Save(k, h, q)]
         /\ Save(k, h, q) \in Saves /\ Save(k, h, q) # NoSub
         /\ UNCHANGED <<tip, cache, lock, pc, got, height, target, current,
                        channel, rows, unsaved, cut, loading, faults>>
<1>1. subs < MaxSubs /\ subs' = subs + 1 /\ subs \in 0 .. MaxSubs /\ MaxSubs \in Nat
  BY BoundsAssumption DEF Record, TypeOK
<1>2. subs' \in 0 .. MaxSubs
  BY <1>1
<1>3. Save(k, h, q) \in Saves
  BY DEF Save, Saves
<1>4. Save(k, h, q) # NoSub
  <2>1. "kind" \in DOMAIN Save(k, h, q) /\ DOMAIN NoSub = {}
    BY DEF Save, NoSub
  <2> QED
    BY <2>1
<1> QED
  BY <1>2, <1>3, <1>4 DEF Record, cacheVars, statusVars, dbVars

LEMMA SaveTaken ==
  ASSUME TypeOK, WriterTakes("save")
  PROVE  /\ channel # << >> /\ Head(channel) \in Saves /\ channel' = Tail(channel)
         /\ channel' \in Seq(Saves \union Cleanups)
         /\ UNCHANGED <<tip, cache, lock, pc, got, height, target, current, miners, saving, loading, subs>>
<1>1. /\ channel # << >> /\ Head(channel).kind = "save" /\ channel' = Tail(channel)
      /\ UNCHANGED <<tip, cache, lock, pc, got, height, target, current, miners, saving, loading, subs>>
  BY DEF WriterTakes, cacheVars, statusVars
<1>2. channel \in Seq(Saves \cup Cleanups)
  BY DEF TypeOK
<1>3. Head(channel) \in Saves \cup Cleanups /\ channel' \in Seq(Saves \cup Cleanups)
  BY <1>1, <1>2
<1>4. Head(channel) \in Saves
  BY <1>1, <1>3 DEF Cleanups
<1> QED
  BY <1>1, <1>3, <1>4

LEMMA NextTypes ==
  ASSUME TypeOK, StartsQuiet, [Next]_vars
  PROVE  TypeOK'
<1>1. /\ PollerTypes /\ DataTypes /\ channel \in Seq(Saves \union Cleanups) /\ faults \in 0 .. MaxFaults
      /\ First \in Heights /\ 0 \in 0 .. TTL
  BY TypesSplit, HeightsAssumption, BoundsAssumption
<1>2. ASSUME NEW h \in Heights, NewBlock(h) PROVE TypeOK'
  BY <1>2 DEF NewBlock, TypeOK, cacheVars, statusVars, dbVars
<1>3. CASE Tick
  <2>1. cache'\in [block : Heights \union {NoBlock}, age : 0 .. TTL]
    <3>1. cache.age + 1 \in 0 .. TTL
      BY <1>3, BoundsAssumption DEF Tick, TypeOK
    <3> QED
      BY <1>3, <3>1 DEF Tick, TypeOK
  <2> QED
    BY <1>3, <2>1 DEF Tick, TypeOK, statusVars, dbVars
<1>4. ASSUME NEW r \in Pollers, Poll(r) \/ AnswerFails(r) \/ Handle(r) PROVE TypeOK'
  BY <1>4, PollerKeepsTypes
<1>5. ASSUME NEW s \in Submitters, NEW k \in Miners, NEW h \in Heights, NEW q \in Qualities,
             Record(s, k, h, q)
      PROVE  TypeOK'
  <2>1. miners[k] \in Infos
    BY DEF TypeOK
  <2>2. Recorded(miners[k], h, q) \in Infos
    BY <2>1, RecordedIs
  <2>3. miners' \in [Miners -> Infos]
    BY <1>5, <2>2, RecordIs DEF TypeOK
  <2>4. saving' \in [Submitters -> Saves \union {NoSub}]
    BY <1>5, RecordIs DEF TypeOK
  <2> QED
    BY <1>5, <2>3, <2>4, RecordIs DEF TypeOK
<1>6. ASSUME NEW s \in Submitters, QueueSave(s) PROVE TypeOK'
  <2>1. saving[s] \in Saves
    BY <1>6 DEF QueueSave, TypeOK
  <2>2. channel' \in Seq(Saves \union Cleanups)
    BY <1>1, <1>6, <2>1 DEF QueueSave
  <2>3. saving' \in [Submitters -> Saves \union {NoSub}]
    BY <1>6 DEF QueueSave, TypeOK
  <2> QED
    BY <1>6, <2>2, <2>3 DEF QueueSave, TypeOK, cacheVars, statusVars
<1>7. CASE SaveSubmission
  <2>1. /\ Head(channel) \in Saves /\ channel' \in Seq(Saves \union Cleanups)
        /\ UNCHANGED <<tip, cache, lock, pc, got, height, target, current, miners, saving, loading, subs,
                       unsaved, cut, faults>>
    BY <1>7, SaveTaken DEF SaveSubmission
  <2>2. rows' = Upsert(Head(channel))
    BY <1>7 DEF SaveSubmission
  <2>3. rows' \in Tables(Miners \X Heights) /\ DOMAIN rows \subseteq DOMAIN rows'
    BY <2>1, <2>2, UpsertIs DEF TypeOK
  <2> QED
    BY <2>1, <2>3 DEF TypeOK
<1>8. CASE SaveFails
  <2>1. /\ Head(channel) \in Saves /\ channel' \in Seq(Saves \union Cleanups)
        /\ UNCHANGED <<tip, cache, lock, pc, got, height, target, current, miners, saving, loading, subs,
                       rows, cut>>
    BY <1>8, SaveTaken DEF SaveFails
  <2>2. faults' \in 0 .. MaxFaults
    BY <1>1, <1>8, FailureType DEF SaveFails
  <2>3. unsaved' \subseteq Miners \X Heights
    BY <1>8, <2>1 DEF SaveFails, TypeOK, Saves
  <2> QED
    BY <2>1, <2>2, <2>3 DEF TypeOK
<1>9. CASE CleanUp
  <2>1. UNCHANGED <<tip, cache, lock, pc, got, height, target, current, miners, saving, loading, subs,
                    unsaved, faults>>
    BY <1>9 DEF CleanUp, WriterTakes, cacheVars, statusVars
  <2>2. channel' = Tail(channel) /\ channel # << >> /\ loading = {}
    BY <1>9, CleanUpIs DEF StartsQuiet
  <2>3. channel' \in Seq(Saves \union Cleanups)
    BY <1>1, <2>2
  <2>4. rows' \in Tables(Miners \X Heights) /\ cut' \in Nat
    BY <1>9, CleanUpIs
  <2> QED
    BY <2>1, <2>2, <2>3, <2>4 DEF TypeOK
<1>10. CASE Restart
  <2>1. faults' \in 0 .. MaxFaults
    BY <1>1, <1>10, FailureType DEF Restart
  <2>2. cache' \in [block : Heights \union {NoBlock}, age : 0 .. TTL]
    BY <1>1, <1>10 DEF Restart
  <2>3. /\ lock' = Free /\ pc' \in [Pollers -> Places] /\ got' \in [Pollers -> Heights \union {NoBlock}]
        /\ \A r \in Pollers : pc'[r] = "idle"
    BY <1>10 DEF Restart, Places
  <2>4. miners' \in [Miners -> Infos] /\ saving' \in [Submitters -> Saves \union {NoSub}]
    BY <1>10 DEF Restart, Infos
  <2>5. channel' \in Seq(Saves \union Cleanups)
    BY <1>10 DEF Restart
  <2>6. loading' \subseteq DOMAIN rows'
    BY <1>10 DEF Restart, Recent
  <2>7. {height', target', current'} \subseteq Heights \union {NoBlock}
    BY <1>10 DEF Restart
  <2>8. unsaved' \subseteq Miners \X Heights /\ UNCHANGED <<tip, rows, cut, subs>>
    BY <1>10 DEF Restart
  <2> QED
    BY <2>1, <2>2, <2>3, <2>4, <2>5, <2>6, <2>7, <2>8 DEF TypeOK, Places
<1>11. ASSUME NEW x \in loading, Load(x) PROVE TypeOK'
  <2>1. miners[x[1]] \in Infos
    BY <1>11, LoadIs DEF TypeOK
  <2>2. Recorded(miners[x[1]], x[2], rows[x]) \in Infos
    BY <1>11, <2>1, LoadIs, RecordedIs
  <2>3. miners' \in [Miners -> Infos]
    BY <1>11, <2>2, LoadIs DEF TypeOK
  <2> QED
    BY <1>11, <2>3, LoadIs DEF TypeOK
<1>12. CASE UNCHANGED vars
  BY <1>12 DEF vars, cacheVars, statusVars, dbVars, TypeOK
<1> QED
  BY <1>2, <1>3, <1>4, <1>5, <1>6, <1>7, <1>8, <1>9, <1>10, <1>11, <1>12 DEF Next, Writer
-----------------------------------------------------------------------------
(* The cache and its lock.                                                   *)

LEMMA InitCache ==
  ASSUME Init
  PROVE  NoHerd /\ CacheBehind
<1>1. NoHerd
  BY PollersAssumption DEF Init, NoHerd
<1>2. CacheBehind
  BY HeightsAssumption DEF Init, CacheBehind, NoBlock
<1> QED
  BY <1>1, <1>2

\* What submissions and the database do is no business of the cache.
CacheUntouched == UNCHANGED <<tip, cache, lock, pc, got>>

LEMMA OthersLeaveCache ==
  ASSUME Next, ~CacheUntouched
  PROVE  \/ \E h \in Heights : NewBlock(h)
         \/ Tick
         \/ \E r \in Pollers : Poll(r) \/ AnswerFails(r) \/ Handle(r)
         \/ Restart
<1>1. \/ \E s \in Submitters, k \in Miners, h \in Heights, q \in Qualities : Record(s, k, h, q)
      \/ \E s \in Submitters : QueueSave(s)
      \/ Writer
      \/ \E x \in loading : Load(x)
      => CacheUntouched
  BY DEF Record, QueueSave, Writer, SaveSubmission, SaveFails, CleanUp, WriterTakes, Load,
         CacheUntouched, cacheVars
<1> QED
  BY <1>1, Zenon DEF Next

\* The types the cache's invariants need.
LEMMA CacheTypes ==
  ASSUME TypeOK
  PROVE  /\ cache.block \in Nat /\ cache.age \in Nat /\ tip \in Heights /\ tip \in Nat /\ tip > 0
         /\ cache = [block |-> cache.block, age |-> cache.age]
         /\ got \in [Pollers -> Heights \union {NoBlock}] /\ \A r \in Pollers : got[r] \in Nat
         /\ pc \in [Pollers -> Places]
         /\ TTL \in Nat \ {0} /\ Free \notin Pollers
<1>1. Heights \subseteq Nat \ {0} /\ NoBlock \in Nat /\ TTL \in Nat \ {0} /\ Free \notin Pollers
  BY HeightsAssumption, BoundsAssumption, PollersAssumption DEF NoBlock
<1>2. cache \in [block : Heights \union {NoBlock}, age : 0 .. TTL] /\ tip \in Heights
  BY DEF TypeOK
<1>3. got \in [Pollers -> Heights \union {NoBlock}] /\ pc \in [Pollers -> Places]
  BY DEF TypeOK, Places
<1>4. cache.block \in Nat /\ cache.age \in Nat /\ cache = [block |-> cache.block, age |-> cache.age]
  <2>1. cache.block \in Heights \union {NoBlock} /\ cache.age \in 0 .. TTL
    BY <1>2
  <2>2. (\A b \in Heights \union {NoBlock} : b \in Nat) /\ (\A a \in 0 .. TTL : a \in Nat)
    BY <1>1
  <2>3. cache = [block |-> cache.block, age |-> cache.age]
    BY <1>2
  <2> QED
    BY <2>1, <2>2, <2>3, Zenon
<1>5. \A r \in Pollers : got[r] \in Nat
  BY <1>1, <1>3
<1>6. tip \in Nat /\ tip > 0
  BY <1>1, <1>2
<1> QED
  BY <1>1, <1>2, <1>3, <1>4, <1>5, <1>6

\* The step of a poller: the lock is taken when nothing is fresh, held while the
\* upstream is asked, and given back with the answer or the failure.
LEMMA PollerKeepsCache ==
  ASSUME TypeOK, NoHerd, CacheBehind, NEW r \in Pollers, Poll(r) \/ AnswerFails(r) \/ Handle(r)
  PROVE  NoHerd' /\ CacheBehind' /\ cache'.block >= cache.block
<1>1. /\ cache.block \in Nat /\ cache.age \in Nat /\ tip \in Nat /\ tip > 0
      /\ cache = [block |-> cache.block, age |-> cache.age]
      /\ got \in [Pollers -> Heights \union {NoBlock}] /\ \A p \in Pollers : got[p] \in Nat
      /\ pc \in [Pollers -> Places] /\ Free \notin Pollers /\ TTL \in Nat \ {0}
  BY CacheTypes
<1>2. tip' = tip
  BY DEF Poll, AnswerFails, Handle, Acquire, Answer, Store, UpdateHeight, UpdateBaseTarget,
         StoreHeight, AtPoller
<1>3. \A p \in Pollers : IF pc[p] \in {"ask", "store"} THEN lock = p /\ ~Fresh ELSE lock # p
  BY DEF NoHerd
<1>4. CASE \/ Poll(r) \/ UpdateHeight(r) \/ UpdateBaseTarget(r) \/ StoreHeight(r)
           \/ Acquire(r) /\ Fresh
  <2>1. /\ cache' = cache /\ lock' = lock
        /\ pc[r] \notin {"ask", "store"} /\ pc'[r] \notin {"ask", "store"}
        /\ \A p \in Pollers \ {r} : pc'[p] = pc[p] /\ got'[p] = got[p]
    BY <1>1, <1>4 DEF Poll, UpdateHeight, UpdateBaseTarget, StoreHeight, Acquire, AtPoller, Go, cacheVars
  <2>2. NoHerd'
    BY <1>3, <2>1 DEF NoHerd, Fresh
  <2>3. CacheBehind'
    BY <1>1, <1>2, <2>1 DEF CacheBehind
  <2> QED
    BY <1>1, <2>1, <2>2, <2>3
<1>5. CASE Acquire(r) /\ ~Fresh
  <2>1. /\ cache' = cache /\ lock = Free /\ lock' = r /\ pc'[r] = "ask" /\ got' = got
        /\ \A p \in Pollers \ {r} : pc'[p] = pc[p]
    BY <1>1, <1>5 DEF Acquire, AtPoller, Go
  <2>2. NoHerd'
    BY <1>1, <1>3, <1>5, <2>1 DEF NoHerd, Fresh
  <2>3. CacheBehind'
    BY <1>1, <1>2, <2>1 DEF CacheBehind
  <2> QED
    BY <1>1, <2>1, <2>2, <2>3
<1>6. CASE Answer(r)
  <2>1. /\ cache' = cache /\ lock' = lock /\ pc[r] = "ask" /\ pc'[r] = "store" /\ got'[r] = tip
        /\ \A p \in Pollers \ {r} : pc'[p] = pc[p] /\ got'[p] = got[p]
    BY <1>1, <1>6 DEF Answer, AtPoller, Go, cacheVars
  <2>2. NoHerd'
    BY <1>3, <2>1 DEF NoHerd, Fresh
  <2>3. CacheBehind'
    BY <1>1, <1>2, <2>1 DEF CacheBehind
  <2> QED
    BY <1>1, <2>1, <2>2, <2>3
<1>7. CASE AnswerFails(r)
  <2>1. /\ cache' = cache /\ lock' = Free /\ pc[r] = "ask" /\ pc'[r] = "idle" /\ got' = got
        /\ \A p \in Pollers \ {r} : pc'[p] = pc[p]
    BY <1>1, <1>7 DEF AnswerFails, AtPoller, Go
  <2>2. lock = r
    BY <1>3, <2>1
  <2>3. NoHerd'
    BY <1>1, <1>3, <2>1, <2>2 DEF NoHerd, Fresh
  <2>4. CacheBehind'
    BY <1>1, <1>2, <2>1 DEF CacheBehind
  <2> QED
    BY <1>1, <2>1, <2>3, <2>4
<1>8. CASE Store(r)
  <2>1. /\ cache' = [block |-> got[r], age |-> 0] /\ lock' = Free /\ pc[r] = "store" /\ pc'[r] = "height"
        /\ got' = got /\ \A p \in Pollers \ {r} : pc'[p] = pc[p]
    BY <1>1, <1>8 DEF Store, AtPoller, Go
  <2>2. lock = r /\ \A p \in Pollers \ {r} : pc[p] \notin {"ask", "store"}
    BY <1>3, <2>1
  <2>3. NoHerd'
    BY <1>1, <2>1, <2>2 DEF NoHerd
  <2>4. cache.block <= got[r] /\ got[r] <= tip /\ cache'.block = got[r]
    BY <2>1 DEF CacheBehind
  <2>5. CacheBehind'
    BY <1>1, <1>2, <2>1, <2>2, <2>4 DEF CacheBehind
  <2> QED
    BY <1>1, <2>3, <2>4, <2>5
<1> QED
  BY <1>4, <1>5, <1>6, <1>7, <1>8 DEF Handle

LEMMA NextCache ==
  ASSUME TypeOK, NoHerd, CacheBehind, [Next]_vars
  PROVE  NoHerd' /\ CacheBehind' /\ (cache'.block >= cache.block \/ cache'.block = NoBlock)
<1>1. /\ cache.block \in Nat /\ cache.age \in Nat /\ tip \in Nat /\ tip > 0
      /\ cache = [block |-> cache.block, age |-> cache.age]
      /\ \A r \in Pollers : got[r] \in Nat
      /\ pc \in [Pollers -> Places] /\ Free \notin Pollers /\ TTL \in Nat \ {0}
  BY CacheTypes
<1>2. CASE CacheUntouched
  BY <1>1, <1>2 DEF CacheUntouched, NoHerd, CacheBehind, Fresh
<1>3. ASSUME NEW h \in Heights, NewBlock(h)
      PROVE  NoHerd' /\ CacheBehind' /\ cache'.block >= cache.block
  <2>1. h \in Nat /\ tip' = h /\ h > tip /\ UNCHANGED <<cache, lock, pc, got>>
    BY <1>3, HeightsAssumption DEF NewBlock, cacheVars
  <2>2. NoHerd'
    BY <2>1 DEF NoHerd, Fresh
  <2>3. CacheBehind'
    BY <1>1, <2>1 DEF CacheBehind
  <2> QED
    BY <1>1, <2>1, <2>2, <2>3
<1>4. ASSUME Tick
      PROVE  NoHerd' /\ CacheBehind' /\ cache'.block >= cache.block
  <2>1. Fresh /\ cache'.block = cache.block /\ UNCHANGED <<tip, lock, pc, got>>
    BY <1>1, <1>4 DEF Tick, Fresh
  <2>2. NoHerd'
    BY <2>1 DEF NoHerd
  <2>3. CacheBehind'
    BY <1>1, <2>1 DEF CacheBehind
  <2> QED
    BY <1>1, <2>1, <2>2, <2>3
<1>5. ASSUME NEW r \in Pollers, Poll(r) \/ AnswerFails(r) \/ Handle(r)
      PROVE  NoHerd' /\ CacheBehind' /\ cache'.block >= cache.block
  BY <1>5, PollerKeepsCache
<1>6. ASSUME Restart
      PROVE  NoHerd' /\ CacheBehind' /\ cache'.block = NoBlock
  <2>1. /\ cache'.block = NoBlock /\ lock' = Free /\ tip' = tip
        /\ \A r \in Pollers : pc'[r] = "idle"
    BY <1>6 DEF Restart
  <2>2. NoHerd'
    BY <1>1, <2>1 DEF NoHerd
  <2>3. CacheBehind'
    BY <1>1, <2>1 DEF CacheBehind, NoBlock
  <2> QED
    BY <2>1, <2>2, <2>3
<1>7. CASE UNCHANGED vars
  BY <1>2, <1>7 DEF vars, cacheVars, CacheUntouched
<1> QED
  BY <1>2, <1>3, <1>4, <1>5, <1>6, <1>7, OthersLeaveCache

-----------------------------------------------------------------------------
(* The statistics.                                                           *)

\* Nothing begins while a server loads.
LEMMA NextStartsQuiet ==
  ASSUME TypeOK, StartsQuiet, [Next]_vars
  PROVE  StartsQuiet'
<1>1. CASE loading' = {}
  BY <1>1 DEF StartsQuiet
<1>2. CASE Restart
  BY <1>2 DEF Restart, StartsQuiet
<1>3. ASSUME loading' # {}, ~Restart PROVE StartsQuiet'
  <2>1. loading # {}
    BY <1>3 DEF Next, NewBlock, Tick, Poll, AnswerFails, Handle, Acquire, Answer, Store, UpdateHeight,
         UpdateBaseTarget, StoreHeight, AtPoller, Record, QueueSave, Writer, SaveSubmission, SaveFails,
         CleanUp, WriterTakes, Load, vars
  <2>2. /\ channel = << >>
        /\ \A s \in Submitters : saving[s] = NoSub
        /\ \A r \in Pollers : pc[r] = "idle"
    BY <2>1 DEF StartsQuiet
  <2>3. \/ \E h \in Heights : NewBlock(h)
        \/ Tick
        \/ \E x \in loading : Load(x)
        \/ UNCHANGED vars
    BY <1>3, <2>1, <2>2 DEF Next, Poll, AnswerFails, Handle, Acquire, Answer, Store, UpdateHeight,
         UpdateBaseTarget, StoreHeight, AtPoller, Record, QueueSave, Writer, SaveSubmission, SaveFails,
         CleanUp, WriterTakes
  <2>4. UNCHANGED <<channel, saving, pc>>
    BY <2>3 DEF NewBlock, Tick, Load, vars, dbVars
  <2> QED
    BY <2>2, <2>4 DEF StartsQuiet
<1> QED
  BY <1>1, <1>2, <1>3

\* Statistics start with nothing, and change by what is submitted or loaded.
LEMMA NextOfTheirBlock ==
  ASSUME TypeOK, AllOfTheirBlock, [Next]_vars
  PROVE  AllOfTheirBlock'
<1>1. ASSUME NEW k \in Miners, NEW h \in Heights, NEW q \in Qualities,
             miners' = [miners EXCEPT ![k] = Recorded(miners[k], h, q)]
      PROVE  AllOfTheirBlock'
  <2>1. miners \in [Miners -> Infos]
    BY DEF TypeOK
  <2>2. OfItsBlock(Recorded(miners[k], h, q))
    BY <2>1, RecordedIs DEF AllOfTheirBlock
  <2>3. miners'[k] = Recorded(miners[k], h, q) /\ \A l \in Miners \ {k} : miners'[l] = miners[l]
    BY <1>1, <2>1
  <2>4. \A l \in Miners : OfItsBlock(miners'[l])
    BY <2>2, <2>3 DEF AllOfTheirBlock
  <2> QED
    BY <2>4 DEF AllOfTheirBlock
<1>2. ASSUME NEW s \in Submitters, NEW k \in Miners, NEW h \in Heights, NEW q \in Qualities,
             Record(s, k, h, q)
      PROVE  AllOfTheirBlock'
  BY <1>1, <1>2, RecordIs
<1>3. ASSUME NEW x \in loading, Load(x) PROVE AllOfTheirBlock'
  BY <1>1, <1>3, LoadIs
<1>4. CASE Restart
  <2>1. \A k \in Miners : miners'[k] = NoMiner
    BY <1>4 DEF Restart
  <2> QED
    BY <2>1 DEF AllOfTheirBlock, OfItsBlock
<1>5. CASE miners' = miners
  BY <1>5 DEF AllOfTheirBlock
<1>6. \/ \E h \in Heights : NewBlock(h)
      \/ Tick
      \/ \E r \in Pollers : Poll(r) \/ AnswerFails(r) \/ Handle(r)
      \/ \E s \in Submitters : QueueSave(s)
      \/ Writer
      \/ UNCHANGED vars
      => miners' = miners
  BY DEF NewBlock, Tick, Poll, AnswerFails, Handle, Acquire, Answer, Store, UpdateHeight,
         UpdateBaseTarget, StoreHeight, AtPoller, QueueSave, Writer, SaveSubmission, SaveFails,
         CleanUp, WriterTakes, vars
<1> QED
  BY <1>2, <1>3, <1>4, <1>5, <1>6, Zenon DEF Next

-----------------------------------------------------------------------------
(* The rows.                                                                 *)

\* What a miner's statistics have is of the block's heights and qualities.
LEMMA Entries ==
  ASSUME TypeOK, NEW k \in Miners, NEW h \in DOMAIN miners[k].perBlock
  PROVE  h \in Heights /\ h \in Nat /\ miners[k].perBlock[h] \in Qualities
         /\ miners[k].perBlock[h] \in Nat
<1>1. miners[k] \in Infos
  BY DEF TypeOK
<1> QED
  BY <1>1, InfoType, HeightsAssumption

\* A step that leaves the statistics alone has only to keep what is kept.
LEMMA StillBacked ==
  ASSUME TypeOK, RowsBacked, miners' = miners,
         ASSUME NEW k \in Miners, NEW h \in Heights, NEW q \in Qualities,
                Due(k, h)', Due(k, h) => Kept(k, h, q)
         PROVE  Kept(k, h, q)'
  PROVE  RowsBacked'
<1>1. SUFFICES ASSUME NEW k \in Miners, NEW h \in DOMAIN miners[k].perBlock, Due(k, h)'
               PROVE  Kept(k, h, miners[k].perBlock[h])'
  BY DEF RowsBacked
<1>2. PICK q : q = miners[k].perBlock[h]
  OBVIOUS
<1>3. h \in Heights /\ q \in Qualities
  BY <1>2, Entries
<1>4. Due(k, h) => Kept(k, h, q)
  BY <1>2 DEF RowsBacked
<1>5. Kept(k, h, q)'
  BY <1>1, <1>3, <1>4
<1>6. Kept(k, h, miners[k].perBlock[h])' <=> Kept(k, h, q)'
  BY <1>2 DEF Kept
<1> QED
  BY <1>5, <1>6

\* A step that records a quality has to keep it, and what is kept.
LEMMA NewlyBacked ==
  ASSUME TypeOK, RowsBacked, NEW k \in Miners, NEW h \in Heights, NEW q \in Qualities,
         miners' = [miners EXCEPT ![k] = Recorded(miners[k], h, q)],
         UNCHANGED <<cut, unsaved>>,
         Kept(k, h, q)',
         ASSUME NEW l \in Miners, NEW g \in Heights, NEW p \in Qualities, Kept(l, g, p)
         PROVE  Kept(l, g, p)'
  PROVE  RowsBacked'
<1>1. SUFFICES ASSUME NEW l \in Miners, NEW g \in DOMAIN miners'[l].perBlock, Due(l, g)'
               PROVE  Kept(l, g, miners[l].perBlock[g])'
  BY DEF RowsBacked
<1>2. PICK p : p = miners'[l].perBlock[g]
  OBVIOUS
<1>3. Due(l, g)
  BY <1>1 DEF Due
<1>4. miners \in [Miners -> Infos]
  BY DEF TypeOK
<1>5. ASSUME g \in DOMAIN miners[l].perBlock, p = miners[l].perBlock[g] PROVE Kept(l, g, p)'
  <2>1. g \in Heights /\ p \in Qualities
    BY <1>5, Entries
  <2>2. Kept(l, g, p)
    BY <1>3, <1>5 DEF RowsBacked
  <2> QED
    BY <2>1, <2>2
<1>6. CASE l # k
  <2>1. miners'[l] = miners[l]
    BY <1>4, <1>6
  <2> QED
    BY <1>2, <1>5, <2>1 DEF Kept
<1>7. CASE l = k
  <2>1. miners'[l] = Recorded(miners[k], h, q)
    BY <1>4, <1>7
  <2>2. \/ g = h /\ p = q
        \/ g \in DOMAIN miners[l].perBlock /\ p = miners[l].perBlock[g]
    BY <1>2, <1>4, <1>7, <2>1, RecordedIs
  <2> QED
    BY <1>2, <1>5, <1>7, <2>2 DEF Kept
<1> QED
  BY <1>6, <1>7

\* What is on its way stays so when nothing is taken from either place.
LEMMA StillUnderway ==
  ASSUME NEW w, NEW v, NEW c, NEW d, NEW k, NEW h, NEW q, Underway(w, c, k, h, q),
         \A s \in Submitters : w[s] # NoSub => v[s] = w[s],
         \A x \in ToSet(c) : x \in ToSet(d)
  PROVE  Underway(v, d, k, h, q)
BY DEF Underway

LEMMA RecordKeepsRows ==
  ASSUME TypeOK, RowsBacked, NEW s \in Submitters, NEW k \in Miners, NEW h \in Heights,
         NEW q \in Qualities, Record(s, k, h, q)
  PROVE  RowsBacked'
<1>1. /\ saving[s] = NoSub /\ saving \in [Submitters -> Saves \union {NoSub}]
      /\ miners' = [miners EXCEPT ![k] = Recorded(miners[k], h, q)]
      /\ saving' = [saving EXCEPT ![s] = Save(k, h, q)]
      /\ Save(k, h, q) # NoSub
      /\ UNCHANGED <<channel, rows, unsaved, cut>>
  BY RecordIs DEF TypeOK
<1>2. Kept(k, h, q)'
  <2>1. saving'[s] = Save(k, h, q) /\ q <= q
    BY <1>1, QualitiesAssumption
  <2>2. Is(saving'[s], k, h, q)
    BY <2>1 DEF Is, Save
  <2> QED
    BY <1>1, <2>1, <2>2 DEF Kept, Underway
<1>3. ASSUME NEW l \in Miners, NEW g \in Heights, NEW p \in Qualities, Kept(l, g, p)
      PROVE  Kept(l, g, p)'
  <2>1. \A t \in Submitters : saving[t] # NoSub => saving'[t] = saving[t]
    BY <1>1
  <2>2. Underway(saving, channel, l, g, p) => Underway(saving', channel', l, g, p)
    BY <1>1, <2>1, StillUnderway
  <2> QED
    BY <1>1, <1>3, <2>2 DEF Kept
<1> QED
  BY <1>1, <1>2, <1>3, NewlyBacked

LEMMA LoadKeepsRows ==
  ASSUME TypeOK, RowsBacked, NEW x \in loading, Load(x)
  PROVE  RowsBacked'
<1>1. /\ x \in DOMAIN rows /\ x[1] \in Miners /\ x[2] \in Heights /\ x = <<x[1], x[2]>>
      /\ rows[x] \in Qualities
      /\ miners' = [miners EXCEPT ![x[1]] = Recorded(miners[x[1]], x[2], rows[x])]
      /\ UNCHANGED <<saving, channel, rows, unsaved, cut>>
  BY LoadIs
<1>2. Kept(x[1], x[2], rows[x])'
  <2>1. rows[x] <= rows[x]
    <3>1. \A q \in Qualities : q <= q
      BY QualitiesAssumption
    <3> QED
      BY <1>1, <3>1
  <2>2. InTable(rows, x[1], x[2], rows[x])
    BY <1>1, <2>1 DEF InTable
  <2> QED
    BY <1>1, <2>2 DEF Kept
<1>3. ASSUME NEW l \in Miners, NEW g \in Heights, NEW p \in Qualities, Kept(l, g, p)
      PROVE  Kept(l, g, p)'
  BY <1>1, <1>3 DEF Kept
<1> QED
  BY <1>1, <1>2, <1>3, NewlyBacked

LEMMA QueueSaveKeepsRows ==
  ASSUME TypeOK, RowsBacked, NEW s \in Submitters, QueueSave(s)
  PROVE  RowsBacked'
<1>1. /\ saving[s] # NoSub /\ saving' = [saving EXCEPT ![s] = NoSub]
      /\ channel' = Append(channel, saving[s])
      /\ UNCHANGED <<miners, rows, unsaved, cut>>
  BY DEF QueueSave
<1>2. saving \in [Submitters -> Saves \union {NoSub}] /\ channel \in Seq(Saves \union Cleanups)
  BY DEF TypeOK
<1>3. saving[s] \in Saves /\ saving[s].kind = "save"
  BY <1>1, <1>2 DEF Saves
<1>4. \A x : x \in ToSet(channel') <=> x \in ToSet(channel) \/ x = saving[s]
  BY <1>1, <1>2, <1>3, ElementsOfAppend
<1>5. ASSUME NEW k \in Miners, NEW h \in Heights, NEW q \in Qualities,
             Due(k, h)', Due(k, h) => Kept(k, h, q)
      PROVE  Kept(k, h, q)'
  <2>1. Kept(k, h, q)
    BY <1>1, <1>5 DEF Due
  <2>2. ASSUME Underway(saving, channel, k, h, q) PROVE Underway(saving', channel', k, h, q)
    <3>1. ASSUME NEW t \in Submitters, saving[t] # NoSub, Is(saving[t], k, h, q)
          PROVE  Underway(saving', channel', k, h, q)
      <4>1. CASE t = s
        BY <1>3, <1>4, <3>1, <4>1 DEF Underway
      <4>2. CASE t # s
        <5>1. saving'[t] = saving[t]
          BY <1>1, <1>2, <4>2
        <5> QED
          BY <3>1, <5>1 DEF Underway
      <4> QED
        BY <4>1, <4>2
    <3>2. ASSUME NEW x \in ToSet(channel), x.kind = "save", Is(x, k, h, q)
          PROVE  Underway(saving', channel', k, h, q)
      BY <1>4, <3>2 DEF Underway
    <3> QED
      BY <2>2, <3>1, <3>2 DEF Underway
  <2> QED
    BY <1>1, <2>1, <2>2 DEF Kept
<1> QED
  BY <1>1, <1>5, StillBacked

\* A row that is written stands for what the head of the channel was.
LEMMA SaveKeepsRows ==
  ASSUME TypeOK, RowsBacked, SaveSubmission
  PROVE  RowsBacked'
<1> DEFINE x == Head(channel)
           row == <<x.miner, x.height>>
<1>1. /\ channel # << >> /\ x \in Saves /\ channel' = Tail(channel)
      /\ UNCHANGED <<miners, saving, unsaved, cut>> /\ rows' = Upsert(x)
  BY SaveTaken DEF SaveSubmission
<1>2. channel \in Seq(Saves \union Cleanups) /\ rows \in Tables(Miners \X Heights)
  BY DEF TypeOK
<1>3. \A y : y \in ToSet(channel) <=> y = x \/ y \in ToSet(channel')
  BY <1>1, <1>2, ElementsOfTail
<1>4. /\ row \in DOMAIN rows' /\ rows'[row] <= x.quality /\ rows' \in Tables(Miners \X Heights)
      /\ \A y \in DOMAIN rows : y \in DOMAIN rows' /\ rows'[y] <= rows[y]
  BY <1>1, <1>2, UpsertIs
<1>5. /\ \A y \in DOMAIN rows : rows[y] \in Nat
      /\ \A y \in DOMAIN rows' : rows'[y] \in Nat
      /\ x.quality \in Nat
  BY <1>1, <1>2, <1>4, TableType, QualitiesAssumption DEF Saves
<1> HIDE DEF x
<1>6. ASSUME NEW k \in Miners, NEW h \in Heights, NEW q \in Qualities,
             Due(k, h)', Due(k, h) => Kept(k, h, q)
      PROVE  Kept(k, h, q)'
  <2>0. q \in Nat
    BY QualitiesAssumption
  <2>1. Kept(k, h, q)
    BY <1>1, <1>6 DEF Due
  <2>2. ASSUME InTable(rows, k, h, q) PROVE Kept(k, h, q)'
    <3>1. <<k, h>> \in DOMAIN rows' /\ rows'[<<k, h>>] <= q
      BY <1>4, <1>5, <2>0, <2>2 DEF InTable
    <3> QED
      BY <3>1 DEF Kept, InTable
  <2>3. ASSUME NEW s \in Submitters, saving[s] # NoSub, Is(saving[s], k, h, q) PROVE Kept(k, h, q)'
    BY <1>1, <2>3 DEF Kept, Underway
  <2>4. ASSUME NEW y \in ToSet(channel), y.kind = "save", Is(y, k, h, q) PROVE Kept(k, h, q)'
    <3>1. CASE y = x
      <4>1. row = <<k, h>> /\ x.quality <= q
        BY <2>4, <3>1 DEF Is
      <4>2. <<k, h>> \in DOMAIN rows' /\ rows'[<<k, h>>] <= q
        BY <1>4, <1>5, <2>0, <4>1
      <4> QED
        BY <4>2 DEF Kept, InTable
    <3>2. CASE y \in ToSet(channel')
      BY <2>4, <3>2 DEF Kept, Underway
    <3> QED
      BY <1>3, <3>1, <3>2
  <2> QED
    BY <2>1, <2>2, <2>3, <2>4 DEF Kept, Underway
<1> QED
  BY <1>1, <1>6, StillBacked

\* A refused write is noted.
LEMMA SaveFailsKeepsRows ==
  ASSUME TypeOK, RowsBacked, SaveFails
  PROVE  RowsBacked'
<1> DEFINE x == Head(channel)
<1>1. /\ channel # << >> /\ x \in Saves /\ channel' = Tail(channel)
      /\ UNCHANGED <<miners, saving, rows, cut>>
      /\ unsaved' = unsaved \union {<<x.miner, x.height>>}
  BY SaveTaken DEF SaveFails
<1>2. channel \in Seq(Saves \union Cleanups)
  BY DEF TypeOK
<1>3. \A y : y \in ToSet(channel) <=> y = x \/ y \in ToSet(channel')
  BY <1>1, <1>2, ElementsOfTail
<1> HIDE DEF x
<1>4. ASSUME NEW k \in Miners, NEW h \in Heights, NEW q \in Qualities,
             Due(k, h)', Due(k, h) => Kept(k, h, q)
      PROVE  Kept(k, h, q)'
  <2>1. Kept(k, h, q) /\ <<k, h>> # <<x.miner, x.height>>
    BY <1>1, <1>4 DEF Due
  <2>2. ~Is(x, k, h, q)
    BY <2>1 DEF Is
  <2> QED
    BY <1>1, <1>3, <2>1, <2>2 DEF Kept, Underway
<1> QED
  BY <1>1, <1>4, StillBacked

\* A clean-up takes no row that is due.
LEMMA CleanUpKeepsRows ==
  ASSUME TypeOK, RowsBacked, CleanUp
  PROVE  RowsBacked'
<1> DEFINE x == Head(channel)
           cutoff == x.height - Retention
<1>1. /\ channel # << >> /\ x \in Cleanups /\ channel' = Tail(channel)
      /\ cutoff \in Int /\ cut' \in Nat /\ cut' >= cutoff /\ cut' >= cut
      /\ \A k \in Miners : \A h \in Heights :
             <<k, h>> \in DOMAIN rows /\ h >= cutoff =>
                 <<k, h>> \in DOMAIN rows' /\ rows'[<<k, h>>] = rows[<<k, h>>]
  BY CleanUpIs
<1>2. UNCHANGED <<miners, saving, unsaved>>
  BY DEF CleanUp, WriterTakes
<1>3. channel \in Seq(Saves \union Cleanups) /\ cut \in Nat
  BY DEF TypeOK
<1>4. \A y : y \in ToSet(channel) <=> y = x \/ y \in ToSet(channel')
  BY <1>1, <1>3, ElementsOfTail
<1>5. x.kind # "save"
  BY <1>1 DEF Cleanups
<1> HIDE DEF x, cutoff
<1>6. ASSUME NEW k \in Miners, NEW h \in Heights, NEW q \in Qualities,
             Due(k, h)', Due(k, h) => Kept(k, h, q)
      PROVE  Kept(k, h, q)'
  <2>1. h \in Nat /\ h >= cut' /\ <<k, h>> \notin unsaved
    BY <1>2, <1>6, HeightsAssumption DEF Due
  <2>2. h >= cut /\ h >= cutoff
    BY <1>1, <1>3, <2>1
  <2>3. Kept(k, h, q)
    BY <1>6, <2>1, <2>2 DEF Due
  <2>4. InTable(rows, k, h, q) => InTable(rows', k, h, q)
    BY <1>1, <2>2 DEF InTable
  <2>5. Underway(saving, channel, k, h, q) => Underway(saving', channel', k, h, q)
    BY <1>2, <1>4, <1>5 DEF Underway
  <2> QED
    BY <2>3, <2>4, <2>5 DEF Kept
<1> QED
  BY <1>2, <1>6, StillBacked

\* A poller may send a clean-up, behind what is in the channel.
LEMMA PollerKeepsRows ==
  ASSUME TypeOK, RowsBacked, NEW r \in Pollers, Poll(r) \/ AnswerFails(r) \/ Handle(r)
  PROVE  RowsBacked'
<1>1. UNCHANGED <<miners, saving, rows, unsaved, cut>>
  BY DEF Poll, AnswerFails, Handle, Acquire, Answer, Store, UpdateHeight, UpdateBaseTarget,
         StoreHeight, AtPoller
<1>2. channel \in Seq(Saves \union Cleanups)
  BY DEF TypeOK
<1>3. \A x \in ToSet(channel) : x \in ToSet(channel')
  <2>1. CASE channel' = channel
    BY <2>1
  <2>2. CASE StoreHeight(r) /\ channel' # channel
    <3>1. channel' = Append(channel, Cleanup(got[r])) /\ got[r] \in Heights
      BY <2>2 DEF StoreHeight, AtPoller, TypeOK
    <3>2. Cleanup(got[r]) \in Saves \union Cleanups
      BY <3>1 DEF Cleanup, Cleanups
    <3> QED
      BY <1>2, <3>1, <3>2, ElementsOfAppend
  <2> QED
    BY <2>1, <2>2 DEF Poll, AnswerFails, Handle, Acquire, Answer, Store, UpdateHeight, UpdateBaseTarget
<1>4. ASSUME NEW k \in Miners, NEW h \in Heights, NEW q \in Qualities,
             Due(k, h)', Due(k, h) => Kept(k, h, q)
      PROVE  Kept(k, h, q)'
  <2>1. Kept(k, h, q)
    BY <1>1, <1>4 DEF Due
  <2>2. Underway(saving, channel, k, h, q) => Underway(saving', channel', k, h, q)
    BY <1>1, <1>3, StillUnderway
  <2> QED
    BY <1>1, <2>1, <2>2 DEF Kept
<1> QED
  BY <1>1, <1>4, StillBacked

LEMMA NextRows ==
  ASSUME TypeOK, RowsBacked, [Next]_vars
  PROVE  RowsBacked'
<1>1. ASSUME UNCHANGED <<miners, saving, channel, rows, unsaved, cut>> PROVE RowsBacked'
  BY <1>1 DEF RowsBacked, Due, Kept
<1>2. ASSUME NEW h \in Heights, NewBlock(h) PROVE RowsBacked'
  BY <1>1, <1>2 DEF NewBlock, dbVars
<1>3. CASE Tick
  BY <1>1, <1>3 DEF Tick, dbVars
<1>4. CASE Restart
  <2>1. \A k \in Miners : DOMAIN miners'[k].perBlock = {}
    BY <1>4 DEF Restart, NoMiner
  <2> QED
    BY <2>1 DEF RowsBacked
<1>5. CASE UNCHANGED vars
  BY <1>1, <1>5 DEF vars, dbVars
<1> QED
  BY <1>2, <1>3, <1>4, <1>5, PollerKeepsRows, RecordKeepsRows, QueueSaveKeepsRows, SaveKeepsRows,
     SaveFailsKeepsRows, CleanUpKeepsRows, LoadKeepsRows DEF Next, Writer

-----------------------------------------------------------------------------
(* The theorems.                                                             *)

LEMMA InitInv ==
  ASSUME Init
  PROVE  IInv
<1>1. StartsQuiet
  BY DEF Init, StartsQuiet
<1>2. AllOfTheirBlock
  BY DEF Init, AllOfTheirBlock, OfItsBlock
<1>3. \A k \in Miners : DOMAIN miners[k].perBlock = {}
  BY DEF Init, NoMiner
<1>4. RowsBacked
  BY <1>3 DEF RowsBacked
<1> QED
  BY <1>1, <1>2, <1>4, InitTypes, InitCache DEF IInv

LEMMA NextInv ==
  ASSUME IInv, [Next]_vars
  PROVE  IInv'
BY NextTypes, NextCache, NextStartsQuiet, NextOfTheirBlock, NextRows DEF IInv

\* The inductive invariant holds, for any number of requests, submissions,
\* miners, failures and restarts.
THEOREM ServerInvariant == Spec => []IInv
BY InitInv, NextInv, PTL DEF Spec

\* Types.
THEOREM ServerTypes == Spec => []TypeOK
<1>1. IInv => TypeOK
  BY DEF IInv
<1> QED
  BY <1>1, ServerInvariant, PTL

\* One task asks the upstream at a time, only while nothing fresh is in the
\* cache, and none keeps the lock (pool.rs:129).
THEOREM OneTaskFetches == Spec => []NoHerd
<1>1. IInv => NoHerd
  BY DEF IInv
<1> QED
  BY <1>1, ServerInvariant, PTL

\* The cache never goes back to an earlier block (pool.rs:146): the answer that
\* is stored is the lock holder's, and no other was stored since it was given.
THEOREM CacheNeverGoesBack == Spec => CacheAdvances
<1>1. IInv /\ [Next]_vars => [cache'.block >= cache.block \/ cache'.block = NoBlock]_cache
  BY NextCache DEF IInv
<1> QED
  BY <1>1, ServerInvariant, PTL DEF Spec, CacheAdvances

\* The best shown for a miner is of its very block (stats.rs:273).
THEOREM BestIsOfItsBlock == Spec => []ShownIsOfItsBlock
<1>1. IInv => ShownIsOfItsBlock
  BY DEF IInv, AllOfTheirBlock, OfItsBlock, ShownIsOfItsBlock
<1> QED
  BY <1>1, ServerInvariant, PTL

\* The times shown are those of exact roots, and rank the miners as their
\* qualities do (stats.rs:440, time_bending.rs:29).
THEOREM TimesShownAreRight == Spec => []ShownTimesRight
<1>1. ASSUME TypeOK PROVE ShownTimesRight
  <2>1. SUFFICES ASSUME target # NoBlock, NEW k \in Shown
                 PROVE  LET ratio == Ratio(miners[k].best, BaseTarget[target]) IN
                        /\ IsRoot(int_cuberoot(ratio), ratio)
                        /\ \A l \in Shown : miners[k].best <= miners[l].best =>
                            PocTime(miners[k].best, BaseTarget[target])
                                <= PocTime(miners[l].best, BaseTarget[target])
    BY DEF ShownTimesRight
  <2>2. BaseTarget[target] \in Nat \ {0}
    BY <1>1, <2>1, BaseTargetAssumption DEF TypeOK
  <2>3. \A l \in Shown : miners[l].best \in Nat
    <3>1. ASSUME NEW l \in Shown PROVE miners[l].best \in Nat
      <4>1. miners[l] \in Infos /\ miners[l] # NoMiner
        BY <1>1 DEF Shown, TypeOK, NoMiner
      <4> QED
        BY <4>1, InfoType
    <3> QED
      BY <3>1
  <2> QED
    BY <2>1, <2>2, <2>3, TimesFollowQualities
<1> QED
  BY <1>1, ServerTypes, PTL

\* Once the writer has caught up, the database knows every quality that the
\* statistics have, unless it was expired or refused (server.rs:87, db.rs:133).
THEOREM RowsHaveKeptUp == Spec => []RowsKeepUp
<1>1. ASSUME IInv PROVE RowsKeepUp
  <2>1. SUFFICES ASSUME NEW k \in Miners, NEW h \in DOMAIN miners[k].perBlock,
                        h >= cut, <<k, h>> \notin unsaved, ~OnItsWay(k, h)
                 PROVE  InTable(rows, k, h, miners[k].perBlock[h])
    BY DEF RowsKeepUp, InTable
  <2>2. Kept(k, h, miners[k].perBlock[h])
    BY <1>1, <2>1 DEF IInv, RowsBacked, Due
  <2>3. ~Underway(saving, channel, k, h, miners[k].perBlock[h])
    BY <2>1 DEF Underway, Is, OnItsWay, ToSet
  <2> QED
    BY <2>2, <2>3 DEF Kept
<1> QED
  BY <1>1, ServerInvariant, PTL

=============================================================================
